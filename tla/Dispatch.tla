------------------------------- MODULE Dispatch -------------------------------
(***************************************************************************)
(* How a queue entry becomes attempts of an assignment and comes back as a *)
(* finished entry: the tick, the janitor and the start of the hub          *)
(* (server/orchestrator/hub-orchestrator.ts), the claim recovery of the    *)
(* scheduler (scheduler.ts, hub-queue.ts) and the reconciler               *)
(* (reconciler.ts), against the workers.                                   *)
(*                                                                         *)
(* One entry and its assignment.  A hub has two threads of control, the    *)
(* tick and the janitor; each awaited read or write of shared state is a   *)
(* step, and what a thread has read it acts on later.  The operations of   *)
(* the AssignmentStore are atomic here (module Assignment shows that they  *)
(* are, up to what a crash leaves for the next holder of its lock), and    *)
(* the leader lock is the variable `leader' (module LeaderLock).           *)
(*                                                                         *)
(* Time is not modelled: a claim may be found stale, a heartbeat silent or *)
(* an acceptance overdue whenever the code would look at the clock.        *)
(***************************************************************************)
EXTENDS Integers

CONSTANTS
  Hubs,            \* hub processes; a restart is another hub
  NoHub,           \* no hub
  WorkerOutcomes,  \* terminal statuses a worker may publish
  MaxAttempts      \* bound: attempts of the assignment

Terminal == {"completed", "failed", "blocked", "cancelled"}

ASSUME DispatchAssumption ==
  /\ NoHub \notin Hubs
  /\ WorkerOutcomes \subseteq Terminal
  /\ MaxAttempts \in Nat \ {0}

VARIABLES
  leader,     \* the hub whose leader lease runs
  entry,      \* status of the queue entry
  fresh,      \* hubs that would pass a guard on the entry's updatedAt
  assignment, \* state.json
  attempt,    \* status in attempt.json, result.json and accepted.json per attempt
  worker,     \* the worker process of each attempt
  pc,         \* the tick of each hub
  ready,      \* hubs past their start
  seen,       \* what the tick remembers: the attempt and its outcome
  janitor     \* the janitor of each hub and the attempt it remembers

vars == <<leader, entry, fresh, assignment, attempt, worker, pc, ready, seen, janitor>>
hubVars == <<leader, pc, ready, seen, janitor>>

Attempts == 1 .. MaxAttempts
NoAssignment == [status |-> "absent", active |-> 0,
                 queueFinalized |-> FALSE, workerFinalized |-> FALSE]
NoAttempt == [status |-> "none", result |-> "none", accepted |-> FALSE]
Nothing == [n |-> 0, outcome |-> "none"]
Resting == [step |-> "idle", n |-> 0]

Assignment == [status : Terminal \cup {"absent", "scheduled", "assigned", "running"},
               active : 0 .. MaxAttempts,
               queueFinalized : BOOLEAN, workerFinalized : BOOLEAN]
Attempt == [status : Terminal \cup {"none", "assigned", "running"},
            result : Terminal \cup {"none"}, accepted : BOOLEAN]

Init ==
  /\ leader = NoHub
  /\ entry = "pending"
  /\ fresh = {}
  /\ assignment = NoAssignment
  /\ attempt = [n \in Attempts |-> NoAttempt]
  /\ worker = [n \in Attempts |-> "none"]
  /\ pc = [h \in Hubs |-> "down"]
  /\ ready = {}
  /\ seen = [h \in Hubs |-> Nothing]
  /\ janitor = [h \in Hubs |-> Resting]

-------------------------------------------------------------------------------
(* The assignment store, an operation at a time.                             *)
Active(n)  == n # 0 /\ assignment.active = n
IsTerminal == assignment.status \in Terminal
Decided(n) == attempt[n].status \in Terminal
MayRun(n)  == Active(n) /\ ~IsTerminal /\ attempt[n].status \in {"assigned", "running"}

SetRunning(n) ==
  /\ attempt' = [attempt EXCEPT ![n].status = "running"]
  /\ assignment' = [assignment EXCEPT !.status = "running"]

(* completeAttemptFromExistingResult keeps the finalization as it is.        *)
Complete(n, outcome) ==
  IF IsTerminal
    THEN UNCHANGED <<assignment, attempt>>
    ELSE /\ attempt' = [attempt EXCEPT ![n].status = outcome]
         /\ assignment' = [assignment EXCEPT !.status = outcome]

SyntheticFailureOver(n) ==  \* mutant: result.json is not created exclusively
  /\ attempt' = [attempt EXCEPT ![n].status = "failed", ![n].result = "failed"]
  /\ assignment' = [assignment EXCEPT !.status = "failed",
                                      !.queueFinalized = FALSE, !.workerFinalized = FALSE]

(* writeSyntheticFailure writes nothing when result.json is there already.   *)
SyntheticFailure(n) ==
  IF attempt[n].result # "none"
    THEN UNCHANGED <<assignment, attempt>>
    ELSE /\ attempt' = [attempt EXCEPT ![n].status = "failed", ![n].result = "failed"]
         /\ assignment' = [assignment EXCEPT !.status = "failed",
                                             !.queueFinalized = FALSE, !.workerFinalized = FALSE]

(* updateEntry without a guard: every other memory of the entry is outdated. *)
UpdateEntry(status) == entry' = status /\ fresh' = {}

-------------------------------------------------------------------------------
(* The life of a hub.                                                        *)
Goto(h, p) == pc' = [pc EXCEPT ![h] = p]
Running(h) == pc[h] \notin {"down", "exited"}
Unlead(h) == leader' = IF leader = h THEN NoHub ELSE leader

(* stop: no further tick; a janitor pass under way goes on.                  *)
Stop(h) == Goto(h, "exited") /\ Unlead(h) /\ ready' = ready \ {h}
(* An exception ends the tick; during the start it stops the hub.            *)
Throw(h) == IF h \in ready THEN Goto(h, "idle") /\ UNCHANGED <<leader, ready>> ELSE Stop(h)
AfterReconcileAlways(h) == "select"  \* mutant: the start goes straight to work
AfterReconcile(h) == IF h \in ready THEN "select" ELSE "orphans"
Remember(h, n, outcome) == seen' = [seen EXCEPT ![h] = [n |-> n, outcome |-> outcome]]
Forget(h) == seen' = [seen EXCEPT ![h] = Nothing]

Acquire(h) ==
  /\ pc[h] = "down" /\ leader = NoHub
  /\ leader' = h
  /\ Goto(h, "reconcile")
  /\ UNCHANGED <<entry, fresh, assignment, attempt, worker, ready, seen, janitor>>

(* The lease ends while its holder is stalled; the holder goes on later.     *)
(* Bound: only while another hub is left to take over.                       *)
LoseLease(h) ==
  /\ leader = h /\ leader' = NoHub
  /\ \E g \in Hubs : pc[g] = "down"
  /\ UNCHANGED <<entry, fresh, assignment, attempt, worker, pc, ready, seen, janitor>>

Dies(h) ==
  /\ Running(h)
  /\ Stop(h)
  /\ fresh' = fresh \ {h}
  /\ Forget(h)
  /\ janitor' = [janitor EXCEPT ![h] = Resting]
  /\ UNCHANGED <<entry, assignment, attempt, worker>>

(* tick: stop the hub if maintenance became active or the leader lock is     *)
(* lost.                                                                     *)
TickStart(h) ==
  /\ pc[h] = "idle"
  /\ \/ leader = h /\ Goto(h, "reconcile") /\ UNCHANGED <<leader, ready>>
     \/ Stop(h)
  /\ UNCHANGED <<entry, fresh, assignment, attempt, worker, seen, janitor>>

-------------------------------------------------------------------------------
(* reconcileAssignments.  The status is the one listed; the active attempt   *)
(* is read again in each case.  A cancelled assignment has no case.          *)
Compensated == assignment.status \in {"completed", "failed", "blocked"}

ListedCaseCompleted(next) ==  \* mutant: only completions are compensated
  CASE assignment.status \in {"scheduled", "assigned", "running"} -> assignment.status
    [] assignment.status = "completed" /\ ~assignment.queueFinalized -> "compensate"
    [] assignment.status = "completed" /\ assignment.queueFinalized /\ ~assignment.workerFinalized
         -> "finalizeWorker"
    [] OTHER -> next

ListedCase(next) ==
  CASE assignment.status \in {"scheduled", "assigned", "running"} -> assignment.status
    [] Compensated /\ ~assignment.queueFinalized -> "compensate"
    [] Compensated /\ assignment.queueFinalized /\ ~assignment.workerFinalized -> "finalizeWorker"
    [] OTHER -> next

ListAssignments(h) ==
  /\ pc[h] = "reconcile"
  /\ IF leader = h
       THEN Goto(h, ListedCase(AfterReconcile(h))) /\ UNCHANGED <<leader, ready>>
       ELSE Throw(h)
  /\ UNCHANGED <<entry, fresh, assignment, attempt, worker, seen, janitor>>

(* Cases "scheduled" and "assigned": the acceptance, a claim of the entry by *)
(* the worker itself (held since an earlier attempt), or neither for too     *)
(* long.                                                                     *)
ReadAccepted(h) ==
  /\ pc[h] \in {"scheduled", "assigned"}
  /\ LET n == assignment.active IN
       \/ /\ n # 0 /\ attempt[n].accepted
          /\ Remember(h, n, "none") /\ Goto(h, "markRunning")
       \/ /\ n # 0 /\ ~attempt[n].accepted /\ pc[h] = "assigned" /\ entry = "in_progress"
          /\ Remember(h, n, "none") /\ Goto(h, "markClaimed")
       \/ /\ n # 0 /\ ~attempt[n].accepted /\ pc[h] = "assigned"
          /\ Remember(h, n, "failed") /\ Goto(h, "synthetic")
       \/ /\ n # 0 => ~attempt[n].accepted
          /\ Goto(h, AfterReconcile(h)) /\ Forget(h)
  /\ UNCHANGED <<leader, entry, fresh, assignment, attempt, worker, ready, janitor>>

(* Case "running": a recorded result, or a silent heartbeat.                 *)
ReadResult(h) ==
  /\ pc[h] = "running"
  /\ LET n == assignment.active IN
       \/ /\ n # 0 /\ Decided(n)
          /\ Remember(h, n, attempt[n].status) /\ Goto(h, "complete")
       \/ /\ n # 0 /\ ~Decided(n)
          /\ Remember(h, n, "failed") /\ Goto(h, "synthetic")
       \/ /\ n # 0 => ~Decided(n)
          /\ Goto(h, AfterReconcile(h)) /\ Forget(h)
  /\ UNCHANGED <<leader, entry, fresh, assignment, attempt, worker, ready, janitor>>

(* _compensateFinalization: the recorded result, or the file's.              *)
Compensate(h) ==
  /\ pc[h] = "compensate"
  /\ LET n == assignment.active
         outcome == IF Decided(n) THEN attempt[n].status ELSE attempt[n].result
     IN IF n # 0 /\ outcome # "none"
          THEN Remember(h, n, outcome) /\ Goto(h, "finalize")
          ELSE Goto(h, AfterReconcile(h)) /\ Forget(h)
  /\ UNCHANGED <<leader, entry, fresh, assignment, attempt, worker, ready, janitor>>

(* markRunning without an identity; it throws for a stale attempt, and that  *)
(* ends the whole pass.                                                      *)
MarkRunning(h) ==
  /\ pc[h] \in {"markRunning", "markClaimed"}
  /\ IF MayRun(seen[h].n)
       THEN /\ SetRunning(seen[h].n)
            /\ Goto(h, IF pc[h] = "markRunning" THEN "inProgress" ELSE AfterReconcile(h))
            /\ UNCHANGED <<leader, ready>>
       ELSE Throw(h) /\ UNCHANGED <<assignment, attempt>>
  /\ Forget(h)
  /\ UNCHANGED <<entry, fresh, worker, janitor>>

MarkInProgressMisnamed(h) ==  \* mutant: the assignment's status in the queue
  /\ pc[h] = "inProgress"
  /\ UpdateEntry("running")
  /\ Goto(h, AfterReconcile(h))
  /\ UNCHANGED <<leader, assignment, attempt, worker, ready, seen, janitor>>

MarkInProgress(h) ==
  /\ pc[h] = "inProgress"
  /\ UpdateEntry("in_progress")
  /\ Goto(h, AfterReconcile(h))
  /\ UNCHANGED <<leader, assignment, attempt, worker, ready, seen, janitor>>

CompleteAttempt(h) ==
  /\ pc[h] = "complete"
  /\ IF Active(seen[h].n)
       THEN Complete(seen[h].n, seen[h].outcome) /\ Goto(h, "finalize") /\ UNCHANGED <<leader, ready, seen>>
       ELSE Throw(h) /\ Forget(h) /\ UNCHANGED <<assignment, attempt>>
  /\ UNCHANGED <<entry, fresh, worker, janitor>>

(* The caller ignores whether the synthetic failure was written.             *)
WriteSyntheticFailure(h) ==
  /\ pc[h] = "synthetic"
  /\ IF Active(seen[h].n)
       THEN SyntheticFailure(seen[h].n) /\ Goto(h, "finalize") /\ UNCHANGED <<leader, ready, seen>>
       ELSE Throw(h) /\ Forget(h) /\ UNCHANGED <<assignment, attempt>>
  /\ UNCHANGED <<entry, fresh, worker, janitor>>

(* _finalizeQueue: the leader guard, ...                                     *)
GuardLeader(h) ==
  /\ pc[h] = "finalize"
  /\ IF leader = h
       THEN Goto(h, "updateQueue") /\ UNCHANGED <<leader, ready, seen>>
       ELSE Throw(h) /\ Forget(h)
  /\ UNCHANGED <<entry, fresh, assignment, attempt, worker, janitor>>

(* ... the entry: a completed result may fail the finalizer contract, a      *)
(* failed finalization may be retried by itself, and a failure is routed     *)
(* (FailureRouter.route: any decision), ...                                  *)
EntryStatuses(outcome) ==
  CASE outcome = "completed" -> {"completed", "pending", "blocked", "failed"}
    [] outcome = "failed" -> {"pending", "blocked", "failed"}
    [] outcome = "blocked" -> {"blocked", "pending"}
    [] OTHER -> {outcome}

UpdateQueue(h) ==
  /\ pc[h] = "updateQueue"
  /\ \E s \in EntryStatuses(seen[h].outcome) : UpdateEntry(s)
  /\ Goto(h, "markFinalized") /\ Forget(h)
  /\ UNCHANGED <<leader, assignment, attempt, worker, ready, janitor>>

(* ... and markFinalized.                                                    *)
MarkFinalized(h) ==
  /\ pc[h] = "markFinalized"
  /\ assignment' = [assignment EXCEPT !.queueFinalized = TRUE]
  /\ Goto(h, "finalizeWorker")
  /\ UNCHANGED <<leader, entry, fresh, attempt, worker, ready, seen, janitor>>

(* _finalizeWorker: the leader guard again, then markFinalized (the registry *)
(* entry of the worker, which it makes ready, is left out).                  *)
FinalizeWorker(h) ==
  \/ /\ pc[h] = "finalizeWorker"
     /\ IF leader = h THEN Goto(h, "markWorker") /\ UNCHANGED <<leader, ready>> ELSE Throw(h)
     /\ UNCHANGED <<entry, fresh, assignment, attempt, worker, seen, janitor>>
  \/ /\ pc[h] = "markWorker"
     /\ assignment' = [assignment EXCEPT !.workerFinalized = TRUE]
     /\ Goto(h, AfterReconcile(h))
     /\ UNCHANGED <<leader, entry, fresh, attempt, worker, ready, seen, janitor>>

(* recoverRuntime, last part: reconcileQueue lists the assignments, then the *)
(* scheduled entries.                                                        *)
ListForOrphans(h) ==
  /\ pc[h] = "orphans"
  /\ IF leader # h
       THEN Throw(h) /\ UNCHANGED seen
       ELSE /\ Remember(h, 0, CASE assignment.status = "absent" -> "failed"
                                [] assignment.status \in {"completed", "failed"} -> assignment.status
                                [] OTHER -> "none")
            /\ Goto(h, "reconcileQueue") /\ UNCHANGED <<leader, ready>>
  /\ UNCHANGED <<entry, fresh, assignment, attempt, worker, janitor>>

ReconcileQueue(h) ==
  /\ pc[h] = "reconcileQueue"
  /\ IF entry = "scheduled" /\ seen[h].outcome # "none"
       THEN UpdateEntry(seen[h].outcome)
       ELSE UNCHANGED <<entry, fresh>>
  /\ Goto(h, "align") /\ Forget(h)
  /\ janitor' = [janitor EXCEPT ![h].step = "list"]
  /\ UNCHANGED <<leader, assignment, attempt, worker, ready>>

(* The start ends with one reconcileQueueVsAssignments.                      *)
MarkReady(h) ==
  /\ pc[h] = "align" /\ janitor[h].step = "idle"
  /\ IF leader = h
       THEN ready' = ready \cup {h} /\ Goto(h, "idle") /\ UNCHANGED leader
       ELSE Stop(h)
  /\ UNCHANGED <<entry, fresh, assignment, attempt, worker, seen, janitor>>

-------------------------------------------------------------------------------
(* The scheduler: _preparePendingPool lists the queue; a stale claim is      *)
(* refreshed when the assignment is at work and reset otherwise, guarded by  *)
(* the entry's updatedAt; then the pool is listed again.                     *)
FindStaleClaim(h) ==
  /\ pc[h] = "select"
  /\ \/ entry \in {"scheduled", "in_progress"} /\ fresh' = fresh \cup {h} /\ Goto(h, "judge")
     \/ UNCHANGED fresh /\ Goto(h, "candidates")
  /\ UNCHANGED <<leader, entry, assignment, attempt, worker, ready, seen, janitor>>

JudgeClaim(h) ==
  /\ pc[h] = "judge"
  /\ Goto(h, IF assignment.status \in {"running", "assigned"} THEN "refresh" ELSE "reset")
  /\ UNCHANGED <<leader, entry, fresh, assignment, attempt, worker, ready, seen, janitor>>

RefreshClaim(h) ==
  /\ pc[h] = "refresh"
  /\ fresh' = IF h \in fresh THEN {} ELSE fresh
  /\ Goto(h, "candidates")
  /\ UNCHANGED <<leader, entry, assignment, attempt, worker, ready, seen, janitor>>

ResetClaim(h) ==
  /\ pc[h] = "reset"
  /\ IF h \in fresh THEN UpdateEntry("pending") ELSE UNCHANGED <<entry, fresh>>
  /\ Goto(h, "candidates")
  /\ UNCHANGED <<leader, assignment, attempt, worker, ready, seen, janitor>>

NextCandidate(h) ==
  /\ pc[h] = "candidates"
  /\ \/ entry = "pending" /\ fresh' = fresh \cup {h} /\ Goto(h, "fenceReserve")
     \/ UNCHANGED fresh /\ Goto(h, "idle")
  /\ UNCHANGED <<leader, entry, assignment, attempt, worker, ready, seen, janitor>>

-------------------------------------------------------------------------------
(* The dispatch of a candidate.  Between its parts the tick checks the       *)
(* leader lock, and stops the hub when it is lost.                           *)
Fence(h) ==
  /\ pc[h] \in {"fenceReserve", "fenceInbox", "fenceClaim"}
  /\ IF leader = h
       THEN /\ Goto(h, CASE pc[h] = "fenceReserve" -> "reserve"
                         [] pc[h] = "fenceInbox" -> "writeInbox"
                         [] pc[h] = "fenceClaim" -> "claim")
            /\ UNCHANGED <<leader, fresh, seen, ready>>
       ELSE Stop(h) /\ fresh' = fresh \ {h} /\ Forget(h)
  /\ UNCHANGED <<entry, assignment, attempt, worker, janitor>>

Reserve(h) ==
  /\ pc[h] = "reserve"
  /\ IF h \in fresh
       THEN entry' = "scheduled" /\ fresh' = {h} /\ Goto(h, "open")
       ELSE Goto(h, "idle") /\ UNCHANGED <<entry, fresh>>
  /\ UNCHANGED <<leader, assignment, attempt, worker, ready, seen, janitor>>

(* getOrCreateAssignmentForEntry; the project may turn out unregistered.     *)
OpenAssignment(h) ==
  /\ pc[h] = "open"
  /\ \/ /\ assignment' = [assignment EXCEPT !.status = "scheduled",
                                         !.queueFinalized = FALSE, !.workerFinalized = FALSE]
        /\ Goto(h, "ensureWorker")
     \/ UNCHANGED assignment /\ Goto(h, "giveBack")
  /\ UNCHANGED <<leader, entry, fresh, attempt, worker, ready, seen, janitor>>

(* Bound: no worker is available once the attempts are used up.              *)
EnsureWorker(h) ==
  /\ pc[h] = "ensureWorker"
  /\ \/ assignment.active < MaxAttempts /\ Goto(h, "createAttempt")
     \/ Goto(h, "giveBack")
  /\ UNCHANGED <<leader, entry, fresh, assignment, attempt, worker, ready, seen, janitor>>

CreateAttempt(h) ==
  /\ pc[h] = "createAttempt" /\ assignment.active < MaxAttempts
  /\ LET n == assignment.active + 1 IN
       /\ assignment' = [assignment EXCEPT !.active = n, !.status = "assigned"]
       /\ attempt' = [attempt EXCEPT ![n].status = "assigned"]
       /\ Remember(h, n, "none")
  /\ Goto(h, "fenceInbox")
  /\ UNCHANGED <<leader, entry, fresh, worker, ready, janitor>>

(* The reservation of the worker, which may fail, and the inbox message.     *)
WriteInbox(h) ==
  /\ pc[h] = "writeInbox"
  /\ \/ /\ worker' = [worker EXCEPT ![seen[h].n] = IF @ = "dead" THEN @ ELSE "inbox"]
        /\ Goto(h, "fenceClaim")
     \/ Goto(h, "giveBack") /\ UNCHANGED worker
  /\ Forget(h)
  /\ UNCHANGED <<leader, entry, fresh, assignment, attempt, ready, janitor>>

Claim(h) ==
  /\ pc[h] = "claim"
  /\ fresh' = IF h \in fresh THEN {} ELSE fresh
  /\ Goto(h, "idle")
  /\ UNCHANGED <<leader, entry, assignment, attempt, worker, ready, seen, janitor>>

GiveBack(h) ==
  /\ pc[h] = "giveBack"
  /\ IF h \in fresh THEN UpdateEntry("pending") ELSE UNCHANGED <<entry, fresh>>
  /\ Goto(h, "idle")
  /\ UNCHANGED <<leader, assignment, attempt, worker, ready, seen, janitor>>

-------------------------------------------------------------------------------
(* The janitor: reconcileQueueVsAssignments lists the claimed entries, reads *)
(* the assignment, and updates the entry without a guard.                    *)
Janitor(h, step) == janitor' = [janitor EXCEPT ![h].step = step]

JanitorList(h) ==
  /\ \/ janitor[h].step = "idle" /\ h \in ready /\ entry \in {"scheduled", "in_progress"}
     \/ janitor[h].step = "list"
  /\ Running(h)
  /\ Janitor(h, IF entry \in {"scheduled", "in_progress"} THEN "read" ELSE "idle")
  /\ UNCHANGED <<leader, entry, fresh, assignment, attempt, worker, pc, ready, seen>>

JanitorReadDecided(h) ==  \* mutant: every decided assignment has completed
  /\ janitor[h].step = "read"
  /\ Janitor(h, CASE assignment.status = "absent" -> "pending"
                  [] IsTerminal -> "completed"
                  [] OTHER -> "idle")
  /\ UNCHANGED <<leader, entry, fresh, assignment, attempt, worker, pc, ready, seen>>

JanitorRead(h) ==
  /\ janitor[h].step = "read"
  /\ LET n == assignment.active IN
     IF assignment.status = "absent" THEN Janitor(h, "pending")
     ELSE IF assignment.status \in {"completed", "failed"} THEN Janitor(h, assignment.status)
     ELSE IF n # 0 /\ worker[n] = "dead"
       THEN janitor' = [janitor EXCEPT ![h] = [step |-> "synthetic", n |-> n]]
     ELSE Janitor(h, "idle")
  /\ UNCHANGED <<leader, entry, fresh, assignment, attempt, worker, pc, ready, seen>>

JanitorUpdate(h) ==
  /\ janitor[h].step \in {"pending", "completed", "failed"}
  /\ UpdateEntry(janitor[h].step)
  /\ janitor' = [janitor EXCEPT ![h] = Resting]
  /\ UNCHANGED <<leader, assignment, attempt, worker, pc, ready, seen>>

(* The worker is dead: the assignment is read again, a synthetic failure     *)
(* written, and the entry fails.                                             *)
JanitorSynthetic(h) ==
  /\ janitor[h].step = "synthetic"
  /\ IF Active(janitor[h].n) /\ assignment.status \notin {"completed", "failed"}
       THEN SyntheticFailure(janitor[h].n) /\ Janitor(h, "failed")
       ELSE Janitor(h, "idle") /\ UNCHANGED <<assignment, attempt>>
  /\ UNCHANGED <<leader, entry, fresh, worker, pc, ready, seen>>

-------------------------------------------------------------------------------
(* The worker of attempt n; see module Assignment for its steps.             *)
WorkerGoto(n, p) == worker' = [worker EXCEPT ![n] = p]

Accept(n) ==
  /\ worker[n] = "inbox"
  /\ IF Active(n) /\ ~IsTerminal
       THEN WorkerGoto(n, "accepted") /\ attempt' = [attempt EXCEPT ![n].accepted = TRUE]
       ELSE WorkerGoto(n, "over") /\ UNCHANGED attempt
  /\ UNCHANGED <<entry, fresh, assignment, hubVars>>

Start(n) ==
  /\ worker[n] = "accepted"
  /\ IF MayRun(n)
       THEN WorkerGoto(n, "running") /\ SetRunning(n)
       ELSE WorkerGoto(n, "over") /\ UNCHANGED <<assignment, attempt>>
  /\ UNCHANGED <<entry, fresh, hubVars>>

(* The lease guard and the exclusive creation of result.json.                *)
PublishResult(n, outcome) ==
  /\ worker[n] = "running"
  /\ IF Active(n) /\ ~IsTerminal /\ attempt[n].result = "none"
       THEN WorkerGoto(n, "published") /\ attempt' = [attempt EXCEPT ![n].result = outcome]
       ELSE WorkerGoto(n, "over") /\ UNCHANGED attempt
  /\ UNCHANGED <<entry, fresh, assignment, hubVars>>

ReportResult(n) ==
  /\ worker[n] = "published"
  /\ IF Active(n)
       THEN Complete(n, attempt[n].result) /\ WorkerGoto(n, "over")
       ELSE WorkerGoto(n, "over") /\ UNCHANGED <<assignment, attempt>>
  /\ UNCHANGED <<entry, fresh, hubVars>>

WorkerDies(n) ==
  /\ attempt[n].status # "none" /\ worker[n] # "dead"
  /\ WorkerGoto(n, "dead")
  /\ UNCHANGED <<entry, fresh, assignment, attempt, hubVars>>

-------------------------------------------------------------------------------
Reconcile(h) ==
  \/ ListAssignments(h) \/ ReadAccepted(h) \/ ReadResult(h) \/ Compensate(h)
  \/ MarkRunning(h) \/ MarkInProgress(h) \/ CompleteAttempt(h) \/ WriteSyntheticFailure(h)
  \/ GuardLeader(h) \/ UpdateQueue(h) \/ MarkFinalized(h) \/ FinalizeWorker(h)

Startup(h) == ListForOrphans(h) \/ ReconcileQueue(h) \/ MarkReady(h)

Schedule(h) ==
  \/ FindStaleClaim(h) \/ JudgeClaim(h) \/ RefreshClaim(h) \/ ResetClaim(h) \/ NextCandidate(h)

DispatchCandidate(h) ==
  \/ Fence(h) \/ Reserve(h) \/ OpenAssignment(h) \/ EnsureWorker(h) \/ CreateAttempt(h)
  \/ WriteInbox(h) \/ Claim(h) \/ GiveBack(h)

Tick(h) == TickStart(h) \/ Reconcile(h) \/ Startup(h) \/ Schedule(h) \/ DispatchCandidate(h)

JanitorStep(h) == JanitorList(h) \/ JanitorRead(h) \/ JanitorUpdate(h) \/ JanitorSynthetic(h)

WorkerStep(n) ==
  \/ Accept(n) \/ Start(n)
  \/ \E outcome \in WorkerOutcomes : PublishResult(n, outcome)
  \/ ReportResult(n)

Next ==
  \/ \E h \in Hubs : Acquire(h) \/ LoseLease(h) \/ Dies(h) \/ Tick(h) \/ JanitorStep(h)
  \/ \E n \in Attempts : WorkerStep(n) \/ WorkerDies(n)

Spec == Init /\ [][Next]_vars

(* The tick timer is armed again after every tick, whatever it threw, the    *)
(* janitor's interval fires while the hub runs, and the calls they await     *)
(* return.  Nothing forces a worker, a deadline or an acquisition.           *)
Fairness == \A h \in Hubs : WF_vars(Tick(h)) /\ WF_vars(Running(h) /\ JanitorStep(h))

LiveSpec == Spec /\ Fairness

-------------------------------------------------------------------------------
TypeOK ==
  /\ leader \in Hubs \cup {NoHub}
  /\ entry \in Terminal \cup {"pending", "scheduled", "in_progress"}
  /\ fresh \subseteq Hubs
  /\ assignment \in Assignment
  /\ attempt \in [Attempts -> Attempt]
  /\ worker \in [Attempts -> {"none", "inbox", "accepted", "running",
                              "published", "over", "dead"}]
  /\ pc \in [Hubs -> {"down", "exited", "idle", "reconcile", "scheduled", "assigned", "running",
                      "compensate", "markRunning", "markClaimed", "inProgress", "complete",
                      "synthetic", "finalize", "updateQueue", "markFinalized",
                      "finalizeWorker", "markWorker", "orphans",
                      "reconcileQueue", "align", "select", "judge", "refresh", "reset",
                      "candidates", "fenceReserve", "reserve", "open", "ensureWorker",
                      "createAttempt", "fenceInbox", "writeInbox", "fenceClaim", "claim",
                      "giveBack"}]
  /\ ready \subseteq Hubs
  /\ seen \in [Hubs -> [n : 0 .. MaxAttempts, outcome : Terminal \cup {"none"}]]
  /\ janitor \in [Hubs -> [step : {"idle", "list", "read", "synthetic",
                                   "pending", "completed", "failed"},
                           n : 0 .. MaxAttempts]]

(* No overlap of hubs, stale janitor pass or restart completes or cancels an *)
(* entry for which no worker delivered that outcome.                         *)
OutcomesDelivered ==
  entry \in {"completed", "cancelled"} => \E n \in Attempts : attempt[n].result = entry

(* A hub dispatches nothing before its start has been through every          *)
(* assignment and claimed entry it inherits.                                 *)
RecoversFirst == \A h \in Hubs : pc[h] \in {"select", "open", "writeInbox"} => h \in ready

(* Read as atomic operations, the store still implements the ledger of       *)
(* module AttemptLedger under everything the hubs and workers do with it.    *)
Ledger == INSTANCE AttemptLedger WITH
  Outcomes <- Terminal,
  current <- assignment.active,
  chosen <- [n \in Attempts |-> attempt[n].result],
  learned <- [n \in Attempts |-> IF Decided(n) THEN attempt[n].status ELSE "none"]

ImplementsLedger == Ledger!Spec

(* The leader that stays finalizes every outcome in queue and worker for the *)
(* attempt that has it, also after a finalization that stopped half-way and  *)
(* for outcomes a janitor pass recorded; or it has thrown the outcome away,  *)
(* by dispatching the entry anew (run safe_reset shows that it may).  No     *)
(* outcome is left where nothing ever comes back to it.                      *)
Outstanding == Compensated /\ ~(assignment.queueFinalized /\ assignment.workerFinalized)
Finalized == Compensated /\ assignment.queueFinalized /\ assignment.workerFinalized
Redispatching == \E h \in Hubs : pc[h] \in {"open", "ensureWorker", "createAttempt"}
FinalizedOrRetried ==
  <>[](leader # NoHub) =>
    \A n \in Attempts : Active(n) /\ Outstanding ~> (Active(n) /\ Finalized) \/ Redispatching

(* Under the same leader an entry does not stay claimed by an assignment     *)
(* that has failed or completed.                                             *)
Stuck == entry \in {"scheduled", "in_progress"} /\ Compensated
ClaimsSettle == <>[](leader # NoHub) => (Stuck ~> ~Stuck)

-------------------------------------------------------------------------------
(* What the comments and the documentation say, and the code does not do.    *)

(* "No active assignment - safe to reset": a stale claim is reset only when  *)
(* its assignment has no outcome of a worker that the queue still has to get *)
(* ("terminal != finalized").                                                *)
SafeReset ==
  [][\A h \in Hubs :
       pc[h] = "reset" /\ entry # "pending" /\ entry' = "pending" =>
         ~(assignment.status \in {"completed", "cancelled"} /\ ~assignment.queueFinalized)]_vars
===============================================================================
