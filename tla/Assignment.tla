------------------------------ MODULE Assignment ------------------------------
(***************************************************************************)
(* One assignment directory of the AssignmentStore                         *)
(* (shared/orchestrator/assignment-store.ts): state.json, the attempt.json *)
(* and result.json of every attempt, and the completion write-ahead log.   *)
(*                                                                         *)
(* Every operation of the store runs under the assignment lock, so at most *)
(* one is in progress (`op').  The lock does not make it atomic: each file *)
(* is replaced by its own rename, and the process that runs the operation  *)
(* may die, or a write may throw, between two of them (Abort).  A worker   *)
(* writes result.json OUTSIDE the lock, after a check made under it.       *)
(*                                                                         *)
(* The callers are the dispatchers (a leader's tick; two of them when a    *)
(* superseded leader is still in the middle of one), the reconciler that   *)
(* suspects an attempt and writes a synthetic failure for it, and one      *)
(* worker per attempt.                                                     *)
(***************************************************************************)
EXTENDS Integers

CONSTANTS
  Dispatchers,     \* leaders that may be dispatching this assignment's entry
  WorkerOutcomes,  \* terminal statuses a worker may report
  MaxAttempts,     \* bound: attempts of the assignment
  MaxTokens        \* bound: attempt tokens ever generated

Terminal == {"completed", "failed", "blocked", "cancelled"}

ASSUME BoundsAssumption ==
  /\ MaxAttempts \in Nat \ {0}
  /\ MaxTokens \in Nat \ {0}
  /\ WorkerOutcomes \subseteq Terminal

VARIABLES
  state,      \* state.json
  attempt,    \* attempts/<n>/attempt.json
  resultFile, \* attempts/<n>/result.json
  cancel,     \* attempts whose control/cancel.json exists
  wal,        \* the pending completion record
  op,         \* the operation that holds the assignment lock
  opened,     \* dispatchers between getOrCreateAssignmentForEntry and createAttempt
  suspects,   \* attempts a reconciler has decided to fail, the call still to come
  worker,     \* the worker process of each attempt: its phase and its token
  nextToken   \* the next unused attempt token

vars == <<state, attempt, resultFile, cancel, wal, op, opened, suspects, worker, nextToken>>

Attempts == 1 .. MaxAttempts
Tokens   == 0 .. MaxTokens

NoResult  == [status |-> "none", token |-> 0, by |-> "none"]
NoAttempt == [status |-> "none", token |-> 0, result |-> NoResult]
NoState   == [status |-> "absent", active |-> 0, attempts |-> 0,
              resultWritten |-> FALSE, queueFinalized |-> FALSE, workerFinalized |-> FALSE]
NoWal     == [n |-> 0, state |-> NoState, attempt |-> NoAttempt]
Idle      == [kind |-> "idle", n |-> 0]
NoWorker  == [phase |-> "none", token |-> 0]

Result == [status : Terminal \cup {"none"}, token : Tokens, by : {"none", "worker", "reconciler"}]
Attempt == [status : Terminal \cup {"none", "assigned", "running"}, token : Tokens, result : Result]
State == [status : Terminal \cup {"absent", "scheduled", "assigned", "running"},
          active : 0 .. MaxAttempts, attempts : 0 .. MaxAttempts,
          resultWritten : BOOLEAN, queueFinalized : BOOLEAN, workerFinalized : BOOLEAN]
Wal == [n : 0 .. MaxAttempts, state : State, attempt : Attempt]
Op == [kind : {"idle", "create", "run", "attemptWrite", "stateWrite", "walClear",
               "synthAttempt", "synthState"}, n : 0 .. MaxAttempts]
Worker == [phase : {"none", "assigned", "discarded", "accepted", "running",
                    "guarded", "published", "done", "lost"}, token : Tokens]

Init ==
  /\ state = NoState
  /\ attempt = [n \in Attempts |-> NoAttempt]
  /\ resultFile = [n \in Attempts |-> NoResult]
  /\ cancel = {}
  /\ wal = NoWal
  /\ op = Idle
  /\ opened = {}
  /\ suspects = {}
  /\ worker = [n \in Attempts |-> NoWorker]
  /\ nextToken = 1

-------------------------------------------------------------------------------
LockFreeNoRecovery == op = Idle  \* mutant: a pending completion is not recovered

(* _withAssignmentLock: the callback starts once the lock is free and any    *)
(* completion left behind by a crash has been recovered under it.            *)
LockFree == op = Idle /\ wal = NoWal

ActiveNumber(n) == state.status # "absent" /\ state.active >= n  \* mutant: any attempt number
Active(n)    == state.status # "absent" /\ state.active = n
IsTerminal   == state.status \in Terminal
(* _loadActiveAttempt and _validateAttemptIdentity with a complete identity. *)
Owns(n, tok) == Active(n) /\ attempt[n].token = tok

(* getOrCreateAssignmentForEntry: the first call creates the assignment; a   *)
(* later one reopens it for scheduling and keeps the attempt history.        *)
Open(d) ==
  /\ LockFree
  /\ state' = [state EXCEPT !.status = "scheduled", !.resultWritten = FALSE,
                            !.queueFinalized = FALSE, !.workerFinalized = FALSE]
  /\ opened' = opened \cup {d}
  /\ UNCHANGED <<attempt, resultFile, cancel, wal, op, suspects, worker, nextToken>>

CreateAttemptReusedToken(d) ==  \* mutant: the token is not fresh
  /\ LockFree /\ d \in opened
  /\ state.attempts < MaxAttempts
  /\ LET n == state.attempts + 1 IN
       /\ attempt' = [attempt EXCEPT ![n] =
            [status |-> "assigned", token |-> nextToken, result |-> NoResult]]
       /\ op' = [kind |-> "create", n |-> n]
  /\ opened' = opened \ {d}
  /\ UNCHANGED <<state, resultFile, cancel, wal, suspects, worker, nextToken>>

(* createAttempt writes attempt.json under a fresh token ...                 *)
CreateAttempt(d) ==
  /\ LockFree /\ d \in opened
  /\ state.attempts < MaxAttempts /\ nextToken <= MaxTokens
  /\ LET n == state.attempts + 1 IN
       /\ attempt' = [attempt EXCEPT ![n] =
            [status |-> "assigned", token |-> nextToken, result |-> NoResult]]
       /\ op' = [kind |-> "create", n |-> n]
  /\ nextToken' = nextToken + 1
  /\ opened' = opened \ {d}
  /\ UNCHANGED <<state, resultFile, cancel, wal, suspects, worker>>

(* ... then state.json, and returns: the dispatcher hands number and token   *)
(* to the worker it has chosen.                                              *)
CreateAttemptState ==
  /\ op.kind = "create"
  /\ state' = [state EXCEPT !.attempts = op.n, !.active = op.n, !.status = "assigned"]
  /\ worker' = [worker EXCEPT ![op.n] = [phase |-> "assigned", token |-> attempt[op.n].token]]
  /\ op' = Idle
  /\ UNCHANGED <<attempt, resultFile, cancel, wal, opened, suspects, nextToken>>

(* The dispatcher fails between the two calls and gives the entry back.      *)
DispatchFails(d) ==
  /\ d \in opened
  /\ opened' = opened \ {d}
  /\ UNCHANGED <<state, attempt, resultFile, cancel, wal, op, suspects, worker, nextToken>>

-------------------------------------------------------------------------------
(* markRunning, called by the worker after it wrote accepted.json and by the *)
(* reconciler when it finds that file: attempt.json, then state.json.        *)
Accepted(n) == worker[n].phase \notin {"none", "assigned", "discarded"}

MarkRunningUnchecked(n) ==  \* mutant: the status of the attempt record is not checked
  /\ LockFree /\ Accepted(n)
  /\ Active(n) /\ ~IsTerminal
  /\ attempt' = [attempt EXCEPT ![n].status = "running"]
  /\ op' = [kind |-> "run", n |-> n]
  /\ UNCHANGED <<state, resultFile, cancel, wal, opened, suspects, worker, nextToken>>

MarkRunning(n) ==
  /\ LockFree /\ Accepted(n)
  /\ Active(n) /\ ~IsTerminal
  /\ attempt[n].status \in {"assigned", "running"}
  /\ ~(state.status = "running" /\ attempt[n].status = "running")
  /\ attempt' = [attempt EXCEPT ![n].status = "running"]
  /\ op' = [kind |-> "run", n |-> n]
  /\ UNCHANGED <<state, resultFile, cancel, wal, opened, suspects, worker, nextToken>>

MarkRunningState ==
  /\ op.kind = "run"
  /\ state' = [state EXCEPT !.status = "running"]
  /\ op' = Idle
  /\ UNCHANGED <<attempt, resultFile, cancel, wal, opened, suspects, worker, nextToken>>

-------------------------------------------------------------------------------
(* completeAttemptFromExistingResult: nothing is written for a terminal      *)
(* assignment; otherwise the whole outcome goes to the write-ahead log       *)
(* first, then attempt.json, then state.json, and the log is cleared.        *)
Completed(n, res) ==
  [n |-> n,
   state |-> [state EXCEPT !.status = res.status, !.resultWritten = TRUE],
   attempt |-> [attempt[n] EXCEPT !.status = res.status, !.result = res]]

CompleteAttempt(n, res) ==
  /\ LockFree
  /\ Owns(n, res.token) /\ ~IsTerminal
  /\ wal' = Completed(n, res)
  /\ op' = [kind |-> "attemptWrite", n |-> n]
  /\ UNCHANGED <<state, attempt, resultFile, cancel, opened, suspects, nextToken>>

(* _recoverPendingCompletionUnderLock: the same writes, replayed from the    *)
(* log by the next holder of the lock.  A log that no longer matches the     *)
(* active attempt is a conflict no later call gets past.                     *)
WalMatches ==
  /\ state.status # "absent" => state.active = wal.n
  /\ attempt[wal.n].status # "none" => attempt[wal.n].token = wal.attempt.token

RecoverCompletion ==
  /\ op = Idle /\ wal # NoWal /\ WalMatches
  /\ op' = [kind |-> "attemptWrite", n |-> wal.n]
  /\ UNCHANGED <<state, attempt, resultFile, cancel, wal, opened, suspects, worker, nextToken>>

WriteAttempt ==
  /\ op.kind = "attemptWrite"
  /\ attempt' = [attempt EXCEPT ![op.n] = wal.attempt]
  /\ op' = [op EXCEPT !.kind = "stateWrite"]
  /\ UNCHANGED <<state, resultFile, cancel, wal, opened, suspects, worker, nextToken>>

WriteState ==
  /\ op.kind = "stateWrite"
  /\ state' = wal.state
  /\ op' = [op EXCEPT !.kind = "walClear"]
  /\ UNCHANGED <<attempt, resultFile, cancel, wal, opened, suspects, worker, nextToken>>

ClearPendingCompletion ==
  /\ op.kind = "walClear"
  /\ wal' = NoWal
  /\ op' = Idle
  /\ UNCHANGED <<state, attempt, resultFile, cancel, opened, suspects, worker, nextToken>>

-------------------------------------------------------------------------------
(* The reconciler, or the janitor, reads the assignment without the lock,    *)
(* finds its worker dead, silent or late, and will write a synthetic failure *)
(* for the attempt it saw.                                                   *)
Suspect(n) ==
  /\ Active(n) /\ state.status \notin {"completed", "failed"}
  /\ suspects' = suspects \cup {n}
  /\ UNCHANGED <<state, attempt, resultFile, cancel, wal, op, opened, worker, nextToken>>

WriteSyntheticFailureOver(n) ==  \* mutant: result.json is not created exclusively
  /\ LockFree /\ n \in suspects
  /\ suspects' = suspects \ {n}
  /\ IF Active(n)
       THEN /\ resultFile' = [resultFile EXCEPT ![n] =
                 [status |-> "failed", token |-> attempt[n].token, by |-> "reconciler"]]
            /\ op' = [kind |-> "synthAttempt", n |-> n]
       ELSE UNCHANGED <<resultFile, op>>
  /\ UNCHANGED <<state, attempt, cancel, wal, opened, worker, nextToken>>

(* writeSyntheticFailure: result.json is created exclusively.  The call is   *)
(* refused when the attempt is no longer active, and returns false when a    *)
(* result is already there.                                                  *)
WriteSyntheticFailure(n) ==
  /\ LockFree /\ n \in suspects
  /\ suspects' = suspects \ {n}
  /\ IF Active(n) /\ resultFile[n] = NoResult
       THEN /\ resultFile' = [resultFile EXCEPT ![n] =
                 [status |-> "failed", token |-> attempt[n].token, by |-> "reconciler"]]
            /\ op' = [kind |-> "synthAttempt", n |-> n]
       ELSE UNCHANGED <<resultFile, op>>
  /\ UNCHANGED <<state, attempt, cancel, wal, opened, worker, nextToken>>

SyntheticStateFirst ==  \* mutant: state.json is written before attempt.json
  /\ op.kind = "synthAttempt"
  /\ state' = [state EXCEPT !.status = "failed", !.resultWritten = TRUE]
  /\ op' = [op EXCEPT !.kind = "synthState"]
  /\ UNCHANGED <<attempt, resultFile, cancel, wal, opened, suspects, worker, nextToken>>

SyntheticAttempt ==
  /\ op.kind = "synthAttempt"
  /\ attempt' = [attempt EXCEPT ![op.n].status = "failed", ![op.n].result = resultFile[op.n]]
  /\ op' = [op EXCEPT !.kind = "synthState"]
  /\ UNCHANGED <<state, resultFile, cancel, wal, opened, suspects, worker, nextToken>>

SyntheticState ==
  /\ op.kind = "synthState"
  /\ state' = [state EXCEPT !.status = "failed", !.resultWritten = TRUE,
                            !.queueFinalized = FALSE, !.workerFinalized = FALSE]
  /\ op' = Idle
  /\ UNCHANGED <<attempt, resultFile, cancel, wal, opened, suspects, worker, nextToken>>

(* A crash or a failed write in the middle of an operation: the files keep   *)
(* what was written, and the lock of the dead owner is recovered.            *)
Abort ==
  /\ op # Idle
  /\ op' = Idle
  /\ UNCHANGED <<state, attempt, resultFile, cancel, wal, opened, suspects, worker, nextToken>>

-------------------------------------------------------------------------------
(* markFinalized and writeCancel: one write each.                            *)
MarkFinalized(step) ==
  /\ LockFree /\ state.status # "absent"
  /\ state' = IF step = "queue" THEN [state EXCEPT !.queueFinalized = TRUE]
                                ELSE [state EXCEPT !.workerFinalized = TRUE]
  /\ UNCHANGED <<attempt, resultFile, cancel, wal, op, opened, suspects, worker, nextToken>>

WriteCancel(n) ==
  /\ LockFree /\ Active(n) /\ ~IsTerminal
  /\ cancel' = cancel \cup {n}
  /\ UNCHANGED <<state, attempt, resultFile, wal, op, opened, suspects, worker, nextToken>>

-------------------------------------------------------------------------------
(* The worker of attempt n (runtime/worker/managed-worker.ts).               *)
Goto(n, p) == worker' = [worker EXCEPT ![n].phase = p]
StillActive(n) == Owns(n, worker[n].token) /\ ~IsTerminal  \* assertActiveAttemptIdentity

(* processInbox: a stale claim is discarded, a live one accepted.            *)
Accept(n) ==
  /\ LockFree /\ worker[n].phase = "assigned"
  /\ Goto(n, IF StillActive(n) THEN "accepted" ELSE "discarded")
  /\ UNCHANGED <<state, attempt, resultFile, cancel, wal, op, opened, suspects, nextToken>>

(* The worker's own markRunning has returned, or has thrown STALE_ATTEMPT.   *)
Start(n) ==
  /\ LockFree /\ worker[n].phase = "accepted"
  /\ \/ /\ Owns(n, worker[n].token)
        /\ state.status = "running" /\ attempt[n].status = "running"
        /\ Goto(n, "running")
     \/ /\ \/ ~StillActive(n)
           \/ attempt[n].status \notin {"assigned", "running"}
        /\ Goto(n, "lost")
  /\ UNCHANGED <<state, attempt, resultFile, cancel, wal, op, opened, suspects, nextToken>>

(* The mutation lease check before publication, made under the lock ...      *)
GuardPublish(n) ==
  /\ LockFree /\ worker[n].phase = "running"
  /\ Goto(n, IF StillActive(n) THEN "guarded" ELSE "lost")
  /\ UNCHANGED <<state, attempt, resultFile, cancel, wal, op, opened, suspects, nextToken>>

PublishResultOver(n, s) ==  \* mutant: an existing result.json is replaced
  /\ worker[n].phase = "guarded"
  /\ s = "cancelled" => n \in cancel
  /\ resultFile' = [resultFile EXCEPT ![n] =
       [status |-> s, token |-> worker[n].token, by |-> "worker"]]
  /\ Goto(n, "published")
  /\ UNCHANGED <<state, attempt, cancel, wal, op, opened, suspects, nextToken>>

(* ... and writeTerminalResultOnceVerified after it, made without the lock.  *)
PublishResult(n, s) ==
  /\ worker[n].phase = "guarded"
  /\ s = "cancelled" => n \in cancel
  /\ IF resultFile[n] = NoResult
       THEN /\ resultFile' = [resultFile EXCEPT ![n] =
                 [status |-> s, token |-> worker[n].token, by |-> "worker"]]
            /\ Goto(n, "published")
       ELSE Goto(n, "lost") /\ UNCHANGED resultFile
  /\ UNCHANGED <<state, attempt, cancel, wal, op, opened, suspects, nextToken>>

(* completeAssignmentStateFromResult: the worker reports what result.json    *)
(* holds; a terminal assignment needs no write, a stale one refuses.         *)
ReportResult(n) ==
  /\ worker[n].phase = "published"
  /\ \/ CompleteAttempt(n, resultFile[n]) /\ Goto(n, "done")
     \/ /\ LockFree
        /\ ~Owns(n, resultFile[n].token) \/ IsTerminal
        /\ Goto(n, IF Owns(n, resultFile[n].token) THEN "done" ELSE "lost")
        /\ UNCHANGED <<state, attempt, resultFile, cancel, wal, op, opened, suspects, nextToken>>

ReconcileResultUnread(n) ==  \* mutant: a record without a result is completed from it
  /\ state.status = "running"
  /\ CompleteAttempt(n, [attempt[n].result EXCEPT !.token = attempt[n].token])
  /\ UNCHANGED worker

(* reconcileAssignments, case "running": the attempt record already carries  *)
(* a result (a synthetic failure cut short before state.json was written).   *)
ReconcileResult(n) ==
  /\ state.status = "running" /\ attempt[n].result # NoResult
  /\ CompleteAttempt(n, attempt[n].result)
  /\ UNCHANGED worker

(* A worker process dies, or gives up, in any phase.                         *)
WorkerDies(n) ==
  /\ worker[n].phase \in {"assigned", "accepted", "running", "guarded", "published"}
  /\ Goto(n, IF Accepted(n) THEN "lost" ELSE "discarded")
  /\ UNCHANGED <<state, attempt, resultFile, cancel, wal, op, opened, suspects, nextToken>>

-------------------------------------------------------------------------------
LockedStep ==
  \/ CreateAttemptState \/ MarkRunningState
  \/ RecoverCompletion \/ WriteAttempt \/ WriteState \/ ClearPendingCompletion
  \/ SyntheticAttempt \/ SyntheticState
  \/ Abort

Dispatch(d) == Open(d) \/ CreateAttempt(d) \/ DispatchFails(d)

Reconcile(n) ==
  \/ MarkRunning(n) \/ Suspect(n) \/ WriteSyntheticFailure(n)
  \/ WriteCancel(n) \/ ReconcileResult(n)

WorkerStep(n) ==
  \/ Accept(n) \/ Start(n) \/ GuardPublish(n)
  \/ \E s \in WorkerOutcomes : PublishResult(n, s)
  \/ ReportResult(n) \/ WorkerDies(n)

Next ==
  \/ LockedStep
  \/ \E d \in Dispatchers : Dispatch(d)
  \/ \E n \in Attempts : Reconcile(n) \/ WorkerStep(n)
  \/ \E step \in {"queue", "worker"} : MarkFinalized(step)

Spec == Init /\ [][Next]_vars

-------------------------------------------------------------------------------
TypeOK ==
  /\ state \in State
  /\ attempt \in [Attempts -> Attempt]
  /\ resultFile \in [Attempts -> Result]
  /\ cancel \subseteq Attempts
  /\ wal \in Wal
  /\ op \in Op
  /\ opened \subseteq Dispatchers
  /\ suspects \subseteq Attempts
  /\ worker \in [Attempts -> Worker]
  /\ nextToken \in 1 .. MaxTokens + 1

(* A crash in the middle of a completion never wedges the assignment: the    *)
(* write-ahead log it leaves always matches the active attempt, so the       *)
(* "completion WAL no longer matches active assignment" conflict of the      *)
(* recovery is unreachable, whatever ran in between.                         *)
RecoveryNeverConflicts == wal # NoWal => WalMatches

(* The outcome recorded for an attempt is the content of its result.json,    *)
(* whoever won the race to create that file: a synthetic failure is never    *)
(* recorded over a result the worker published, nor the other way round.     *)
RecordedIsPublished ==
  \A n \in Attempts :
    attempt[n].status \in Terminal =>
      attempt[n].result = resultFile[n] /\ attempt[n].status = resultFile[n].status

(* state.json never claims an outcome its active attempt does not have, at   *)
(* any point between two writes or after a crash.                            *)
TerminalAgreement ==
  IsTerminal => state.active \in Attempts /\ attempt[state.active].status = state.status

(* The outcome of an attempt is decided once: a terminal attempt record is   *)
(* never rewritten, not even when the assignment is reopened and a late      *)
(* completion of the same attempt arrives.                                   *)
OutcomeDecidedOnce ==
  [][\A n \in Attempts : attempt[n].status \in Terminal => attempt'[n] = attempt[n]]_vars

(* A superseded attempt is frozen: no late worker, recovery or synthetic     *)
(* failure writes the record of an attempt once a newer one is active.       *)
SupersededFrozen ==
  [][\A n \in Attempts : n < state.active => attempt'[n] = attempt[n]]_vars

(* An attempt token identifies one attempt: two attempts never share one,    *)
(* and a worker never holds a token other than that of the attempt it runs,  *)
(* also when createAttempt crashed and wrote the same number twice.          *)
TokensIdentifyAttempts ==
  /\ \A m, n \in Attempts :
       m # n /\ attempt[m].token # 0 => attempt[m].token # attempt[n].token
  /\ \A n \in Attempts : worker[n].phase # "none" => worker[n].token = attempt[n].token

(* The store implements the attempt ledger.  Creating result.json chooses    *)
(* the outcome.  It is learned when the write-ahead log that carries it is   *)
(* in place (the commit point of a completion) or, for a synthetic failure,  *)
(* when attempt.json is written.                                             *)
LearnedOutcome(n) ==
  IF wal.n = n THEN wal.attempt.status
  ELSE IF attempt[n].status \in Terminal THEN attempt[n].status
  ELSE "none"

Ledger == INSTANCE AttemptLedger WITH
  Outcomes <- Terminal,
  current <- state.active,
  chosen <- [n \in Attempts |-> resultFile[n].status],
  learned <- [n \in Attempts |-> LearnedOutcome(n)]

(* Every behaviour of the store is one of the ledger: outcomes are chosen    *)
(* once, learned as chosen, and never learned for a superseded attempt.      *)
ImplementsLedger == Ledger!Spec
===============================================================================
