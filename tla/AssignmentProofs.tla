--------------------------- MODULE AssignmentProofs ---------------------------
(***************************************************************************)
(* Proofs about Assignment, for any number of dispatchers, attempts and    *)
(* tokens.  IInv is the inductive invariant: besides the typing it says    *)
(* what each operation in progress has already written (OpInv), what the   *)
(* write-ahead log carries (WalInv) and how the attempt records, the       *)
(* result files and the workers of the attempts relate.                    *)
(***************************************************************************)
EXTENDS Assignment, TLAPS

(* The attempt counter and the active attempt move together, and only an     *)
(* existing assignment has attempts.                                         *)
StateInv ==
  /\ state.active = state.attempts
  /\ state.status = "absent" => state.active = 0
  /\ state.status \in {"assigned", "running"} => state.active > 0

(* Records exist for the attempts counted so far, and possibly for the one   *)
(* whose creation was cut short, which nobody has heard of.                  *)
AttemptInv ==
  \A n \in Attempts :
    /\ n <= state.attempts => attempt[n].status # "none"
    /\ n > state.attempts => /\ attempt[n].status \in {"none", "assigned"}
                             /\ resultFile[n] = NoResult
                             /\ worker[n] = NoWorker
    /\ n > state.attempts + 1 => attempt[n] = NoAttempt
    /\ attempt[n].status = "none" <=> attempt[n].token = 0
    /\ attempt[n].token < nextToken
    /\ attempt[n].status \notin Terminal => attempt[n].result = NoResult

(* A result file carries the token of its attempt and a terminal status.     *)
ResultInv ==
  \A n \in Attempts :
    resultFile[n] # NoResult =>
      resultFile[n].status \in Terminal /\ resultFile[n].token = attempt[n].token

WalInv ==
  /\ wal # NoWal => wal.n # 0
  /\ wal.n # 0 =>
       /\ wal.n = state.active
       /\ wal.attempt.token = attempt[wal.n].token
       /\ wal.attempt.result = resultFile[wal.n]
       /\ resultFile[wal.n] # NoResult
       /\ wal.attempt.status = resultFile[wal.n].status
       /\ wal.state.status = resultFile[wal.n].status
       /\ wal.state.active = state.active
       /\ wal.state.attempts = state.attempts

OpInv ==
  /\ op.kind = "idle" => op = Idle
  /\ op.kind \in {"create", "run", "synthAttempt", "synthState"} => wal = NoWal
  /\ op.kind = "create" => op.n = state.attempts + 1 /\ attempt[op.n].status = "assigned"
  /\ op.kind \in {"run", "synthAttempt", "synthState"} => op.n = state.active /\ op.n > 0
  /\ op.kind = "run" => attempt[op.n].status = "running"
  /\ op.kind = "synthAttempt" =>
       attempt[op.n].status \notin Terminal /\ resultFile[op.n].status = "failed"
  /\ op.kind = "synthState" => attempt[op.n].status = "failed"
  /\ op.kind \in {"attemptWrite", "stateWrite", "walClear"} => op.n = wal.n /\ wal.n # 0
  /\ op.kind \in {"stateWrite", "walClear"} => attempt[op.n] = wal.attempt

WorkerInv ==
  \A n \in Attempts : worker[n].phase = "published" => resultFile[n] # NoResult

IInv ==
  /\ TypeOK
  /\ StateInv
  /\ AttemptInv
  /\ ResultInv
  /\ WalInv
  /\ OpInv
  /\ WorkerInv
  /\ RecordedIsPublished
  /\ TerminalAgreement
  /\ TokensIdentifyAttempts

-------------------------------------------------------------------------------
(* What the proofs need to know of the unset values.                         *)
LEMMA Nulls ==
  /\ NoResult \in Result /\ NoResult.status = "none"
  /\ NoAttempt \in Attempt /\ NoAttempt.status = "none" /\ NoAttempt.token = 0
  /\ NoAttempt.result = NoResult
  /\ NoState \in State /\ NoState.status = "absent"
  /\ NoState.active = 0 /\ NoState.attempts = 0
  /\ NoWal \in Wal /\ NoWal.n = 0
  /\ Idle \in Op /\ Idle.kind = "idle"
  /\ NoWorker \in Worker /\ NoWorker.phase = "none"
BY BoundsAssumption DEF NoResult, NoAttempt, NoState, NoWal, Idle, NoWorker,
   Result, Attempt, State, Wal, Op, Worker, Tokens

(* The empty store satisfies the invariant.                                  *)
LEMMA InitIInv == Init => IInv
<1> SUFFICES ASSUME Init PROVE IInv
  OBVIOUS
<1>1. TypeOK
  BY Nulls, BoundsAssumption DEF Init, TypeOK
<1>2. StateInv /\ AttemptInv /\ ResultInv /\ WalInv /\ OpInv /\ WorkerInv
  BY Nulls, BoundsAssumption DEF Init, StateInv, AttemptInv, ResultInv, WalInv, OpInv,
     WorkerInv, Attempts, Terminal
<1>3. RecordedIsPublished /\ TerminalAgreement /\ TokensIdentifyAttempts
  BY Nulls DEF Init, RecordedIsPublished, TerminalAgreement, TokensIdentifyAttempts,
     IsTerminal, Terminal
<1> QED
  BY <1>1, <1>2, <1>3 DEF IInv

-------------------------------------------------------------------------------
(* The rest of the invariant reads neither opened nor suspects nor cancel.   *)
LEMMA BystanderStep ==
  ASSUME IInv, TypeOK', UNCHANGED <<state, attempt, resultFile, wal, op, worker, nextToken>>
  PROVE  IInv'
BY DEF IInv, StateInv, AttemptInv, ResultInv, WalInv, OpInv, WorkerInv,
   RecordedIsPublished, TerminalAgreement, IsTerminal, TokensIdentifyAttempts

(* A worker changes phase.                                                   *)
LEMMA PhaseStep ==
  ASSUME IInv, NEW n \in Attempts,
         NEW p \in {"discarded", "accepted", "running", "guarded", "published", "done", "lost"},
         worker[n].phase # "none", p = "published" => resultFile[n] # NoResult,
         Goto(n, p),
         UNCHANGED <<state, attempt, resultFile, cancel, wal, op, opened, suspects, nextToken>>
  PROVE  IInv'
<1>1. /\ worker' \in [Attempts -> Worker]
      /\ worker'[n].phase = p /\ worker'[n].token = worker[n].token
      /\ \A m \in Attempts : m # n => worker'[m] = worker[m]
  BY DEF IInv, TypeOK, Goto, Worker
<1>2. TypeOK'
  BY <1>1 DEF IInv, TypeOK
<1>3. AttemptInv'
  BY <1>1, Nulls DEF IInv, AttemptInv
<1>4. WorkerInv' /\ TokensIdentifyAttempts'
  BY <1>1 DEF IInv, WorkerInv, TokensIdentifyAttempts
<1>5. (StateInv /\ ResultInv /\ WalInv /\ OpInv /\ RecordedIsPublished /\ TerminalAgreement)'
  BY DEF IInv, StateInv, ResultInv, WalInv, OpInv, RecordedIsPublished, TerminalAgreement,
     IsTerminal
<1> QED
  BY <1>2, <1>3, <1>4, <1>5 DEF IInv

(* The holder of the lock starts, resumes or abandons an operation.          *)
LEMMA OperationStep ==
  ASSUME IInv, op' \in Op, OpInv',
         UNCHANGED <<state, attempt, resultFile, cancel, wal, opened, suspects, worker, nextToken>>
  PROVE  IInv'
BY DEF IInv, TypeOK, StateInv, AttemptInv, ResultInv, WalInv, WorkerInv,
   RecordedIsPublished, TerminalAgreement, IsTerminal, TokensIdentifyAttempts

(* state.json is written outside a completion, the active attempt unchanged. *)
LEMMA StateStep ==
  ASSUME IInv, wal = NoWal, op' = Idle, opened' \subseteq Dispatchers,
         state' \in State, state'.active = state.active, state'.attempts = state.attempts,
         state'.status = "absent" => state.status = "absent",
         state'.status \in {"assigned", "running"} => state.active > 0,
         TerminalAgreement',
         UNCHANGED <<attempt, resultFile, cancel, wal, suspects, worker, nextToken>>
  PROVE  IInv'
<1>1. TypeOK' /\ StateInv' /\ AttemptInv' /\ OpInv'
  BY Nulls DEF IInv, TypeOK, StateInv, AttemptInv, OpInv
<1>2. ResultInv' /\ WalInv' /\ WorkerInv' /\ RecordedIsPublished' /\ TokensIdentifyAttempts'
  BY Nulls DEF IInv, ResultInv, WalInv, WorkerInv, RecordedIsPublished, TokensIdentifyAttempts
<1> QED
  BY <1>1, <1>2 DEF IInv

(* The record of the active attempt is written; the rest of the operation's  *)
(* obligations is TypeOK for op and OpInv.                                   *)
LEMMA RecordStep ==
  ASSUME IInv, NEW n \in Attempts, NEW a \in Attempt,
         n = state.active, a.token = attempt[n].token, a.status # "none",
         a.status \in Terminal => a.result = resultFile[n] /\ a.status = resultFile[n].status,
         a.status \notin Terminal => a.result = NoResult,
         IsTerminal => a.status = state.status,
         attempt' = [attempt EXCEPT ![n] = a],
         op' \in Op, OpInv',
         UNCHANGED <<state, resultFile, cancel, wal, opened, suspects, worker, nextToken>>
  PROVE  IInv'
<1>1. /\ attempt' \in [Attempts -> Attempt] /\ attempt'[n] = a
      /\ \A m \in Attempts : m # n => attempt'[m] = attempt[m]
      /\ \A m \in Attempts : attempt'[m].token = attempt[m].token
  BY DEF IInv, TypeOK
<1>2. TypeOK'
  BY <1>1 DEF IInv, TypeOK
<1>3. attempt[n].status # "none" /\ n <= state.attempts
  BY DEF IInv, TypeOK, State, StateInv, AttemptInv, Attempts
<1>4. AttemptInv'
  <2> SUFFICES ASSUME NEW m \in Attempts
               PROVE  /\ m <= state.attempts => attempt'[m].status # "none"
                      /\ m > state.attempts => /\ attempt'[m].status \in {"none", "assigned"}
                                               /\ resultFile[m] = NoResult
                                               /\ worker[m] = NoWorker
                      /\ m > state.attempts + 1 => attempt'[m] = NoAttempt
                      /\ attempt'[m].status = "none" <=> attempt'[m].token = 0
                      /\ attempt'[m].token < nextToken
                      /\ attempt'[m].status \notin Terminal => attempt'[m].result = NoResult
    BY DEF AttemptInv
  <2>1. CASE m = n
    BY <1>1, <1>3, <2>1 DEF IInv, TypeOK, State, AttemptInv, Attempts
  <2>2. CASE m # n
    BY <1>1, <2>2 DEF IInv, AttemptInv
  <2> QED
    BY <2>1, <2>2
<1>5. ResultInv' /\ WalInv' /\ StateInv' /\ WorkerInv'
  BY <1>1 DEF IInv, TypeOK, Wal, State, Attempts, ResultInv, WalInv, StateInv, WorkerInv
<1>6. RecordedIsPublished' /\ TerminalAgreement' /\ TokensIdentifyAttempts'
  BY <1>1 DEF IInv, RecordedIsPublished, TerminalAgreement, IsTerminal, TokensIdentifyAttempts
<1> QED
  BY <1>2, <1>4, <1>5, <1>6 DEF IInv

(* result.json of an attempt is created.                                     *)
LEMMA PublishStep ==
  ASSUME IInv, NEW n \in Attempts, NEW res \in Result,
         resultFile[n] = NoResult, res.status \in Terminal, res.token = attempt[n].token,
         n <= state.attempts,
         resultFile' = [resultFile EXCEPT ![n] = res],
         UNCHANGED <<state, attempt, wal, nextToken>>,
         worker' \in [Attempts -> Worker],
         \A m \in Attempts : m # n => worker'[m] = worker[m]
  PROVE  /\ resultFile' \in [Attempts -> Result]
         /\ resultFile'[n] = res
         /\ StateInv' /\ AttemptInv' /\ ResultInv' /\ WalInv' /\ WorkerInv'
         /\ RecordedIsPublished' /\ TerminalAgreement'
<1>1. /\ resultFile' \in [Attempts -> Result] /\ resultFile'[n] = res
      /\ \A m \in Attempts : m # n => resultFile'[m] = resultFile[m]
  BY DEF IInv, TypeOK
<1>2. res # NoResult
  BY Nulls DEF Terminal
<1>3. StateInv' /\ TerminalAgreement'
  BY DEF IInv, StateInv, TerminalAgreement, IsTerminal
<1>4. AttemptInv'
  BY <1>1 DEF IInv, AttemptInv, TypeOK, State, Attempts
<1>5. ResultInv' /\ WorkerInv'
  BY <1>1, <1>2 DEF IInv, ResultInv, WorkerInv
<1>6. RecordedIsPublished'
  BY <1>1, Nulls DEF IInv, RecordedIsPublished, Terminal
<1>7. WalInv'
  BY <1>1 DEF IInv, WalInv, TypeOK, State, Attempts, Wal
<1> QED
  BY <1>1, <1>3, <1>4, <1>5, <1>6, <1>7

-------------------------------------------------------------------------------
(* One lemma per group of actions.                                           *)
LEMMA OpenStep == ASSUME IInv, NEW d \in Dispatchers, Open(d) PROVE IInv'
<1>1. state' \in State /\ state'.active = state.active /\ state'.attempts = state.attempts
      /\ state'.status = "scheduled"
  BY DEF Open, IInv, TypeOK, State
<1> QED
  BY <1>1, StateStep, Nulls DEF Open, LockFree, IInv, TypeOK, TerminalAgreement, IsTerminal,
     Terminal

(* Writing the record of a new attempt preserves it.                         *)
LEMMA CreateAttemptStep == ASSUME IInv, NEW d \in Dispatchers, CreateAttempt(d) PROVE IInv'
<1> DEFINE n == state.attempts + 1
           a == [status |-> "assigned", token |-> nextToken, result |-> NoResult]
<1>1. n \in Attempts /\ a \in Attempt /\ state.attempts \in Nat
  BY BoundsAssumption, Nulls DEF CreateAttempt, IInv, TypeOK, State, Attempts, Attempt, Tokens
<1>2. /\ attempt' = [attempt EXCEPT ![n] = a] /\ op' = [kind |-> "create", n |-> n]
      /\ nextToken' = nextToken + 1 /\ nextToken' \in 1 .. MaxTokens + 1
      /\ nextToken \in Nat /\ nextToken > 0
  BY BoundsAssumption DEF CreateAttempt, IInv, TypeOK
<1>3. /\ attempt' \in [Attempts -> Attempt] /\ attempt'[n] = a
      /\ \A m \in Attempts : m # n => attempt'[m] = attempt[m]
  BY <1>1, <1>2 DEF IInv, TypeOK
<1>4. TypeOK'
  BY <1>1, <1>2, <1>3 DEF CreateAttempt, IInv, TypeOK, Op, Attempts
<1>5. OpInv'
  BY <1>1, <1>2, <1>3 DEF CreateAttempt, LockFree, OpInv
<1>6. StateInv' /\ TerminalAgreement'
  BY <1>1, <1>3 DEF CreateAttempt, IInv, StateInv, TerminalAgreement, IsTerminal
<1>7. resultFile[n] = NoResult /\ worker[n] = NoWorker
  BY <1>1 DEF IInv, AttemptInv
<1>8. AttemptInv'
  <2> SUFFICES ASSUME NEW m \in Attempts
               PROVE  /\ m <= state.attempts => attempt'[m].status # "none"
                      /\ m > state.attempts => /\ attempt'[m].status \in {"none", "assigned"}
                                               /\ resultFile[m] = NoResult
                                               /\ worker[m] = NoWorker
                      /\ m > state.attempts + 1 => attempt'[m] = NoAttempt
                      /\ attempt'[m].status = "none" <=> attempt'[m].token = 0
                      /\ attempt'[m].token < nextToken'
                      /\ attempt'[m].status \notin Terminal => attempt'[m].result = NoResult
    BY DEF AttemptInv, CreateAttempt
  <2>1. CASE m = n
    BY <1>1, <1>2, <1>3, <1>7, <2>1
  <2>2. CASE m # n
    BY <1>2, <1>3, <2>2 DEF IInv, AttemptInv, TypeOK, Attempt, Tokens
  <2> QED
    BY <2>1, <2>2
<1>9. ResultInv' /\ WalInv' /\ WorkerInv' /\ RecordedIsPublished'
  BY <1>1, <1>3, <1>7, Nulls DEF CreateAttempt, LockFree, IInv, ResultInv, WalInv, WorkerInv,
     RecordedIsPublished, Terminal
<1>10. TokensIdentifyAttempts'
  <2>1. \A m \in Attempts : attempt[m].token < nextToken /\ attempt[m].token \in Nat
    BY BoundsAssumption DEF IInv, AttemptInv, TypeOK, Attempt, Tokens
  <2> QED
    BY <1>1, <1>2, <1>3, <1>7, <2>1, Nulls DEF CreateAttempt, IInv, TokensIdentifyAttempts
<1> QED
  BY <1>4, <1>5, <1>6, <1>8, <1>9, <1>10 DEF IInv

(* Making the new attempt the active one preserves it.                       *)
LEMMA CreateAttemptStateStep == ASSUME IInv, CreateAttemptState PROVE IInv'
<1> DEFINE n == op.n
           w == [phase |-> "assigned", token |-> attempt[n].token]
<1>1. /\ n = state.attempts + 1 /\ n \in Attempts /\ attempt[n].status = "assigned"
      /\ wal = NoWal
  BY DEF CreateAttemptState, IInv, TypeOK, State, Op, OpInv, Attempts
<1>2. /\ state' \in State /\ state'.attempts = n /\ state'.active = n
      /\ state'.status = "assigned"
  <2>1. n \in 0 .. MaxAttempts /\ state \in State
    BY <1>1, BoundsAssumption DEF IInv, TypeOK, Attempts
  <2>2. state' = [state EXCEPT !.attempts = n, !.active = n, !.status = "assigned"]
    BY DEF CreateAttemptState
  <2> HIDE DEF n
  <2> QED
    BY <2>1, <2>2 DEF State
<1>3. /\ worker' \in [Attempts -> Worker] /\ worker'[n] = w
      /\ \A m \in Attempts : m # n => worker'[m] = worker[m]
  BY <1>1 DEF CreateAttemptState, IInv, TypeOK, Attempt, Worker
<1>4. TypeOK' /\ OpInv' /\ StateInv' /\ TerminalAgreement'
  BY <1>1, <1>2, <1>3, Nulls DEF CreateAttemptState, IInv, TypeOK, OpInv, StateInv, Attempts,
     TerminalAgreement, IsTerminal, Terminal
<1>5. AttemptInv'
  BY <1>1, <1>2, <1>3 DEF CreateAttemptState, IInv, AttemptInv, TypeOK, State, Attempts
<1>6. ResultInv' /\ WalInv' /\ WorkerInv' /\ RecordedIsPublished'
  BY <1>1, <1>3, Nulls DEF CreateAttemptState, IInv, ResultInv, WalInv, WorkerInv,
     RecordedIsPublished
<1>7. TokensIdentifyAttempts'
  BY <1>1, <1>3 DEF CreateAttemptState, IInv, TokensIdentifyAttempts
<1> QED
  BY <1>4, <1>5, <1>6, <1>7 DEF IInv

(* Marking the active attempt running preserves it.                          *)
LEMMA MarkRunningStep == ASSUME IInv, NEW n \in Attempts, MarkRunning(n) PROVE IInv'
<1> DEFINE a == [attempt[n] EXCEPT !.status = "running"]
<1>1. /\ a \in Attempt /\ a.token = attempt[n].token /\ a.status = "running"
      /\ a.result = attempt[n].result /\ attempt[n].result = NoResult
  BY DEF MarkRunning, IInv, TypeOK, Attempt, AttemptInv, Terminal
<1>2. attempt' = [attempt EXCEPT ![n] = a] /\ attempt'[n] = a
  BY DEF MarkRunning, IInv, TypeOK
<1>3. op' \in Op /\ OpInv'
  <2>1. op' = [kind |-> "run", n |-> n] /\ n = state.active /\ n > 0 /\ wal = NoWal
    BY DEF MarkRunning, LockFree, Active, Attempts
  <2>2. attempt'[n].status = "running" /\ UNCHANGED <<state, wal>>
    BY <1>1, <1>2 DEF MarkRunning
  <2> HIDE DEF a
  <2> QED
    BY <2>1, <2>2 DEF Op, OpInv, Attempts
<1> QED
  BY <1>1, <1>2, <1>3, RecordStep DEF MarkRunning, LockFree, Active, Terminal

(* Marking the assignment running preserves it.                              *)
LEMMA MarkRunningStateStep == ASSUME IInv, MarkRunningState PROVE IInv'
<1>1. state' \in State /\ state'.active = state.active /\ state'.attempts = state.attempts
      /\ state'.status = "running" /\ state.active > 0 /\ wal = NoWal
  BY DEF MarkRunningState, IInv, TypeOK, State, Op, OpInv
<1> QED
  BY <1>1, StateStep DEF MarkRunningState, IInv, TypeOK, TerminalAgreement, IsTerminal, Terminal

(* The finalization marks touch nothing the invariant reads.                 *)
LEMMA MarkFinalizedStep ==
  ASSUME IInv, NEW step \in {"queue", "worker"}, MarkFinalized(step) PROVE IInv'
<1>1. state' \in State /\ state'.active = state.active /\ state'.attempts = state.attempts
      /\ state'.status = state.status
  BY DEF MarkFinalized, IInv, TypeOK, State
<1>2. TerminalAgreement'
  BY <1>1 DEF MarkFinalized, IInv, TerminalAgreement, IsTerminal
<1> QED
  BY <1>1, <1>2, StateStep DEF MarkFinalized, LockFree, IInv, TypeOK, StateInv

-------------------------------------------------------------------------------
(* A completion is logged: its outcome is that of result.json.               *)
LEMMA CompleteStep ==
  ASSUME IInv, NEW n \in Attempts, CompleteAttempt(n, resultFile[n]),
         resultFile[n] # NoResult,
         UNCHANGED worker \/ (worker[n].phase = "published" /\ Goto(n, "done"))
  PROVE  IInv'
<1> DEFINE res == resultFile[n]
<1>1. res.status \in Terminal /\ res \in Result /\ n = state.active /\ n # 0
      /\ state \in State /\ attempt[n] \in Attempt
  BY DEF IInv, TypeOK, ResultInv, CompleteAttempt, Owns, Active, Attempts
<1>2. /\ wal' \in Wal /\ wal'.n = n /\ wal'.attempt.token = attempt[n].token
      /\ wal'.attempt.result = res /\ wal'.attempt.status = res.status
      /\ wal'.state.status = res.status /\ wal'.state.active = state.active
      /\ wal'.state.attempts = state.attempts
  BY <1>1 DEF CompleteAttempt, Completed, Wal, State, Attempt, Attempts, Terminal
<1>3. op' \in Op /\ OpInv'
  BY <1>1, <1>2 DEF CompleteAttempt, Op, OpInv, Attempts
<1>4. WalInv'
  BY <1>1, <1>2 DEF CompleteAttempt, WalInv
<1>5. /\ worker' \in [Attempts -> Worker]
      /\ \A m \in Attempts : /\ worker'[m].token = worker[m].token
                             /\ worker'[m].phase = worker[m].phase \/ worker'[m].phase = "done"
                             /\ worker[m] = NoWorker => worker'[m] = NoWorker
                             /\ worker'[m].phase # "none" => worker[m].phase # "none"
  BY Nulls DEF IInv, TypeOK, Goto, Worker
<1>6. TypeOK'
  BY <1>2, <1>3, <1>5 DEF CompleteAttempt, IInv, TypeOK
<1>7. (StateInv /\ AttemptInv /\ ResultInv /\ WorkerInv)'
  BY <1>5 DEF CompleteAttempt, IInv, StateInv, AttemptInv, ResultInv, WorkerInv
<1>8. (RecordedIsPublished /\ TerminalAgreement /\ TokensIdentifyAttempts)'
  BY <1>5 DEF CompleteAttempt, IInv, RecordedIsPublished, TerminalAgreement, IsTerminal,
     TokensIdentifyAttempts
<1> QED
  BY <1>3, <1>4, <1>6, <1>7, <1>8 DEF IInv

(* A worker's report of its result preserves it, written or not.             *)
LEMMA ReportResultStep == ASSUME IInv, NEW n \in Attempts, ReportResult(n) PROVE IInv'
<1>1. worker[n].phase = "published" /\ resultFile[n] # NoResult
  BY DEF ReportResult, IInv, WorkerInv
<1>2. CASE CompleteAttempt(n, resultFile[n]) /\ Goto(n, "done")
  BY <1>1, <1>2, CompleteStep
<1>3. CASE /\ Goto(n, IF Owns(n, resultFile[n].token) THEN "done" ELSE "lost")
           /\ UNCHANGED <<state, attempt, resultFile, cancel, wal, op, opened, suspects, nextToken>>
  BY <1>1, <1>3, PhaseStep
<1> QED
  BY <1>2, <1>3 DEF ReportResult

(* A record that carries a result carries that of result.json.               *)
LEMMA ReconcileResultStep == ASSUME IInv, NEW n \in Attempts, ReconcileResult(n) PROVE IInv'
<1>1. attempt[n].result = resultFile[n] /\ resultFile[n] # NoResult
  BY DEF ReconcileResult, IInv, AttemptInv, RecordedIsPublished
<1> QED
  BY <1>1, CompleteStep DEF ReconcileResult

(* The recovery of a logged completion starts from a state of the log.       *)
LEMMA RecoverCompletionStep == ASSUME IInv, RecoverCompletion PROVE IInv'
<1>1. op' \in Op /\ OpInv'
  BY DEF RecoverCompletion, IInv, TypeOK, Wal, Op, OpInv, WalInv
<1> QED
  BY <1>1, OperationStep DEF RecoverCompletion

(* The logged attempt record is written: it is that of result.json.          *)
LEMMA WriteAttemptStep == ASSUME IInv, WriteAttempt PROVE IInv'
<1> DEFINE n == op.n
           a == wal.attempt
<1>1. n = wal.n /\ n # 0 /\ n = state.active /\ n \in Attempts /\ a \in Attempt
  BY DEF WriteAttempt, IInv, TypeOK, Wal, Op, OpInv, WalInv, Attempts
<1>2. /\ a.token = attempt[n].token /\ a.status = resultFile[n].status
      /\ a.result = resultFile[n] /\ a.status \in Terminal
  BY <1>1 DEF IInv, WalInv, ResultInv
<1>3. attempt' = [attempt EXCEPT ![n] = a] /\ attempt'[n] = a
  BY <1>1 DEF WriteAttempt, IInv, TypeOK
<1>4. op' \in Op /\ OpInv'
  BY <1>1, <1>3 DEF WriteAttempt, IInv, TypeOK, Op, OpInv
<1>5. IsTerminal => a.status = state.status
  BY <1>1, <1>2 DEF IInv, TerminalAgreement, RecordedIsPublished, IsTerminal
<1>6. a.status # "none"
  BY <1>2 DEF Terminal
<1> QED
  BY <1>1, <1>2, <1>3, <1>4, <1>5, <1>6, RecordStep DEF WriteAttempt

(* The logged state is written: its active attempt has the outcome.          *)
LEMMA WriteStateStep == ASSUME IInv, WriteState PROVE IInv'
<1>1. op.n = wal.n /\ wal.n # 0 /\ attempt[wal.n] = wal.attempt /\ state' = wal.state
  BY DEF WriteState, IInv, OpInv
<1>2. /\ state' \in State /\ state'.active = state.active /\ state'.attempts = state.attempts
      /\ state'.status \in Terminal /\ state'.status = wal.attempt.status
      /\ wal.n = state.active /\ wal.n \in Attempts
  BY <1>1 DEF IInv, TypeOK, Wal, WalInv, ResultInv, Attempts
<1>3. op' \in Op /\ op'.kind = "walClear" /\ op'.n = op.n
  BY DEF WriteState, IInv, TypeOK, Op
<1>4. TypeOK' /\ OpInv' /\ StateInv' /\ WalInv'
  BY <1>1, <1>2, <1>3 DEF WriteState, IInv, TypeOK, OpInv, StateInv, WalInv, Terminal
<1>5. (AttemptInv /\ ResultInv /\ WorkerInv /\ RecordedIsPublished /\ TokensIdentifyAttempts)'
  BY <1>2 DEF WriteState, IInv, AttemptInv, ResultInv, WorkerInv, RecordedIsPublished,
     TokensIdentifyAttempts
<1>6. TerminalAgreement'
  BY <1>1, <1>2 DEF WriteState, TerminalAgreement
<1> QED
  BY <1>4, <1>5, <1>6 DEF IInv

(* With both written, the log is no longer needed.                           *)
LEMMA ClearPendingCompletionStep == ASSUME IInv, ClearPendingCompletion PROVE IInv'
BY Nulls DEF ClearPendingCompletion, IInv, TypeOK, StateInv, AttemptInv, ResultInv, WalInv,
   OpInv, WorkerInv, RecordedIsPublished, TerminalAgreement, IsTerminal, TokensIdentifyAttempts

-------------------------------------------------------------------------------
(* A synthetic result.json is created only where there is none.              *)
LEMMA WriteSyntheticFailureStep ==
  ASSUME IInv, NEW n \in Attempts, WriteSyntheticFailure(n) PROVE IInv'
<1>1. CASE Active(n) /\ resultFile[n] = NoResult
  <2> DEFINE res == [status |-> "failed", token |-> attempt[n].token, by |-> "reconciler"]
  <2>1. res \in Result /\ res.status \in Terminal /\ res.token = attempt[n].token
    BY DEF IInv, TypeOK, Attempt, Result, Terminal
  <2>2. n <= state.attempts /\ n = state.active /\ n # 0
    BY <1>1 DEF Active, IInv, TypeOK, State, StateInv, Attempts
  <2>3. resultFile' = [resultFile EXCEPT ![n] = res] /\ op' = [kind |-> "synthAttempt", n |-> n]
        /\ worker' \in [Attempts -> Worker]
    BY <1>1 DEF WriteSyntheticFailure, IInv, TypeOK
  <2>4. /\ resultFile' \in [Attempts -> Result] /\ resultFile'[n] = res
        /\ StateInv' /\ AttemptInv' /\ ResultInv' /\ WalInv' /\ WorkerInv'
        /\ RecordedIsPublished' /\ TerminalAgreement'
    BY <1>1, <2>1, <2>2, <2>3, PublishStep DEF WriteSyntheticFailure
  <2>5. TypeOK'
    BY <2>3, <2>4 DEF WriteSyntheticFailure, IInv, TypeOK, Op, Attempts
  <2>6. attempt[n].status \notin Terminal
    BY <1>1, Nulls DEF IInv, RecordedIsPublished, Terminal
  <2>7. OpInv'
    BY <2>2, <2>3, <2>4, <2>6 DEF WriteSyntheticFailure, LockFree, OpInv, Attempts
  <2>8. TokensIdentifyAttempts'
    BY DEF WriteSyntheticFailure, IInv, TokensIdentifyAttempts
  <2> QED
    BY <2>4, <2>5, <2>7, <2>8 DEF IInv
<1>2. CASE ~(Active(n) /\ resultFile[n] = NoResult)
  <2>1. TypeOK'
    BY <1>2 DEF WriteSyntheticFailure, IInv, TypeOK
  <2> QED
    BY <1>2, <2>1, BystanderStep DEF WriteSyntheticFailure
<1> QED
  BY <1>1, <1>2

(* The synthetic failure is recorded as it was published.                    *)
LEMMA SyntheticAttemptStep == ASSUME IInv, SyntheticAttempt PROVE IInv'
<1> DEFINE n == op.n
           a == [attempt[n] EXCEPT !.status = "failed", !.result = resultFile[n]]
<1>1. /\ n = state.active /\ n \in Attempts /\ wal = NoWal
      /\ attempt[n].status \notin Terminal /\ resultFile[n].status = "failed"
  BY DEF SyntheticAttempt, IInv, TypeOK, Op, OpInv, Attempts
<1>2. /\ a \in Attempt /\ a.token = attempt[n].token /\ a.status = "failed"
      /\ a.result = resultFile[n]
  BY <1>1 DEF IInv, TypeOK, Attempt, Terminal
<1>3. attempt' = [attempt EXCEPT ![n] = a] /\ attempt'[n] = a
  BY <1>1 DEF SyntheticAttempt, IInv, TypeOK
<1>4. op' \in Op /\ op'.kind = "synthState" /\ op'.n = n
  BY DEF SyntheticAttempt, IInv, TypeOK, Op
<1>5. OpInv'
  <2>1. attempt'[n].status = "failed"
    BY <1>2, <1>3
  <2>2. UNCHANGED <<state, wal>> /\ n > 0
    BY <1>1 DEF SyntheticAttempt, Attempts
  <2> HIDE DEF a, n
  <2> QED
    BY <1>1, <1>4, <2>1, <2>2 DEF OpInv
<1>6. ~IsTerminal
  BY <1>1 DEF IInv, TerminalAgreement, IsTerminal
<1> QED
  BY <1>1, <1>2, <1>3, <1>4, <1>5, <1>6, RecordStep DEF SyntheticAttempt, Terminal

(* The assignment fails after its active attempt did.                        *)
LEMMA SyntheticStateStep == ASSUME IInv, SyntheticState PROVE IInv'
<1>1. /\ op.n = state.active /\ op.n \in Attempts /\ attempt[op.n].status = "failed"
      /\ wal = NoWal
  BY DEF SyntheticState, IInv, TypeOK, Op, OpInv, Attempts
<1>2. state' \in State /\ state'.active = state.active /\ state'.attempts = state.attempts
      /\ state'.status = "failed"
  BY DEF SyntheticState, IInv, TypeOK, State, Terminal
<1>3. TerminalAgreement'
  BY <1>1, <1>2 DEF SyntheticState, TerminalAgreement
<1> QED
  BY <1>1, <1>2, <1>3, StateStep DEF SyntheticState, IInv, TypeOK

(* An operation cut short anywhere leaves the invariant intact.              *)
LEMMA AbortStep == ASSUME IInv, Abort PROVE IInv'
<1>1. op' \in Op /\ OpInv'
  BY Nulls DEF Abort, OpInv
<1> QED
  BY <1>1, OperationStep DEF Abort

(* A worker's result.json is created only where there is none.               *)
LEMMA PublishResultStep ==
  ASSUME IInv, NEW n \in Attempts, NEW s \in WorkerOutcomes, PublishResult(n, s) PROVE IInv'
<1>1. worker[n].phase = "guarded" /\ n <= state.attempts /\ worker[n].token = attempt[n].token
  BY Nulls DEF PublishResult, IInv, TypeOK, State, AttemptInv, TokensIdentifyAttempts, Attempts
<1>2. CASE resultFile[n] = NoResult
  <2> DEFINE res == [status |-> s, token |-> worker[n].token, by |-> "worker"]
  <2>1. res \in Result /\ res.status \in Terminal /\ res.token = attempt[n].token
    BY <1>1, BoundsAssumption DEF IInv, TypeOK, Worker, Result, Terminal
  <2>2. resultFile' = [resultFile EXCEPT ![n] = res]
    BY <1>2 DEF PublishResult
  <2>3. /\ worker' \in [Attempts -> Worker]
        /\ worker'[n].token = worker[n].token
        /\ \A m \in Attempts : m # n => worker'[m] = worker[m]
    BY <1>2 DEF PublishResult, Goto, IInv, TypeOK, Worker
  <2>4. /\ resultFile' \in [Attempts -> Result] /\ resultFile'[n] = res
        /\ StateInv' /\ AttemptInv' /\ ResultInv' /\ WalInv' /\ WorkerInv'
        /\ RecordedIsPublished' /\ TerminalAgreement'
    BY <1>1, <1>2, <2>1, <2>2, <2>3, PublishStep DEF PublishResult
  <2>5. TypeOK' /\ TokensIdentifyAttempts'
    BY <1>1, <2>3, <2>4 DEF PublishResult, IInv, TypeOK, TokensIdentifyAttempts
  <2>6. OpInv'
    <3>1. op.kind = "synthAttempt" => op.n # n
      BY <1>2, Nulls DEF IInv, OpInv
    <3> QED
      BY <2>2, <2>4, <3>1 DEF PublishResult, IInv, TypeOK, OpInv, Op, Attempts
  <2> QED
    BY <2>4, <2>5, <2>6 DEF IInv
<1>3. CASE resultFile[n] # NoResult
  BY <1>1, <1>3, PhaseStep DEF PublishResult
<1> QED
  BY <1>2, <1>3

(* The other steps of a worker change its phase only.                        *)
LEMMA WorkerMoveStep ==
  ASSUME IInv, NEW n \in Attempts,
         Accept(n) \/ Start(n) \/ GuardPublish(n) \/ WorkerDies(n)
  PROVE  IInv'
<1>1. CASE Accept(n)
  BY <1>1, PhaseStep DEF Accept
<1>2. CASE Start(n)
  BY <1>2, PhaseStep DEF Start
<1>3. CASE GuardPublish(n)
  BY <1>3, PhaseStep DEF GuardPublish
<1>4. CASE WorkerDies(n)
  BY <1>4, PhaseStep DEF WorkerDies
<1> QED
  BY <1>1, <1>2, <1>3, <1>4

(* Suspicions, cancellations and given-up dispatches write no record.        *)
LEMMA BystanderSteps ==
  ASSUME IInv,
         \/ \E d \in Dispatchers : DispatchFails(d)
         \/ \E n \in Attempts : Suspect(n) \/ WriteCancel(n)
  PROVE  IInv'
<1>1. TypeOK' /\ UNCHANGED <<state, attempt, resultFile, wal, op, worker, nextToken>>
  BY DEF DispatchFails, Suspect, WriteCancel, IInv, TypeOK
<1> QED
  BY <1>1, BystanderStep

(* Every step preserves the invariant.                                       *)
LEMMA NextIInv == IInv /\ [Next]_vars => IInv'
<1> SUFFICES ASSUME IInv, [Next]_vars PROVE IInv'
  OBVIOUS
<1>1. CASE LockedStep
  BY <1>1, CreateAttemptStateStep, MarkRunningStateStep, RecoverCompletionStep,
     WriteAttemptStep, WriteStateStep, ClearPendingCompletionStep, SyntheticAttemptStep,
     SyntheticStateStep, AbortStep DEF LockedStep
<1>2. CASE \E d \in Dispatchers : Dispatch(d)
  BY <1>2, OpenStep, CreateAttemptStep, BystanderSteps DEF Dispatch
<1>3. CASE \E n \in Attempts : Reconcile(n)
  BY <1>3, MarkRunningStep, BystanderSteps, WriteSyntheticFailureStep, ReconcileResultStep
     DEF Reconcile
<1>4. CASE \E n \in Attempts : WorkerStep(n)
  BY <1>4, WorkerMoveStep, PublishResultStep, ReportResultStep DEF WorkerStep
<1>5. CASE \E step \in {"queue", "worker"} : MarkFinalized(step)
  BY <1>5, MarkFinalizedStep
<1>6. CASE UNCHANGED vars
  BY <1>6, BystanderStep DEF vars, IInv, TypeOK
<1> QED
  BY <1>1, <1>2, <1>3, <1>4, <1>5, <1>6 DEF Next

(* The invariant holds in every reachable state.                             *)
THEOREM InductiveInvariant == Spec => []IInv
<1>1. Init => IInv
  BY InitIInv
<1>2. IInv /\ [Next]_vars => IInv'
  BY NextIInv
<1> QED
  BY <1>1, <1>2, PTL DEF Spec

(* No step of any caller, and no crash, leaves a file of the assignment with *)
(* a value its readers do not expect.                                        *)
THEOREM TypeCorrect == Spec => []TypeOK
BY InductiveInvariant, PTL DEF IInv

(* The conflict branch of _recoverPendingCompletionUnderLock is dead code    *)
(* for a log the store itself wrote: every recovery goes through.            *)
THEOREM RecoveryGoesThrough == Spec => []RecoveryNeverConflicts
<1>1. IInv => RecoveryNeverConflicts
  BY DEF IInv, WalInv, RecoveryNeverConflicts, WalMatches
<1> QED
  BY <1>1, InductiveInvariant, PTL

(* The recorded outcome is the one in result.json, whichever of the worker   *)
(* and the reconciler won the exclusive create.                              *)
THEOREM RecordsTheWinner == Spec => []RecordedIsPublished
BY InductiveInvariant, PTL DEF IInv

(* state.json is terminal only with the outcome of its active attempt.       *)
THEOREM StateAgreesWithAttempt == Spec => []TerminalAgreement
BY InductiveInvariant, PTL DEF IInv

(* Two attempts never share a token, even if createAttempt is cut short and  *)
(* repeated.                                                                 *)
THEOREM TokensIdentify == Spec => []TokensIdentifyAttempts
BY InductiveInvariant, PTL DEF IInv

-------------------------------------------------------------------------------
(* Four actions write attempt.json.                                          *)
LEMMA RecordWriters ==
  ASSUME [Next]_vars
  PROVE  \/ UNCHANGED attempt
         \/ \E d \in Dispatchers : CreateAttempt(d)
         \/ \E n \in Attempts : MarkRunning(n)
         \/ WriteAttempt
         \/ SyntheticAttempt
BY DEF Next, vars, LockedStep, Dispatch, Reconcile, WorkerStep, CreateAttemptState,
   MarkRunningState, RecoverCompletion, WriteState, ClearPendingCompletion, SyntheticState,
   Abort, Open, DispatchFails, Suspect, WriteSyntheticFailure, WriteCancel, ReconcileResult,
   CompleteAttempt, Accept, Start, GuardPublish, PublishResult, ReportResult, WorkerDies,
   MarkFinalized

(* What each of them may do to a record: give the number after the last one  *)
(* its first record, or write the active attempt's; and a terminal record is *)
(* only ever written again as it is.                                         *)
LEMMA RecordWrite ==
  ASSUME IInv, [Next]_vars, NEW n \in Attempts, attempt'[n] # attempt[n]
  PROVE  attempt[n].status \notin Terminal /\ n >= state.active
<1>1. state.active = state.attempts /\ state.active \in Nat /\ attempt \in [Attempts -> Attempt]
  BY BoundsAssumption DEF IInv, TypeOK, State, StateInv
<1>2. CASE \E d \in Dispatchers : CreateAttempt(d)
  <2>1. n = state.attempts + 1
    BY <1>1, <1>2 DEF CreateAttempt
  <2> QED
    BY <1>1, <2>1 DEF IInv, AttemptInv, Terminal
<1>3. CASE \E m \in Attempts : MarkRunning(m)
  BY <1>1, <1>3 DEF MarkRunning, Active, Terminal
<1>4. CASE WriteAttempt
  <2>1. n = wal.n /\ n = state.active /\ n # 0 /\ attempt'[n] = wal.attempt
    BY <1>1, <1>4 DEF WriteAttempt, IInv, OpInv, WalInv
  <2>2. /\ wal.attempt.token = attempt[n].token /\ wal.attempt.result = resultFile[n]
        /\ wal.attempt.status = resultFile[n].status /\ wal.attempt \in Attempt
    BY <2>1 DEF IInv, WalInv, TypeOK, Wal
  <2>3. ASSUME attempt[n].status \in Terminal PROVE FALSE
    <3>1. /\ attempt[n].result = wal.attempt.result /\ attempt[n].status = wal.attempt.status
          /\ attempt[n] \in Attempt
      BY <1>1, <2>2, <2>3 DEF IInv, RecordedIsPublished
    <3>2. attempt[n] = wal.attempt
      BY <2>2, <3>1 DEF Attempt
    <3> QED
      BY <2>1, <3>2
  <2> QED
    BY <1>1, <2>1, <2>3
<1>5. CASE SyntheticAttempt
  BY <1>1, <1>5 DEF SyntheticAttempt, IInv, OpInv
<1> QED
  BY <1>2, <1>3, <1>4, <1>5, RecordWriters

(* The outcome of an attempt is decided once.                                *)
THEOREM DecidedOnce == Spec => OutcomeDecidedOnce
<1>1. IInv /\ [Next]_vars =>
        [\A n \in Attempts : attempt[n].status \in Terminal => attempt'[n] = attempt[n]]_vars
  BY RecordWrite
<1> QED
  BY <1>1, InductiveInvariant, PTL DEF Spec, OutcomeDecidedOnce

(* Nobody writes the record of a superseded attempt.                         *)
THEOREM SupersededAreFrozen == Spec => SupersededFrozen
<1>1. ASSUME IInv, [Next]_vars, NEW n \in Attempts, n < state.active
      PROVE  attempt'[n] = attempt[n]
  BY <1>1, RecordWrite, BoundsAssumption DEF IInv, TypeOK, State, Attempts
<1>2. IInv /\ [Next]_vars =>
        [\A n \in Attempts : n < state.active => attempt'[n] = attempt[n]]_vars
  BY <1>1
<1> QED
  BY <1>2, InductiveInvariant, PTL DEF Spec, SupersededFrozen

-------------------------------------------------------------------------------
(* The refinement.  `chosen' is the status in each result file and `learned' *)
(* the outcome in the write-ahead log or the attempt record.                 *)
LEMMA Stutter ==
  ASSUME state'.active = state.active, UNCHANGED resultFile,
         \A n \in Attempts : LearnedOutcome(n)' = LearnedOutcome(n)
  PROVE  UNCHANGED Ledger!ledger
BY DEF Ledger!ledger

(* Creating result.json chooses the outcome of an attempt in the ledger.     *)
LEMMA ChooseSimulation ==
  ASSUME IInv, NEW n \in Attempts, NEW r \in Result, r.status \in Terminal,
         resultFile[n] = NoResult, n <= state.active,
         resultFile' = [resultFile EXCEPT ![n] = r], UNCHANGED <<state, attempt, wal>>
  PROVE  Ledger!Next
<1>1. Ledger!Choose(n, r.status)
  BY Nulls DEF Ledger!Choose, Ledger!None, IInv, TypeOK, LearnedOutcome
<1> QED
  BY <1>1 DEF Ledger!Next, Ledger!Attempts, Attempts

(* Recording it, in the log or in attempt.json, lets the ledger learn it.    *)
LEMMA LearnSimulation ==
  ASSUME IInv, NEW n \in Attempts, n = state.active, resultFile[n].status \in Terminal,
         LearnedOutcome(n)' = resultFile[n].status,
         LearnedOutcome(n) \in {"none", resultFile[n].status},
         \A m \in Attempts : m # n => LearnedOutcome(m)' = LearnedOutcome(m),
         UNCHANGED <<state, resultFile>>
  PROVE  [Ledger!Next]_(Ledger!ledger)
<1>1. CASE LearnedOutcome(n) = "none"
  <2>1. Ledger!Learn(n)
    BY <1>1 DEF Ledger!Learn, Ledger!None, Terminal
  <2> QED
    BY <2>1 DEF Ledger!Next, Ledger!Attempts, Attempts
<1>2. CASE LearnedOutcome(n) = resultFile[n].status
  BY <1>2, Stutter
<1> QED
  BY <1>1, <1>2

(* A completion learns the outcome when its log is written.                  *)
LEMMA CompleteSimulation ==
  ASSUME IInv, NEW n \in Attempts, CompleteAttempt(n, resultFile[n]), resultFile[n] # NoResult
  PROVE  [Ledger!Next]_(Ledger!ledger)
<1>1. n = state.active /\ resultFile[n].status \in Terminal /\ wal = NoWal
  BY DEF CompleteAttempt, LockFree, Owns, Active, IInv, ResultInv
<1>2. wal'.n = n /\ wal'.attempt.status = resultFile[n].status /\ wal.n = 0
  BY Nulls, <1>1 DEF CompleteAttempt, Completed, IInv, TypeOK, Attempt
<1>3. LearnedOutcome(n)' = resultFile[n].status
  BY <1>2 DEF LearnedOutcome
<1>4. LearnedOutcome(n) \in {"none", resultFile[n].status}
  BY <1>2 DEF LearnedOutcome, IInv, RecordedIsPublished, Attempts
<1>5. \A m \in Attempts : m # n => LearnedOutcome(m)' = LearnedOutcome(m)
  BY <1>2 DEF LearnedOutcome, CompleteAttempt, Attempts
<1> QED
  BY <1>1, <1>3, <1>4, <1>5, LearnSimulation DEF CompleteAttempt

(* Every step of the store is a step of the ledger or changes nothing in it. *)
LEMMA StepSimulation ==
  ASSUME IInv, [Next]_vars PROVE [Ledger!Next]_(Ledger!ledger)
<1>1. CASE CreateAttemptState
  <2>1. op.n = state.active + 1 /\ op.n <= MaxAttempts /\ state.active \in Nat
    BY <1>1, BoundsAssumption DEF CreateAttemptState, IInv, TypeOK, State, StateInv, Op, OpInv
  <2>2. state'.active = op.n /\ UNCHANGED <<resultFile, attempt, wal>>
    BY <1>1 DEF CreateAttemptState, IInv, TypeOK, State
  <2>3. Ledger!NewAttempt
    BY <2>1, <2>2, BoundsAssumption DEF Ledger!NewAttempt, LearnedOutcome
  <2> QED
    BY <2>3 DEF Ledger!Next
<1>2. CASE \E d \in Dispatchers : CreateAttempt(d)
  <2>1. PICK d \in Dispatchers : CreateAttempt(d)
    BY <1>2
  <2>2. /\ \A m \in Attempts : m # state.attempts + 1 => attempt'[m] = attempt[m]
        /\ UNCHANGED <<state, resultFile, wal>> /\ wal = NoWal
    BY <2>1 DEF CreateAttempt, LockFree, IInv, TypeOK
  <2>3. \A m \in Attempts : m = state.attempts + 1 =>
          attempt[m].status \notin Terminal /\ attempt'[m].status \notin Terminal
    BY <2>1 DEF CreateAttempt, IInv, TypeOK, State, AttemptInv, Terminal, Attempts
  <2> QED
    BY <2>2, <2>3, Stutter DEF LearnedOutcome
<1>3. CASE \E n \in Attempts : MarkRunning(n)
  BY <1>3, Stutter DEF MarkRunning, LearnedOutcome, IInv, TypeOK, Attempt, Terminal
<1>4. CASE WriteAttempt
  <2>1. /\ wal.n = op.n /\ UNCHANGED <<state, resultFile, wal>>
        /\ \A m \in Attempts : m # wal.n => attempt'[m] = attempt[m]
    BY <1>4 DEF WriteAttempt, IInv, TypeOK, OpInv
  <2> QED
    BY <2>1, Stutter DEF LearnedOutcome
<1>5. CASE WriteState
  <2>1. state'.active = state.active /\ UNCHANGED <<resultFile, attempt, wal>>
    BY <1>5 DEF WriteState, IInv, OpInv, WalInv
  <2> QED
    BY <2>1, Stutter DEF LearnedOutcome
<1>6. CASE ClearPendingCompletion
  <2>1. /\ attempt[wal.n] = wal.attempt /\ wal.attempt.status \in Terminal /\ wal'.n = 0
        /\ UNCHANGED <<state, resultFile, attempt>>
    BY <1>6, Nulls DEF ClearPendingCompletion, IInv, OpInv, WalInv, ResultInv, TypeOK, Attempts, State
  <2> QED
    BY <2>1, Stutter DEF LearnedOutcome, Attempts
<1>7. CASE SyntheticAttempt
  <2>0. PICK n \in Attempts : n = op.n
    BY <1>7 DEF SyntheticAttempt, IInv, TypeOK, Op, OpInv, Attempts
  <2>1. /\ n = state.active /\ wal = NoWal
        /\ attempt[n].status \notin Terminal /\ resultFile[n].status = "failed"
        /\ UNCHANGED <<state, resultFile, wal>>
    BY <1>7, <2>0 DEF SyntheticAttempt, IInv, OpInv
  <2>2. /\ attempt'[n].status = "failed"
        /\ \A m \in Attempts : m # n => attempt'[m] = attempt[m]
    BY <1>7, <2>0 DEF SyntheticAttempt, IInv, TypeOK, Attempt
  <2>3. LearnedOutcome(n) = "none" /\ LearnedOutcome(n)' = "failed"
    BY <2>1, <2>2, Nulls DEF LearnedOutcome, Terminal, Attempts
  <2>4. \A m \in Attempts : m # n => LearnedOutcome(m)' = LearnedOutcome(m)
    BY <2>1, <2>2 DEF LearnedOutcome
  <2> QED
    BY <2>1, <2>3, <2>4, LearnSimulation DEF Terminal
<1>8. CASE \E n \in Attempts : WriteSyntheticFailure(n)
  <2>1. PICK n \in Attempts : WriteSyntheticFailure(n)
    BY <1>8
  <2>2. CASE Active(n) /\ resultFile[n] = NoResult
    <3> DEFINE r == [status |-> "failed", token |-> attempt[n].token, by |-> "reconciler"]
    <3>1. r \in Result /\ r.status \in Terminal
      BY DEF IInv, TypeOK, Attempt, Result, Terminal
    <3>2. resultFile' = [resultFile EXCEPT ![n] = r] /\ UNCHANGED <<state, attempt, wal>>
      BY <2>1, <2>2 DEF WriteSyntheticFailure
    <3>3. n <= state.active
      BY <2>2 DEF Active, Attempts
    <3> QED
      BY <2>2, <3>1, <3>2, <3>3, ChooseSimulation
  <2>3. CASE ~(Active(n) /\ resultFile[n] = NoResult)
    BY <2>1, <2>3, Stutter DEF WriteSyntheticFailure, LearnedOutcome
  <2> QED
    BY <2>2, <2>3
<1>9. CASE \E n \in Attempts : \E s \in WorkerOutcomes : PublishResult(n, s)
  <2>1. PICK n \in Attempts, s \in WorkerOutcomes : PublishResult(n, s)
    BY <1>9
  <2>2. CASE resultFile[n] = NoResult
    <3> DEFINE r == [status |-> s, token |-> worker[n].token, by |-> "worker"]
    <3>1. r \in Result /\ r.status \in Terminal
      BY BoundsAssumption DEF IInv, TypeOK, Worker, Result
    <3>2. resultFile' = [resultFile EXCEPT ![n] = r] /\ UNCHANGED <<state, attempt, wal>>
      BY <2>1, <2>2 DEF PublishResult
    <3>3. n <= state.active
      BY <2>1, Nulls DEF PublishResult, IInv, TypeOK, State, StateInv, AttemptInv, Attempts
    <3> QED
      BY <2>2, <3>1, <3>2, <3>3, ChooseSimulation
  <2>3. CASE resultFile[n] # NoResult
    BY <2>1, <2>3, Stutter DEF PublishResult, LearnedOutcome
  <2> QED
    BY <2>2, <2>3
<1>10. CASE \E n \in Attempts : ReportResult(n)
  <2>1. PICK n \in Attempts : ReportResult(n)
    BY <1>10
  <2>2. resultFile[n] # NoResult
    BY <2>1 DEF ReportResult, IInv, WorkerInv
  <2> QED
    BY <2>1, <2>2, CompleteSimulation, Stutter DEF ReportResult, LearnedOutcome
<1>11. CASE \E n \in Attempts : ReconcileResult(n)
  <2>1. PICK n \in Attempts : ReconcileResult(n)
    BY <1>11
  <2>2. attempt[n].result = resultFile[n] /\ resultFile[n] # NoResult
    BY <2>1 DEF ReconcileResult, IInv, AttemptInv, RecordedIsPublished
  <2> QED
    BY <2>1, <2>2, CompleteSimulation DEF ReconcileResult
<1>12. CASE state'.active = state.active /\ UNCHANGED <<resultFile, attempt, wal>>
  BY <1>12, Stutter DEF LearnedOutcome
<1> DEFINE Others ==
      \/ MarkRunningState \/ RecoverCompletion \/ SyntheticState \/ Abort
      \/ \E d \in Dispatchers : Open(d) \/ DispatchFails(d)
      \/ \E n \in Attempts : \/ Suspect(n) \/ WriteCancel(n)
                             \/ Accept(n) \/ Start(n) \/ GuardPublish(n) \/ WorkerDies(n)
      \/ \E step \in {"queue", "worker"} : MarkFinalized(step)
      \/ UNCHANGED vars
<1>13. CASE Others
  <2>1. UNCHANGED <<resultFile, attempt, wal>>
    BY <1>13 DEF MarkRunningState, RecoverCompletion, SyntheticState, Abort, Open, DispatchFails,
       Suspect, WriteCancel, Accept, Start, GuardPublish, WorkerDies, MarkFinalized, vars
  <2>2. state'.active = state.active
    BY <1>13 DEF MarkRunningState, RecoverCompletion, SyntheticState, Abort, Open, DispatchFails,
       Suspect, WriteCancel, Accept, Start, GuardPublish, WorkerDies, MarkFinalized, vars,
       IInv, TypeOK, State
  <2> QED
    BY <2>1, <2>2, <1>12
<1>14. Next \/ UNCHANGED vars
  OBVIOUS
<1> QED
  BY <1>1, <1>2, <1>3, <1>4, <1>5, <1>6, <1>7, <1>8, <1>9, <1>10, <1>11, <1>13, <1>14
     DEF Next, LockedStep, Dispatch, Reconcile, WorkerStep

(* The AssignmentStore implements the attempt ledger.                        *)
THEOREM StoreImplementsLedger == Spec => ImplementsLedger
<1>1. Init => Ledger!Init
  BY Nulls DEF Init, Ledger!Init, Ledger!None, Ledger!Attempts, LearnedOutcome, Attempts, Terminal
<1>2. IInv /\ [Next]_vars => [Ledger!Next]_(Ledger!ledger)
  BY StepSimulation
<1> QED
  BY <1>1, <1>2, InductiveInvariant, PTL DEF Spec, ImplementsLedger, Ledger!Spec
===============================================================================
