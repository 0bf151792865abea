# CodePatchBay: TLA+ models of the orchestration core

CodePatchBay takes coding tasks (issues, CLI requests) into a Hub queue, runs
them with agents in worker processes, and publishes the outcome. The state that
survives a crash is a set of JSON files under the hub root, written by several
processes: the hub (and, for a while, the hub that replaces it), its janitor,
and one process per worker. This project models how those processes share those
files: who may write, in which order, and what is left when one of them dies.

All source paths below are relative to `src/`.

## The chain of a task

    entry (queue.json) -> HubOrchestrator.tick -> Scheduler -> AssignmentStore
      -> WorkerSupervisor -> WorkerStore inbox -> managed worker -> engine
      -> result.json -> Reconciler -> entry, worker registry, FailureRouter

| component | state | operations | hard behaviour |
|---|---|---|---|
| Leader lock (`server/orchestrator/leader-lock.ts`) | `leader.lock/leader.json`, receipt, epoch, quarantine | acquire, renew, release, markReady | takeovers, two threads of one hub, renewals slower than the lease, death between two file operations |
| Hub orchestrator (`server/orchestrator/hub-orchestrator.ts`) | timers, the reservation in hand | start, tick, janitor, stop | awaits between reading and writing, overlap of a superseded and a new leader |
| Scheduler (`scheduler.ts`) | snapshot of the queue | stale claim recovery, choice of candidates | snapshot against later assignment state |
| Assignment store (`shared/orchestrator/assignment-store.ts`) | `state.json`, `attempt.json`, `result.json`, completion log, control files | open, createAttempt, markRunning, complete, writeSyntheticFailure, markFinalized, writeCancel | crash between writes, worker writing outside the lock, late completions |
| Managed worker (`runtime/worker/managed-worker.ts`) | accepted.json, result.json | processInbox, publication, completion | superseded workers, death in any phase |
| Reconciler (`reconciler.ts`) | what it read | recoverRuntime, reconcileAssignments, finalization | half-finished finalizations, exceptions that end a pass |
| Hub queue (`server/services/hub/hub-queue.ts`) | queue.json | enqueue, updateEntry, claims, stale recovery | guarded and unguarded updates |
| Worker registry and inbox (`shared/orchestrator/worker-store.ts`) | registry records, inbox and processing directories | register, updateWorkerIf, findIdleWorker, writeInbox, claim, acknowledge | compare-and-set without a lock, written by many |
| Worker supervisor (`worker-supervisor.ts`) | child processes, pending stops, restart counts | startWorker, stopWorker, checkHealth, exit handler | decisions from snapshots, exits during a start, crash loops |
| Failure router | retry budget | route | budget bypasses |
| Directory lock, maintenance gate, backup, hub registry | lock directories, receipts, journals | lock, quarantine, restore | crash recovery of multi-file operations |
| ACP pool (`server/services/acp/acp-pool.ts`) | slots and waiters, persistent clients and their chains, connection leases shared by processes | execute, acquire, release, close, stop | racing closes of one client, waits for each other, dead owners of leases |
| DAG execution (`core/engine/run-job-execute-dag.ts` and the loops beside it) | executed and completed nodes, buffered effects of a wave, rounds of repair | batches, waves, repair, retry, completion gate | nodes that finish in any order or never, abort at any await |
| Finalizers and journal (`server/services/auto-finalizer.ts`, `finalizer-journal.ts`) | journal, remote branch, issue, pull request, events | intent, effect, readback, takeover, read-only recovery | requests without an answer, death between effect and receipt, superseded writers |
| Local code index | snapshots, objects, leases | publish, collect | collector against readers |
| Event store, job projection | job logs | append, project | recovery of a torn log |

What makes each correct:

- *Leader lock*: one lease at a time; epochs never repeat; a superseded holder
  never restores its record; the lock can be recovered after any death.
- *Assignment store*: an attempt's outcome is decided once, by whoever created
  `result.json`; the record follows the file; a crash never wedges it.
- *Dispatch*: an entry ends only with an outcome somebody delivered; every
  outcome reaches the entry; nothing is dispatched before recovery.
- *Registry and supervisor*: a dead worker does not stay on offer, a message is
  not left in a living worker's inbox, a crashing task is not restarted for ever.
- *ACP pool*: slots are counted exactly, a running client has a lease, and every
  request ends.
- *DAG execution*: a job completes only on what all its verifiers saw; a failed
  job accounts for every node; it ends.
- *Finalizer*: nothing happens twice on the remote, receipts are true, and only
  the owner of the claim writes.
- *Queue, locks, journals*: updates are not lost; a journal replays to the state
  it recorded.

## Modules

| module | models | checked by |
|---|---|---|
| `AttemptLedger` | abstract: attempts in order, an outcome chosen once, learned only as chosen and only while current | refined by `Assignment` and `Dispatch` |
| `Assignment` | one assignment directory, a file write per step, its dispatchers, reconciler and workers | `assignment` |
| `AssignmentProofs` | the theorems about `Assignment` | TLAPS |
| `LeaderLock` | the lock directory, a file operation per step | `leader_lock`, `lock_reclaimable` |
| `LeaderLockProofs` | the theorems about `LeaderLock` | TLAPS |
| `Dispatch` | composition: entry, assignment, hubs (tick, start, janitor), workers; an await per step | `dispatch_takeover`, `dispatch_retry`, `safe_reset` |
| `DispatchProofs` | the theorems about `Dispatch` | TLAPS |
| `WorkerRegistry` | composition: registry, inbox, the tick's dispatch, supervisor, worker main loop and heartbeat; a read and a write per step | `worker_reuse`, `worker_restart` |
| `WorkerRegistryProofs` | the theorems about `WorkerRegistry` | TLAPS |
| `AcpPool` | the pools of several processes and the leases they share; what runs between two awaits per step | `acp_pool` |
| `AcpPoolProofs` | the theorems about `AcpPool` | TLAPS |
| `DagExecution` | one job's DAG: scheduler, waves, loops, gate | `dag_execution` |
| `DagExecutionProofs` | the theorems about `DagExecution` | TLAPS |
| `FinalizerJournal` | composition: finalizer of every attempt, journal, event stream, remote, local source | `finalizer_journal`, `read_only_recovery` |
| `FinalizerJournalProofs` | the theorems about `FinalizerJournal` | TLAPS |

`MCAssignment`, `MCLeaderLock`, `MCDispatch` and `MCWorkerRegistry` add the
symmetry sets for TLC, `MCAcpPool` and `MCDagExecution` the instance;
`FinalizerJournal` has one number as its constant and is run as it is. Mutated
forms of definitions stand before their originals and say that they are; no
specification uses them.

### Assignment

`op` is the operation inside `_withAssignmentLock`. The lock serializes the
operations but a process may die, or a write throw, after each file
(`Abort`), and the next operation starts from what was written. Only
`completeAttemptFromExistingResult` has a write-ahead log (`wal`); the next
holder replays it before its own work (`LockFree`, `RecoverCompletion`).
`WriteSyntheticFailure`, `SyntheticAttempt` and `SyntheticState` are the three
writes of one call, `CreateAttempt` and `CreateAttemptState` the two of another.
A worker's lease guard takes the lock (`GuardPublish`); the exclusive creation
of `result.json` does not (`PublishResult`). `suspects` is the gap between the
lock-free read of the reconciler or janitor and its call.

Tokens (16 random bytes in the code) are counted: two calls never generate the
same. Epoch and worker id, which the code checks along with the token when they
are present, change only together with it, so the token stands for the identity.

### LeaderLock

`acquire` holds the kernel recovery fence, which its process's death releases.
`renew` (timer) and `release` (stop) do not take it. All of them publish through
`_writeLeaderGuarded`: temp file in the current directory, validation, rename of
`leader.json` away, check of what was renamed, link of the temp file; `guarded`
holds the progress of one such write per hub and thread. A temp file moves with
its directory, hence `guarded.dir`. The clock is shared because the lock refuses
to judge owners of another host. `lease` is history: the last lease end a hub
published, for `LeaseExclusion`.

### Dispatch

Each hub has a tick (`pc`, `seen`) and a janitor; both act on what they read
earlier. `fresh` is the set of hubs whose remembered `updatedAt` still matches
the entry: every update of the entry clears it, a guarded update succeeds only
for a member. The assignment store's operations are atomic here, which
`Assignment` justifies: they are serialized by its lock, and what a crash leaves
of one is completed, or ignored, before the next one looks. `leader` is the
hub whose lease runs. `LoseLease` lets it end while its holder is stalled, and
the holder then goes on with its step. A hub that dies does not come back; its
restart is another member of `Hubs`.

Chosen nondeterministically where the code computes something this module does
not hold: whether a deadline has passed, whether an entry passes the filters and
gates, whether a call to the supervisor or registry succeeds, and what
`_finalizeQueue` and `FailureRouter.route` make of a failure
(`EntryStatuses`). A worker claim of the entry (`markClaimed`) compares worker
ids in the code; the model lets every attempt have the same worker there.
Each attempt has its own worker process otherwise. One entry: the loop over
several candidates, and one entry's exception ending the pass for others, appear
only through the single entry's tick. Exceptions of file writes are not modelled
in `Dispatch`, except as the death of the hub at the same point. Two janitor
passes of one hub do not overlap. `ReconcileQueue` is one step where the code lists
the scheduled entries (reconciler.ts:2004) and then updates each without a guard
(2010): what another hub does to the entry in between is left out.

### WorkerRegistry

`updateWorkerIf` reads `registry/worker-<id>.json`, compares it with what the
caller expects and writes the whole record back, and no lock covers the two.
`Prepare` is the read and the comparison, `Commit` the write; `writes` holds what
a caller has computed in between. The callers are the tick (`Reserve`,
`ReleaseWorker`, `ReadToFinalize`), the janitor (`checkHealth`: `SeeIdle`,
`BeginStop`, `Kill`), the start and the exit handler of every child, and in the
worker its main loop and its heartbeat timer. An exit is handled in two steps
(`SeeExit`, `ReadToExit`) because the record is read before the handler decides
from `_pendingStops` whether it was deliberate. A worker id belongs to one
process (`startWorker` makes a new one), so the incarnation token of the
expectations always matches and is left out. What becomes of an attempt is a
choice (`Decide`): `Dispatch` and `Assignment` cover it.

### AcpPool

A process runs one callback at a time, so an action is what it does between two
awaits. `pc` follows `execute` per request: slot (`Acquire`, `Release`), the
chain of the client key (`Chain`, `GetClient`), the connection lease
(`AcquireLease`, `LeaseFails`), the spawn, the prompt, and the ways back.
A persistent client is put under its key first (`Register`, acp-pool.ts:5261);
`start` then awaits the home of the agent and the audit before it spawns the child
(`Boot`, acp-client.ts:1787), waits for its answer (`Started`) or throws
(`StartFails`). `closer` is one call of `#closePersistentClient`: the error path
of a request, the release of a job and `stop` may close the same client at once.
Such a call begins with the client under the key, ends the input of its process
(`EndInput`) and waits until the process is gone; where there is no child to close,
not yet or no more, it waits for nothing (`childless`). It ends in one of three ways:
lease returned and key deleted, though saving the session may have failed
(`Retire`); the lease could not be retired, so the key stays (`RetireFails`); the
close itself failed, so lease and key stay (`CloseFails`). A failure goes the error
path of the caller (`AfterFailure`). The deletion takes the key whichever client it
has by then, so a late close of an old client may take a newer one out of the pool.
`early` is history: the clients a close reached before their child was spawned.
The connection
lock serializes the lease files, so counting the live leases and adding one is a
step. One provider, and the persistent requests of a pool share a key. A one-shot
child that is terminated in the background (acp-pool.ts:2267) has already
returned its lease, so for a while more agent processes may run than there are
leases; `ClientsLeased` is stated for persistent clients, for which the lease
stays. It excepts the clients in `early`: for those it does not hold of the code
(see "Seen while modelling").

### DagExecution

`step` is where `executeWorkflowDag` is; `run` is `runDagNode` of each node of the
wave. The first terminal outcome or an abort seals the buffers (`sealed`),
replays what the code replays and ends the job without waiting for the siblings,
which go on (`Sibling`) until they notice. `durable` is the last dag_node event of
each node in the log, `order` the order in which start events of waves were
written, `artifact` the reservation a review holds in the artifact store.
`loop` and `todo` are the repair or retry loop that is running, `gateRound` the
completion repairs; `RepairLoop`, `RetryLoop`, `GateRepairs` and `Rerun` choose the
nodes that run again. Provider choice, quota fallback and the retries inside a
phase are part of a node's outcome. `order` and `validated` are history.

### FinalizerJournal

`proc` is the finalizer of every attempt, and `proc[p].seen` the journal record it
goes by: the append is conditional on the stream's length (`SameCursor`) and read
back (`Write`), and its outcome may be unknown to the writer although the record
is stored. `Proceed` is the step after each stage, shared by the live attempt and
by `recoverFinalizerOnly`; they differ where the code does: a takeover reads back
what another attempt may have done, resends only what the readback denies
(`MayResend`), and never sends a create whose intent is somebody else's. A lease
is checked when the step before it ends, so a finalizer that is about to send may
be superseded (`Start`) while it stalls. A request lands, is refused, or
stays without an answer (`flying`) and may land at any later time (`Land`). A push
carries `--force-with-lease` (`Pushed`). Its baseline is the `preRemoteHead` that
the first claim binds; every later record must repeat it
(finalizer-journal.ts:308) and a recovery pushes with it
(auto-finalizer.ts:3710), so it is a constant here, and that a push replaces
nobody's commit is an assumption about git, not a property. `Outsider` and
`Developer` move the branch and the local source, which is what the receipts and
the readbacks must survive. `JournalMovesOn` is what the conditional append and
the rule of takeovers give together: the records are one line, whoever wakes up
late. Everything that may throw (capsule, authority, review
bundle, git, GitHub) is `Fail`.

`Spec` starts a recovery under the contract of the API: the claim handed over is
that of an attempt that published its result or died. `ScheduledSpec` starts what
the reconciler plans (`Plan`) and the worker admits (`Admitted`); by the
finding below, that leaves nothing of the recovery, so the properties are
checked under `Spec`. The claim of a recovery that is itself recovered is in
`Spec` only: `finalizerHandoffEvidence` requires the origin job to be the job of
the attempt that hands over (reconciler.ts:760), which a recovery's is not.

Two behaviours the model shows and no property forbids. A recovery that pushed
the commit itself judges the push by the readback it made before and stops with
`REMOTE_PUSH_RECEIPT_CONTRADICTED` (`AtPushReceipt`); the next one continues. And
the receipt of the pr_opened event keeps the cursor of the whole origin stream,
while the journal's reader recomputes it up to the event (`Readable`): when a live
attempt has stopped behind the event and recorded its result there, the receipt
that a recovery writes makes the journal unreadable.

## Runs

| run | instance | distinct states | shows |
|---|---|---|---|
| `assignment` | 2 dispatchers, 2 attempts, 3 tokens, outcomes completed and cancelled | 2.6 million | eight properties of the store |
| `leader_lock` | 3 hubs, lease 1, clock to 4 | 3.1 million | mutual exclusion, epochs, acquisitions left alone |
| `dispatch_takeover` | 2 hubs, 1 attempt, completed and cancelled | 1.7 million | entry outcomes under overlap and restart |
| `dispatch_retry` | 1 hub, 2 attempts, completed, blocked and cancelled (and synthetic failures) | 0.4 million | refinement, and two liveness properties |
| `worker_reuse` | 1 worker, 2 attempts, no restart | 0.2 million | two liveness properties under stale writes |
| `worker_restart` | 3 workers, 1 attempt, 1 restart | 0.4 million | type, bound on restarts |
| `acp_pool` | 2 processes, 3 requests, limit 1 | 0.6 million | slots, leases, every request ends |
| `dag_execution` | 8 nodes, waves of 3, 2 repairs, 1 retry, 1 gate repair | 26 000 | four safety and two liveness properties |
| `finalizer_journal` | 3 attempts | 2.1 million | once, true, intended, one writer, one line of records |
| `lock_reclaimable`, `safe_reset`, `read_only_recovery` | smallest that shows it | - | what a doc or comment says and the code does not do |

Every invariant and every safety property of a step that the passing runs check,
and the refinement, is also a theorem, for all values of the constants (see
Proofs): the bounds below matter to the liveness properties, and to the trial of
the others before their proof. Why they are enough for what the runs claim:

- *assignment*: the hazards need a superseded attempt and a current one (2), two
  dispatchers that both opened the assignment, and one `createAttempt` that died
  and is repeated (one token more than attempts).
- *leader_lock*: a stale holder, the contender that replaces it and a third that
  replaces that one; four clock steps let two successive leases of length 1
  expire and a third begin. Epochs are unbounded in the model and bounded by the
  number of hubs.
- *dispatch_takeover*: one attempt, so that two full hubs with janitors stay
  checkable. `dispatch_retry`: one hub, so that a retried entry does. Two hubs
  and two attempts together exceed 20 million states: a superseded hub that
  finalizes an older attempt after its successor has retried the entry is outside
  these runs. The theorems cover that overlap for `OutcomesDelivered`,
  `RecoversFirst` and the refinement; the two liveness properties are not checked
  under it.
- `MaxAttempts` bounds `EnsureWorker` (no worker is available afterwards), which
  the code allows at any time, so behaviours at the bound are real ones.
  `LoseLease` happens only while another hub can take over.
- *worker_reuse*: the hazards are between the writers of one record, and a second
  attempt is what a stale write can harm; two workers exceed the time with
  liveness. *worker_restart*: the worker, its replacement, and one more that must
  not be started (and whose start may fail).
- *acp_pool*: two requests of one client key race for chain, close and slot; the
  third, in another process, competes for the one lease and its process may die
  with it. Bounds: `Stoppable` (one pool is stopped), `Mortal` (the other process
  dies, and only with a lease, since any other death leaves nothing behind),
  `Failing` (the closes of one request and of `stop` may fail, at any of their
  steps), `Overlapping` (no pool is stopped while a job is released; the error
  paths of both requests race with either).
- *dag_execution*: an executor, two waves (one with a conflict and a dependency on
  the first), two verifiers; from the start or resumed behind the executor. Two
  repairs, so that a second round follows a failed first one. The DAG is one DAG;
  the theorems are about every plan.
- *finalizer_journal*: three attempts let a claim be taken over twice, so a
  stalled holder meets the successor of its successor. Each mode's chain runs to
  its end. The outsider pushes any number of times.

Deadlock checking is off in every run because these systems do stop: hubs exit,
workers finish, requests and jobs end, bounds are reached.

### Fairness

`Dispatch.LiveSpec` assumes weak fairness of each hub's tick and of each running
hub's janitor: `_scheduleTick` arms its timer again after every tick, whatever it
threw, and the janitor is an interval. It does not assume that workers make
progress, that deadlines pass, that a hub is started or that it survives. Both
properties are stated under the premise `<>[](leader # NoHub)`: from some time on
one hub keeps its lease. `FinalizedOrRetried` says that every completed, failed or
blocked outcome gets queue and worker finalization for the attempt that has it, or
that the entry has been dispatched anew, which throws the outcome away; that the
code does this to a completion too is shown by run `safe_reset`. So the property
says that no outcome is left lying, not that each one reaches the queue.
`ClaimsSettle` says that no entry stays claimed by such an assignment. Both leave
out `cancelled`, which the code never finalizes.

`WorkerRegistry.LiveSpec`: weak fairness of the tick's dispatch (an await returns),
of each start, exit handler and main loop (the exit event arrives; a living worker
polls its inbox), and of what the janitor has begun; strong fairness of the
janitor finding a dead worker, since the interval visits each worker again and
again but the record may be fresh whenever it does. Nothing makes a worker exit, stall
or send heartbeats, and no reconciliation of attempts is assumed.

`AcpPool.LiveSpec`: some await that can return does, and a terminated process goes
(it is killed after a grace). The wait for a lease ends by its configured timeout;
the waits for a slot and for the chain are not assumed to time out. Nobody stops
a pool, releases a job or crashes by fairness, and `start` need not reach its spawn
(the request gives up by its abort). No request takes infinitely many steps, so one
condition for all of them is no weaker than one for each. `RequestsEnd` says that
from some point on no request of a living process is under way, which for requests
that are each made once is the end of every one.

`DagExecution.LiveSpec`: the coordinator goes on (a node that runs alone ends by
its phase timeout); a node of a wave starts, and gives back a reservation. It does
not assume that a provider of a wave answers, which is why `JobEnds` excepts the
wave that waits for ever and `WaveReturns` does not need it.

`FinalizerJournal`, `Assignment` and `LeaderLock` have no liveness properties: a
finalizer may stop at any step, and that is what the recovery is for.

## Where the code departs from what it says

- `LockReclaimable`: `_writeLeaderGuarded` renames `leader.json` away before it
  links the next one. A leader killed in between leaves a directory that
  `_recoverIncompleteLock` refuses for ever (`HUB_LEADER_INCOMPLETE_UNBOUND`).
- `SafeReset`: the recovery of stale claims asks only whether the assignment is
  assigned or running. A completion after the reconciler's listing and before that
  question is not finalized yet: the entry is reset, the same tick may dispatch it
  again, and the outcome is gone.
- `ObservationsAreAdmitted`: the reconciler plans "reconcile read-only first"
  without naming a claim; the worker demands the claim of every finalizer-only
  assignment (managed-worker.ts:699) and throws
  `FINALIZER_RECOVERY_PROOF_INVALID`. Since a live result carries no proof of safe
  continuation, the first recovery is always read-only: none gets anywhere.

Seen while modelling, without a run of their own. A persistent client that is
closed between its registration (acp-pool.ts:5261) and the spawn of its child
(acp-client.ts:1787), by a job's release, `stop`, a recycling or its own abort, has
its lease returned and its key deleted at once, since `close` finds no child
(acp-client.ts:2074), and `start` then spawns the process all the same: it runs
without a lease, beside as many others as there are leases, although the pool's leases
are to "enforce the effective provider connection limit" (docs/product/dw08-migration-runbook.md:63).
`AcpPool` has these steps, and `ClientsLeased` excepts these clients. No case for
`cancelled` in `reconcileAssignments` (reconciler.ts:1376) or the janitor
(hub-orchestrator.ts:559): the entry stays claimed, the recovery of stale claims
resets it, and the cancelled task runs again (`SafeReset` with `cancelled` for
`WorkerOutcomes` fails so, without a race). And: `reconcileQueue` fails an entry
reserved by a hub that died before creating its assignment, so the janitor's reset
never sees it; the reconciler ignores that `writeSyntheticFailure` found a
worker's result; a redispatch that fails after reopening the assignment makes
`markRunning` throw on every later pass; and a poisoned review whose replay throws
ends the job with the panic barrier, before its siblings are cancelled in the log
(run-job-execute-dag.ts:1994), which is why `CancellationReaches` is stated for
failed jobs and not for panicked ones.

## Proofs

`AssignmentProofs` holds, for all values of the constants allowed by
`BoundsAssumption`: type correctness, the four other invariants of run
`assignment`, its two action properties, and the refinement of `AttemptLedger`.

The five properties are not inductive one by one. `TypeOK` alone does not keep
a completion log consistent, and `RecordedIsPublished` does not say why a second
`result.json` cannot appear under a decided record. The inductive invariant adds:
which attempts exist (a number above `state.attempts` has a record only if
`createAttempt` died on it, and never a result); how tokens relate (recorded
tokens are below `nextToken`, distinct, and those of the workers and results);
what each kind of `op` implies about the files already written; the shape of a
log (it carries the content of `result.json` of the active attempt and keeps the
attempt numbers); and that a worker past publication has its file. `InductiveInvariant` proves it with one
lemma per group of actions; the invariants follow from it, the action properties
and the refinement step by step from it and the type invariant. The candidate was
checked by TLC on the instance above before it was proved.

`AcpPoolProofs` holds, for any processes, requests, kinds and limit allowed by
`PoolAssumption`: type correctness (`slots` never goes below zero), `SlotsExact` and
`ClientsLeased`. The invariant that carries them adds `QueueInv` (a queue holds
waiting requests of its pool, each once: without it a slot handed to the head
could go to a request that gave up), `CloserInv` (a close that is under way has a
client, and a request's close is one the request waits for), `StopInv` (the same of
`stop`), `LeaseInv` (a process is spawned once, by a request that holds a lease),
`MappedInv` and `ClosedInv` (what is under a key or being closed is a client, and a
close that found no child has its client in `early` or came after the process). One
lemma per part shows that every action keeps it.

`LeaderLockProofs` holds, for any hubs, lease length and time: `TypeOK`,
`CommittedIsNewest`, `EpochsUnique`, `LeaseExclusion` and
`AcquisitionKeepsDirectory`. What excludes is not the lease but the directory: a
hub makes a directory once in its life (`DirInv`), under the fence (`FenceInv`),
and its writes go into that directory only (`WriteInv`), so `leader.json` is by
the maker of the directory around it and shows that hub's last lease
(`LeaderInv`). While one thread is between its rename and its link, the other
finds no record to rename (`MidInv`). The hard part is a contender that has
judged the lock expired and is about to move it away: `QuarantineInv` says that
from its decision on no hub has a running lease and no write in progress can
still publish one.

`DispatchProofs` holds, for any hubs, outcomes and attempts: `TypeOK`,
`OutcomesDelivered`, `RecoversFirst`, and that `Dispatch` implements
`AttemptLedger`. A result, once there, stays, and a record is decided as its
result is (`RecordInv`); what a tick or janitor of a superseded hub remembers of an
outcome may therefore be outdated but not untrue (`MemoryInv`), and neither is what
it writes into the entry, guarded or not. For the refinement every step of any
hub or worker is first shown to do one of a few things to the store (`StoreStep`),
each of which is a step of the ledger or a stutter.

`WorkerRegistryProofs` holds, for any workers, attempts and limit: `TypeOK` and
`RestartsBounded`. The count of restarts is kept in a record that many callers
read and write back without a lock, so the invariant is about every copy:
until the exit handler of a worker has read the record, the file and each
write in progress carry the number the worker was started with (`RecordsInv`), and a
worker is started for another only below the limit (`ParentInv`). `Depth` of the
model is a recursive function over `parent`; that it is what the invariant calls
`Distance` is proved by a least counterexample.

`FinalizerJournalProofs` holds, for any number of attempts: `TypeOK`,
`NothingTwice`, `ReceiptsAreTrue`, `EffectsAreIntended`, `SoleMutator` and
`JournalMovesOn`. Only the holder of the claim works, and it knows the
journal as it is (`OwnerInv`); what a superseded finalizer has seen is shorter
(`SeenInv`), so its next append fails, and what is appended continues the
record that is there. `WorkInv` says what the holder has made sure
of at its place in each stage, `EffectInv` what remote, events and local source
hold at each stage, on which a successor relies when it takes over.

`DagExecutionProofs` holds, for any plan (`DagAssumption`: any phases, dependencies,
conflicts and limits): `TypeOK`, `CancellationReaches`, `StableOrder` and
`ArtifactsAccounted`, since a wave is the only thing that buffers, and whatever ends
it settles its log and its artifacts (`WaveInv`, `LogInv`). `CompletedIsVerified` is
proved under `ExecutorsFirst`: no executor comes after a verifier, as in
all workflows of `core/workflow/definition.ts` (lines 38-89). Its invariant keeps
account of the verifiers: each has seen the current candidate, or is
among what will run (`Coming`). That holds because nodes that run alone come in
plan order (`OrderInv`), and because a loop reruns the verifiers up to the failing
one and leaves the later ones in the list it returns to (`LoopInv`). For a plan of
another shape, which a custom workflow could have, neither the run nor the theorem
says anything about this property.

Each inductive invariant was checked by TLC before it was proved. The proofs about
`DagExecution` were also tried on changed models (a loop without its limit, a
shorter suffix, a deferral that loses the rest of its list, a commit with the
notice, a discard of running nodes, a cancellation that leaves nodes out): each
change makes a proof fail.

Assumed: the constants' assumptions, that the assignment lock excludes (`op` holds
one operation), that the connection lock does (a count and an addition are one
step), and `ExecutorsFirst` in the one theorem that names it. Nothing else.

Only model-checked: the liveness properties (`FinalizedOrRetried`,
`ClaimsSettle`, `DeadNotOffered`, `MessagesTaken`, `RequestsEnd`, `WaveReturns`,
`JobEnds`) and the three runs that show a violation. Fairness and `ENABLED`
are outside what the prover can do. So are the library's induction theorems; where
a fact about every length or number was needed (`Min`, `Depth`, the elements of a
filtered list), the proofs take a least counterexample of a well-founded order.
`DagExecution` filters lists with a recursive function of its own (`Among`) that
such a proof can handle. No recursive operator is used in a module with theorems.

## Not modelled

- The inside of the directory lock (owner receipts, quarantine, generation
  checks); `Assignment` takes mutual exclusion and the recovery of dead owners
  as given.
- Failure router; the queue's enqueue and claim API (`claimEligible` has no caller
  outside the tests); ACP supervision (`acp-supervisor`, the broker).
- `WorkerRegistry`: `recoverWorkers`, receipts of inbox writes and their
  compensation (no caller in the product), `pruneDead`. Two more writers of the
  record: `reconcileWorkers`, which marks workers exited or unhealthy in the tick
  (reconciler.ts:1189-1220), and the `updateWorkerIf` of `reconcileQueueVsAssignments`
  (hub-orchestrator.ts:624). `checkHealth` decides by its snapshot of
  the workers (worker-supervisor.ts:220-226); `ReadToMarkUnhealthy` tests the record
  it then writes. An exception after a claim has moved the message to
  processing leaves it there; only the death of the worker is modelled.
- `AcpPool`: several providers and keys, quota classification,
  `releaseWorktree`'s one-shot children, the inside of the connection lock; a child
  whose process identity cannot be captured (its client cannot signal it and waits
  two seconds only, acp-client.ts:2104), and a tool policy that cannot be read
  after the lease was taken (acp-pool.ts:5237, which leaves the lease behind).
- `DagExecution`: provider preflight and fallback, candidate drift during an
  infrastructure retry, event writes that fail.
- `FinalizerJournal`: preparation of the candidate, capsule, authority checks,
  review bundle (each a call that may fail), the modes dry-run and local.
- `enqueueWithReceipt` and `compensateEnqueueReceipt`; heartbeat contents;
  `markReady` and the ready receipt.
- The phases of the engine, agents, prompts, code index, event store, backup: see
  the plan. CLI and bridges: argument and HTTP handling.

## Plan

Done, with their proofs: `Assignment` and `AttemptLedger`, `LeaderLock`, `Dispatch`
for one entry, `WorkerRegistry`, `AcpPool`, `DagExecution`, `FinalizerJournal`.
Left, in this order:

- `LeaderLock`: `markReady` and the ready receipt.
- `DagExecution`: `CompletedIsVerified` for plans whose executors do not come
  first.
- `DirectoryLock`: owner receipts, stale recovery, quarantine; abstract: a mutex
  with crashing owners. Three processes. Proof of exclusion.
- `HubQueue`: enqueue, dependencies, stale recovery over several entries.
- `FailureRouting`: the retry budget and its bypasses, composed with an entry.
- `SnapshotGc`: publication, readers and the collector of the local code index.
- `EventLog`: append and recovery of a torn log.
