------------------------------ MODULE DagExecution ------------------------------
(***************************************************************************)
(* One job's workflow DAG, executed by executeWorkflowDag                  *)
(* (core/engine/run-job-execute-dag.ts).                                   *)
(*                                                                         *)
(* Ready nodes run one at a time, except a wave of review nodes.  The      *)
(* nodes of a wave run concurrently on buffered effects; the first failure *)
(* or an abort seals the buffers and ends the job without waiting for the  *)
(* others, a complete wave is replayed in plan order.  A verifier's        *)
(* failure is not the end: the repair loop runs the executor and the       *)
(* verifiers again, the infrastructure loop the verifiers only, and the    *)
(* completion gate may rerun the plan from a phase on.                     *)
(*                                                                         *)
(* Only the order of steps and the dag_node events are kept of the durable *)
(* log; provider choice, quota fallback and the retries inside a phase are *)
(* part of the outcome of a node.                                          *)
(***************************************************************************)
EXTENDS Integers, FiniteSets, SequencesExt

CONSTANTS
  Plan,            \* executionNodes, in topological order
  PhaseOf,         \* phase of each node
  DependsOn,       \* dependsOn of each node
  ConflictKeys,    \* conflictKey and conflictKeys of each node
  MaxConcurrent,   \* maxConcurrentNodes
  ResumeSets,      \* what resumeCompletedNodes may be
  MaxRepairs,      \* solverRepairLimit
  MaxRetries,      \* verificationInfrastructureRetryLimit
  MaxGateRepairs   \* completionGateRepairLimit

Nodes == ToSet(Plan)
Phases == {"plan", "execute", "review", "verify", "adversarial_verify"}
VerifyPhases == {"verify", "adversarial_verify"}
Verifiers == {n \in Nodes : PhaseOf[n] \in VerifyPhases}

Position(n) == CHOOSE i \in 1 .. Len(Plan) : Plan[i] = n

ASSUME DagAssumption ==
  /\ Plan \in Seq(Nodes) /\ IsInjective(Plan)
  /\ PhaseOf \in [Nodes -> Phases]
  /\ \A n \in Nodes : \A d \in DependsOn[n] :
       d \in Nodes /\ Position(d) < Position(n)
  /\ \A s \in ResumeSets : \A n \in s : n \in Nodes /\ DependsOn[n] \subseteq s
  /\ MaxConcurrent \in Nat \ {0}
  /\ {MaxRepairs, MaxRetries, MaxGateRepairs} \subseteq Nat

VARIABLES
  signal,      \* the external AbortSignal has fired
  step,        \* where executeWorkflowDag is
  resumed,     \* resumeCompletedNodes
  executed,    \* executedNodeIds
  completed,   \* completedNodeIds
  todo,        \* nodes to run one after the other
  loop,        \* the repair or retry loop that is running
  gateRound,   \* completion repairs started
  batch,       \* nodes of the latest wave
  run,         \* runDagNode of each node of the wave
  noticed,     \* outcomes of the wave, in the order they were noticed
  sealed,      \* the buffers of the wave take no more effects
  starts,      \* nodes of the wave whose start events are buffered
  artifact,    \* review artifact of each node of a wave
  durable,     \* last dag_node event of each node in the job's log
  order,       \* nodes of waves, in the order their start events were written
  validated,   \* verifiers that passed on the present candidate
  job          \* status of the job

waveVars == <<batch, run, noticed, sealed, starts, artifact, order>>
loopVars == <<todo, loop, gateRound>>
vars == <<signal, step, resumed, executed, completed, todo, loop, gateRound,
          batch, run, noticed, sealed, starts, artifact, durable, order,
          validated, job>>

NoLoop == [kind |-> "none", todo |-> <<>>, suffix |-> <<>>, round |-> 0]

Init ==
  /\ signal = FALSE /\ step = "schedule"
  /\ resumed \in ResumeSets
  /\ executed = {} /\ completed = resumed
  /\ todo = <<>> /\ loop = NoLoop /\ gateRound = 0
  /\ batch = <<>> /\ noticed = <<>> /\ sealed = TRUE /\ starts = {}
  /\ run = [n \in Nodes |-> "idle"]
  /\ artifact = [n \in Nodes |-> "none"]
  /\ durable = [n \in Nodes |-> "none"]
  /\ order = <<>> /\ validated = {} /\ job = "running"

-------------------------------------------------------------------------------
(* The scheduler.                                                            *)

(* The elements of s that are in S, in their order.                          *)
Among(s, S) ==
  LET among[k \in 0 .. Len(s)] ==
        IF k = 0 THEN <<>>
        ELSE IF s[k] \in S THEN Append(among[k - 1], s[k]) ELSE among[k - 1]
  IN  among[Len(s)]

(* stableReadyNodes *)
Ready == Among(Plan, {n \in Nodes \ executed : DependsOn[n] \subseteq completed})

(* isParallelNodeCandidate; custom, side-effecting and parallel-unsafe nodes *)
(* are like nodes of another phase.                                          *)
Parallel(n) == PhaseOf[n] = "review" /\ n \notin resumed

(* pickExecutionBatch: the longest prefix of parallel nodes without a        *)
(* conflict, or the first node alone.                                        *)
Batch(ready) ==
  LET Fits(k) == \A i \in 1 .. k :
        /\ Parallel(ready[i])
        /\ \A j \in 1 .. i - 1 : ConflictKeys[ready[i]] \cap ConflictKeys[ready[j]] = {}
      sizes == {k \in 2 .. MaxConcurrent : k <= Len(ready) /\ Fits(k)}
  IN  SubSeq(ready, 1, Max(sizes \cup {1}))

(* As CancelRest, but a node that has started is left alone. *)
CancelUnstarted(events, done) ==
  [n \in Nodes |-> IF n \in done \cup completed \/ events[n] = "started"
                   THEN events[n] ELSE "cancelled"]

(* The dag_node events after the cancellation of everything that was neither *)
(* executed nor completed (cancelUnexecutedNodes).                           *)
CancelRest(events, done) ==
  [n \in Nodes |-> IF n \in done \cup completed THEN events[n] ELSE "cancelled"]

EndJob(status) == job' = status /\ step' = "ended"

(* The job fails because node n did: dag_node_failed, job_failed, and the    *)
(* cancellation of the rest.                                                 *)
FailWith(n, events) ==
  /\ durable' = CancelRest([events EXCEPT ![n] = "failed"], executed \cup {n})
  /\ executed' = executed \cup {n}
  /\ EndJob("failed")

(* interruptExecution *)
Interrupt(events) ==
  /\ durable' = CancelRest(events, executed)
  /\ EndJob("failed")
  /\ UNCHANGED executed

(* The next batch: one node, or a wave with its isolated runs.               *)
Schedule ==
  /\ step = "schedule" /\ executed # Nodes /\ ~signal
  /\ LET b == Batch(Ready) IN
     IF Len(b) = 1
     THEN /\ todo' = b /\ step' = "node"
          /\ UNCHANGED <<batch, run, noticed, sealed, starts>>
     ELSE /\ batch' = b /\ step' = "wave"
          /\ run' = [n \in Nodes |-> IF n \in ToSet(b) THEN "deciding" ELSE run[n]]
          /\ noticed' = <<>> /\ sealed' = FALSE /\ starts' = {}
          /\ UNCHANGED todo
  /\ UNCHANGED <<signal, resumed, executed, completed, loop, gateRound, artifact,
                 durable, order, validated, job>>

(* The signal is looked at before every batch, but not after the last.       *)
InterruptSchedule ==
  /\ step = "schedule" /\ executed # Nodes /\ signal
  /\ Interrupt(durable)
  /\ UNCHANGED <<signal, resumed, completed, loopVars, waveVars, validated>>

AllExecuted ==
  /\ step = "schedule" /\ executed = Nodes
  /\ step' = "gate"
  /\ UNCHANGED <<signal, resumed, executed, completed, loopVars, waveVars, durable,
                 validated, job>>

-------------------------------------------------------------------------------
(* Nodes that run alone, and the loops around verifiers.                     *)

Current == IF loop = NoLoop THEN Head(todo) ELSE Head(loop.todo)

(* Where a list of nodes goes on: its next node, or back to the scheduler,   *)
(* which has nothing left to do once every node was executed.                *)
Continue(list) == IF list = <<>> THEN "schedule" ELSE "node"

(* The executor of a verifier is the last execute node before it.            *)
Executors(n) == {e \in Nodes : PhaseOf[e] = "execute" /\ Position(e) < Position(n)}
ExecutorOf(n) == CHOOSE e \in Executors(n) : \A f \in Executors(n) : Position(f) <= Position(e)

(* As Suffix, but adversarial verifiers are left out. *)
SuffixVerifyOnly(n) ==
  Among(SubSeq(Plan, 1, Position(n)), {v \in Nodes : PhaseOf[v] = "verify"})

(* The verification suffix of n: the verifiers after its executor, up to n.  *)
Suffix(n) ==
  Among(SubSeq(Plan, IF Executors(n) = {} THEN 1 ELSE Position(ExecutorOf(n)), Position(n)),
        Verifiers)

(* verificationInfrastructureRetrySuffix; every such failure asks for the    *)
(* phase verify (verify.ts, adversarial_verify.ts).                          *)
RetrySuffix(suffix, n) ==
  LET verifies == {i \in DOMAIN suffix : PhaseOf[suffix[i]] = "verify"}
  IN  IF verifies = {} THEN <<n>> ELSE SubSeq(suffix, Min(verifies), Len(suffix))

(* As RepairLoop, but the limit is not looked at. *)
RepairLoopUnlimited(n, suffix, round) ==
  IF Executors(n) = {} THEN NoLoop
  ELSE [kind |-> "repair", todo |-> <<ExecutorOf(n)>> \o suffix, suffix |-> suffix,
        round |-> round]

RepairLoop(n, suffix, round) ==
  IF round > MaxRepairs \/ Executors(n) = {} THEN NoLoop
  ELSE [kind |-> "repair", todo |-> <<ExecutorOf(n)>> \o suffix, suffix |-> suffix,
        round |-> round]

RetryLoop(n, suffix, round) ==
  IF round > MaxRetries THEN NoLoop
  ELSE [kind |-> "retry", todo |-> RetrySuffix(suffix, n), suffix |-> suffix,
        round |-> round]

(* As NextLoop, but a loop that fails starts anew. *)
NextLoopAnew(n, infrastructure) ==
  IF infrastructure THEN RetryLoop(n, Suffix(n), 1) ELSE RepairLoop(n, Suffix(n), 1)

(* What follows a deferred failure of the verifier n: the next round of the  *)
(* loop, another loop, or none when the rounds are used up.  The repair loop *)
(* does not tell the two kinds of failure apart once it runs.                *)
NextLoop(n, infrastructure) ==
  CASE loop.kind = "none" /\ infrastructure -> RetryLoop(n, Suffix(n), 1)
    [] loop.kind = "none" /\ ~infrastructure -> RepairLoop(n, Suffix(n), 1)
    [] loop.kind = "retry" /\ infrastructure -> RetryLoop(n, loop.suffix, loop.round + 1)
    [] loop.kind = "retry" /\ ~infrastructure -> RepairLoop(n, loop.suffix, 1)
    [] loop.kind = "repair" -> RepairLoop(n, loop.suffix, loop.round + 1)

(* The node is done without a terminal failure: the loop goes on with its    *)
(* next node or returns; the plan goes on behind it.                         *)
Advance(n) ==
  /\ executed' = executed \cup {n} /\ completed' = completed \cup {n}
  /\ IF loop = NoLoop
     THEN todo' = Tail(todo) /\ step' = Continue(Tail(todo)) /\ UNCHANGED loop
     ELSE /\ UNCHANGED todo
          /\ IF Len(loop.todo) = 1
             THEN loop' = NoLoop /\ step' = Continue(todo)
             ELSE loop' = [loop EXCEPT !.todo = Tail(@)] /\ step' = "node"

(* resolveDagNodeDecision: a first run of a resumed node is skipped, an      *)
(* aborted node fails without having started.                                *)
StartNode ==
  /\ step = "node" /\ ~signal
  /\ Current \notin resumed \/ Current \in executed
  /\ durable' = [durable EXCEPT ![Current] = "started"]
  /\ step' = "running"
  /\ UNCHANGED <<signal, resumed, executed, completed, loopVars, waveVars, validated, job>>

SkipNode ==
  /\ step = "node" /\ ~signal
  /\ Current \in resumed \ executed
  /\ durable' = [durable EXCEPT ![Current] = "skipped"]
  /\ validated' = validated \cup ({Current} \cap Verifiers)
  /\ Advance(Current)
  /\ UNCHANGED <<signal, resumed, gateRound, waveVars, job>>

AbortNode ==
  /\ step = "node" /\ signal
  /\ FailWith(Current, durable)
  /\ UNCHANGED <<signal, resumed, completed, loopVars, waveVars, validated>>

(* The node passes.  An executor leaves a new candidate behind.              *)
PassNode ==
  /\ step = "running"
  /\ durable' = [durable EXCEPT ![Current] = "completed"]
  /\ validated' = CASE PhaseOf[Current] = "execute" -> {}
                    [] Current \in Verifiers -> validated \cup {Current}
                    [] OTHER -> validated
  /\ Advance(Current)
  /\ UNCHANGED <<signal, resumed, gateRound, waveVars, job>>

FailNode ==
  /\ step = "running"
  /\ FailWith(Current, durable)
  /\ UNCHANGED <<signal, resumed, completed, loopVars, waveVars, validated>>

(* A verifier's failure that a loop may take up; without another round it is *)
(* terminal (finishDeferredVerificationFailure).                             *)
DeferFailure(infrastructure) ==
  /\ step = "running" /\ Current \in Verifiers
  /\ validated' = validated \ {Current}
  /\ LET next == NextLoop(Current, infrastructure) IN
     IF next = NoLoop
     THEN FailWith(Current, durable) /\ UNCHANGED <<completed, todo, loop>>
     ELSE /\ loop' = next /\ step' = "node"
          /\ todo' = IF loop = NoLoop THEN Tail(todo) ELSE todo
          /\ executed' = executed \cup {Current}
          /\ completed' = completed \cup {Current}
          /\ UNCHANGED <<durable, job>>
  /\ UNCHANGED <<signal, resumed, gateRound, waveVars>>

(* runDagNode rejects: runJob's crash barrier fails the job.                 *)
NodeThrows ==
  /\ step = "running"
  /\ EndJob("panicked")
  /\ UNCHANGED <<signal, resumed, executed, completed, loopVars, waveVars, durable, validated>>

-------------------------------------------------------------------------------
(* A wave.  A run of a node ends as one of Outcomes: poisoned is a review    *)
(* whose artifact was rejected by the poisoned-session gate, threw and       *)
(* interrupted are rejections of runDagNode.                                 *)

Outcomes == {"passed", "failed", "poisoned", "threw", "interrupted"}
Wave == ToSet(batch)

(* The signal of the wave, as its nodes see it.                              *)
WaveAborted == signal \/ sealed

(* The node decides to run and buffers its start events.                     *)
Begin(n) ==
  /\ run[n] = "deciding"
  /\ run' = [run EXCEPT ![n] = IF WaveAborted THEN "failed" ELSE "running"]
  /\ starts' = IF WaveAborted THEN starts ELSE starts \cup {n}
  /\ UNCHANGED <<signal, step, resumed, executed, completed, loopVars, batch, noticed,
                 sealed, artifact, durable, order, validated, job>>

(* writeArtifact of the isolated run: prepareArtifactWrite reserves the id,  *)
(* and what it prepared is buffered, or given back when the wave was aborted *)
(* or sealed meanwhile.                                                      *)
Reserve(n) ==
  /\ run[n] = "running"
  /\ IF WaveAborted
     THEN run' = [run EXCEPT ![n] = "interrupted"] /\ UNCHANGED artifact
     ELSE /\ run' = [run EXCEPT ![n] = "reserving"]
          /\ artifact' = [artifact EXCEPT ![n] = "reserved"]
  /\ UNCHANGED <<signal, step, resumed, executed, completed, loopVars, batch, noticed,
                 sealed, starts, durable, order, validated, job>>

Prepare(n) ==
  /\ run[n] = "reserving"
  /\ IF WaveAborted
     THEN /\ run' = [run EXCEPT ![n] = "interrupted"]
          /\ artifact' = [artifact EXCEPT ![n] = "released"]
     ELSE run' = [run EXCEPT ![n] = "prepared"] /\ UNCHANGED artifact
  /\ UNCHANGED <<signal, step, resumed, executed, completed, loopVars, batch, noticed,
                 sealed, starts, durable, order, validated, job>>

(* The run ends.  A provider that ignores the signal may never get there.    *)
Settle(n, outcome) ==
  /\ run[n] \in {"running", "prepared"}
  /\ outcome \in {"passed", "poisoned"} => run[n] = "prepared"
  /\ outcome = "failed" => run[n] = "running"
  /\ run' = [run EXCEPT ![n] = outcome]
  /\ UNCHANGED <<signal, step, resumed, executed, completed, loopVars, batch, noticed,
                 sealed, starts, artifact, durable, order, validated, job>>

(* start_only replay of the buffers of the nodes in those, in batch order.   *)
StartOnly(those) == order' = order \o Among(batch, starts \cap those)

Started(those) == [m \in Nodes |-> IF m \in starts \cap those THEN "started" ELSE durable[m]]

(* As Discarded, but a node that has finished keeps its reservation. *)
DiscardedRunning ==
  [m \in Nodes |-> IF m \in Wave /\ artifact[m] = "reserved" /\ run[m] = "prepared"
                   THEN "released" ELSE artifact[m]]

(* discardBufferedEffects of every buffer: a reservation that is still being *)
(* prepared is in no buffer yet.                                             *)
Discarded ==
  [m \in Nodes |-> IF m \in Wave /\ artifact[m] = "reserved" /\ run[m] # "reserving"
                   THEN "released" ELSE artifact[m]]

(* The wave is aborted and sealed; the start events of those are replayed,   *)
(* every reservation in a buffer is given back.                              *)
Abandon(those) ==
  /\ sealed' = TRUE
  /\ artifact' = Discarded
  /\ StartOnly(those)
  /\ UNCHANGED <<signal, resumed, completed, loopVars, batch, run, noticed, starts, validated>>

(* As Pending, but no outcome is noticed before every node has one. *)
PendingAll(n) ==
  /\ step = "wave" /\ ~signal /\ n \in Wave \ ToSet(noticed)
  /\ \A m \in Wave : run[m] \in Outcomes

Pending(n) == step = "wave" /\ ~signal /\ n \in Wave \ ToSet(noticed)

(* As CommitOrder, in the order the nodes finished. *)
CommitAsNoticed(outcomes) == outcomes

(* All nodes passed: the buffers are replayed in batch order.                *)
CommitOrder(outcomes) == batch

NoticePassed(n) ==
  /\ Pending(n) /\ run[n] = "passed"
  /\ noticed' = Append(noticed, n)
  /\ IF ToSet(noticed') # Wave
     THEN UNCHANGED <<step, executed, completed, sealed, artifact, durable, order>>
     ELSE /\ sealed' = TRUE
          /\ artifact' = [m \in Nodes |-> IF m \in Wave THEN "published" ELSE artifact[m]]
          /\ durable' = [m \in Nodes |-> IF m \in Wave THEN "completed" ELSE durable[m]]
          /\ order' = order \o CommitOrder(noticed')
          /\ executed' = executed \cup Wave /\ completed' = completed \cup Wave
          /\ step' = "schedule"
  /\ UNCHANGED <<signal, resumed, loopVars, batch, run, starts, validated, job>>

(* A terminal outcome without an artifact: its own effects are replayed, the *)
(* start events of the others.                                               *)
NoticeFailed(n) ==
  /\ Pending(n) /\ run[n] = "failed"
  /\ Abandon(Wave)
  /\ FailWith(n, Started(Wave))

(* A terminal outcome with a buffered artifact: the wave's signal has been   *)
(* aborted before the replay, so the commit throws, the replay stops there   *)
(* and the error leaves executeWorkflowDag.                                  *)
NoticePoisoned(n) ==
  /\ Pending(n) /\ run[n] = "poisoned"
  /\ LET replayed == {m \in Wave : Position(m) <= Position(n)} IN
     /\ Abandon(replayed)
     /\ durable' = Started(replayed)
  /\ EndJob("panicked")
  /\ UNCHANGED executed

(* A rejection: failParallelNodeFromException writes the node's failure      *)
(* unbuffered; a rejection by an abort interrupts the execution.             *)
NoticeThrew(n) ==
  /\ Pending(n) /\ run[n] = "threw"
  /\ Abandon(Wave)
  /\ FailWith(n, Started(Wave))

NoticeInterrupted(n) ==
  /\ Pending(n) /\ run[n] = "interrupted"
  /\ Abandon(Wave)
  /\ Interrupt(Started(Wave))

(* The external signal comes before any outcome.                             *)
InterruptWave ==
  /\ step = "wave" /\ signal
  /\ Abandon(Wave)
  /\ Interrupt(Started(Wave))

-------------------------------------------------------------------------------
(* The completion gate (runCompletionGate) and its repair loop.              *)

(* When an executor ran, the candidate it left must be the one the latest    *)
(* verify validated.                                                         *)
CandidateValidated ==
  \/ \A n \in Nodes : PhaseOf[n] = "execute" => durable[n] = "skipped"
  \/ \E v \in validated : PhaseOf[v] = "verify"

CompleteJob ==
  /\ step = "gate" /\ CandidateValidated
  /\ EndJob("completed")
  /\ UNCHANGED <<signal, resumed, executed, completed, loopVars, waveVars, durable, validated>>

GateFails ==
  /\ step = "gate"
  /\ EndJob("failed")
  /\ UNCHANGED <<signal, resumed, executed, completed, loopVars, waveVars, durable, validated>>

(* rerunDagFromPhase: the plan again from the first node of the phase on.    *)
From(phase) == {i \in DOMAIN Plan : PhaseOf[Plan[i]] = phase}
Rerun(phase) == SubSeq(Plan, Min(From(phase)), Len(Plan))

GateRepairs(phase) ==
  /\ step = "gate" /\ gateRound < MaxGateRepairs /\ From(phase) # {}
  /\ gateRound' = gateRound + 1
  /\ todo' = Rerun(phase) /\ step' = "node"
  /\ UNCHANGED <<signal, resumed, executed, completed, loop, waveVars, durable,
                 validated, job>>

Abort ==
  /\ ~signal /\ step # "ended"
  /\ signal' = TRUE
  /\ UNCHANGED <<step, resumed, executed, completed, loopVars, waveVars, durable, validated, job>>

-------------------------------------------------------------------------------
Notice(n) ==
  \/ NoticePassed(n) \/ NoticeFailed(n) \/ NoticePoisoned(n)
  \/ NoticeThrew(n) \/ NoticeInterrupted(n)

Finish == PassNode \/ FailNode \/ NodeThrows \/ \E i \in BOOLEAN : DeferFailure(i)

Coordinator ==
  \/ Schedule \/ InterruptSchedule \/ AllExecuted
  \/ StartNode \/ SkipNode \/ AbortNode \/ Finish
  \/ \E n \in Nodes : Notice(n)
  \/ InterruptWave
  \/ CompleteJob \/ GateFails \/ \E p \in {"execute", "verify"} : GateRepairs(p)

Sibling(n) ==
  \/ Begin(n) \/ Reserve(n) \/ Prepare(n)
  \/ \E o \in Outcomes : Settle(n, o)

Next == Coordinator \/ Abort \/ \E n \in Nodes : Sibling(n)

Spec == Init /\ [][Next]_vars

(* executeWorkflowDag goes on whenever it can: a node that runs alone ends   *)
(* by its phase timeout.  A node of a wave decides and finishes the local    *)
(* writes of its reservation, but its provider may hang.                     *)
LiveSpec ==
  /\ Spec
  /\ WF_vars(Coordinator)
  /\ \A n \in Nodes : WF_vars(Begin(n)) /\ WF_vars(Prepare(n))
-------------------------------------------------------------------------------
(* Properties.                                                               *)

Events == {"none", "started", "skipped", "completed", "failed", "cancelled"}

(* Types of the executor's state; the rounds of each loop stay within their  *)
(* limits (runVerificationRepairLoop, runCompletionRepairLoop).              *)
TypeOK ==
  /\ signal \in BOOLEAN /\ sealed \in BOOLEAN
  /\ step \in {"schedule", "node", "running", "wave", "gate", "ended"}
  /\ {resumed, executed, completed, starts} \subseteq SUBSET Nodes
  /\ {ToSet(todo), Wave, ToSet(noticed), ToSet(order)} \subseteq SUBSET Nodes
  /\ loop.kind \in {"none", "repair", "retry"}
  /\ loop.kind # "none" => loop.todo # <<>>
  /\ loop.round \in 0 .. Max({MaxRepairs, MaxRetries}) /\ gateRound \in 0 .. MaxGateRepairs
  /\ run \in [Nodes -> Outcomes \cup {"idle", "deciding", "running", "reserving", "prepared"}]
  /\ artifact \in [Nodes -> {"none", "reserved", "released", "published"}]
  /\ durable \in [Nodes -> Events]
  /\ validated \subseteq Verifiers
  /\ job \in {"running", "completed", "failed", "panicked"}

(* A completed job was verified as it is: whatever repairs and reruns went   *)
(* before, every verifier of the plan passed after the last executor, not    *)
(* only the one the completion gate compares with the candidate              *)
(* (runVerificationRepairLoop reruns the whole suffix).                      *)
CompletedIsVerified == job = "completed" => Verifiers \subseteq validated

(* Every node of a failed job is accounted for in its log: it completed, was *)
(* skipped, failed, or was cancelled, a node of the wave that still runs     *)
(* included (cancelUnexecutedNodes).  The exceptions are a verifier whose     *)
(* failure was deferred and whose loop then failed at another node, and a    *)
(* node that the job was to skip but did not come to.                        *)
CancellationReaches ==
  job = "failed" =>
    \A n \in Nodes \ (Verifiers \cup resumed) : durable[n] \notin {"none", "started"}

(* The log shows the nodes of a wave in plan order, whatever the order they  *)
(* finished in and however the wave ended (replayAndDiscardBufferedEffectGroups). *)
StableOrder ==
  \A i, j \in DOMAIN order :
    i < j /\ {order[i], order[j]} \subseteq Wave => Position(order[i]) < Position(order[j])

(* No review artifact outlives the wave that wrote it: one is public only if *)
(* its node completed, and once the wave is sealed a reservation is open     *)
(* only while prepareArtifactWrite, which gives it back itself, still runs   *)
(* (isolatedParallelNodeRun, discardBufferedEffects).                        *)
ArtifactsAccounted ==
  \A n \in Nodes :
    /\ artifact[n] = "published" => n \in completed
    /\ artifact[n] = "reserved" /\ (sealed \/ n \notin Wave) => run[n] = "reserving"

(* A wave does not wait for a node that hangs once one of its nodes failed   *)
(* or the job was aborted: the execution ends (Promise.race of the           *)
(* settlements and the abort notification).                                  *)
WaveReturns ==
  (step = "wave" /\ (signal \/ \E n \in Wave : run[n] \in Outcomes \ {"passed"}))
    ~> step = "ended"

(* The execution ends unless a provider of a wave hangs: repairs, retries    *)
(* and gate repairs run into each other without restarting each other's      *)
(* rounds for ever.                                                          *)
JobEnds == <>(step = "ended") \/ <>[](step = "wave")
===============================================================================
