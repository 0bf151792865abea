---------------------------- MODULE WorkerRegistry ----------------------------
(***************************************************************************)
(* The worker registry, the worker inbox (shared/orchestrator/             *)
(* worker-store.ts) and who writes them: the dispatching part of the hub's  *)
(* tick (reconciler.ts), the health check of its janitor and the exit      *)
(* handlers of its children (worker-supervisor.ts), and in each worker     *)
(* process the main loop and the heartbeat timer (managed-worker.ts).  The *)
(* tick's own reconcileWorkers is not here.                                *)
(*                                                                         *)
(* updateWorkerIf reads the registry record, compares it with what the     *)
(* caller expects and writes the whole record back, without a lock.  Read  *)
(* and write are two steps here: writes holds the record a caller has      *)
(* computed and not written yet.  A worker id belongs to one process       *)
(* (startWorker makes a new one), so the incarnation token in the          *)
(* expectations always matches and is left out.                            *)
(***************************************************************************)
EXTENDS Integers, FiniteSets

CONSTANTS
  Workers,      \* worker ids
  NoWorker,
  Attempts,     \* attempts the hub dispatches, each of its own assignment
  NoAttempt,
  MaxRestarts   \* MAX_RESTARTS

ASSUME RegistryAssumption ==
  /\ NoWorker \notin Workers /\ NoAttempt \notin Attempts
  /\ MaxRestarts \in Nat

VARIABLES
  registry,     \* registry/worker-<id>.json
  inbox,        \* inbox/<id>/*.json
  processing,   \* inbox/<id>/processing/*.json
  proc,         \* the worker process
  main,         \* main loop of the worker: where it is, its claims, its attempt
  writes,       \* the write each caller has prepared
  tick,         \* the hub's tick: where it is, for which worker and attempt
  start,        \* startWorker, by the id of the new worker
  parent,       \* the crashed worker a worker was started for
  janitor,      \* checkHealth: where it is, for which worker
  stops,        \* _pendingStops
  exit,         \* _handleChildExit of each child
  decided,      \* attempts with a published outcome
  finalized,    \* attempts whose worker the reconciler has finalized
  dispatched    \* attempts that were created

vars == <<registry, inbox, processing, proc, main, writes, tick, start, parent,
          janitor, stops, exit, decided, finalized, dispatched>>
hubVars == <<tick, janitor, stops, decided, finalized, dispatched>>
boxes == <<inbox, processing>>

Statuses == {"starting", "ready", "assigned", "running", "unhealthy", "exited",
             "restarting", "exhausted"}
Busy == {"assigned", "running"}
NonReusable == {"exited", "unhealthy"}

Record == [status : Statuses, attempt : Attempts \cup {NoAttempt},
           identified : BOOLEAN, stopped : BOOLEAN, restarts : 0 .. MaxRestarts]
NoRecord == [status |-> "none"]
Write == [worker : Workers, record : Record]
NoWrite == [worker |-> NoWorker]

\* who writes: the hub's tick and janitor, and per worker its start, its main
\* loop, its heartbeat and its exit handler
Callers == ({"tick", "janitor"} \X {NoWorker}) \cup ({"start", "main", "beat", "exit"} \X Workers)
TickCaller == <<"tick", NoWorker>>
JanitorCaller == <<"janitor", NoWorker>>

Init ==
  /\ registry = [w \in Workers |-> NoRecord]
  /\ inbox = [w \in Workers |-> {}] /\ processing = [w \in Workers |-> {}]
  /\ proc = [w \in Workers |-> "none"]
  /\ main = [w \in Workers |-> [at |-> "boot", claims |-> {}, attempt |-> NoAttempt, seen |-> NoRecord]]
  /\ writes = [c \in Callers |-> NoWrite]
  /\ tick = [at |-> "idle", worker |-> NoWorker, attempt |-> NoAttempt]
  /\ start = [w \in Workers |-> "none"] /\ parent = [w \in Workers |-> NoWorker]
  /\ janitor = [at |-> "idle", worker |-> NoWorker]
  /\ stops = {}
  /\ exit = [w \in Workers |-> [at |-> "none", deliberate |-> FALSE, restarts |-> 0]]
  /\ decided = {} /\ finalized = {} /\ dispatched = {}

-------------------------------------------------------------------------------
(* updateWorkerIf                                                           *)
Registered(w) == registry[w] # NoRecord
Holds(w, a, statuses) ==
  Registered(w) /\ registry[w].attempt = a /\ registry[w].status \in statuses

\* the caller has read the record of w and goes on with rec in its place
Prepare(c, w, rec) == writes' = [writes EXCEPT ![c] = [worker |-> w, record |-> rec]]

\* the record reaches the file, whatever was written since it was read
Commit(c) ==
  /\ writes[c] # NoWrite
  /\ registry' = [registry EXCEPT ![writes[c].worker] = writes[c].record]
  /\ writes' = [writes EXCEPT ![c] = NoWrite]

SetStatus(w, s) == [registry[w] EXCEPT !.status = s]
Release(w, s) == [registry[w] EXCEPT !.status = s, !.attempt = NoAttempt]

-------------------------------------------------------------------------------
(* WorkerSupervisor.startWorker.  The record is published before the spawn;  *)
(* the pid is added afterwards by a read and a write.                        *)
Fresh(w) == start[w] = "none" /\ ~Registered(w)

Register(w, restarts) ==
  /\ Fresh(w)
  /\ registry' = [registry EXCEPT ![w] = [status |-> "starting", attempt |-> NoAttempt,
                                          identified |-> FALSE, stopped |-> FALSE, restarts |-> restarts]]
  /\ start' = [start EXCEPT ![w] = "registered"]

Spawn(w) ==
  /\ start[w] = "registered"
  /\ start' = [start EXCEPT ![w] = "spawned"]
  /\ proc' = [proc EXCEPT ![w] = "alive"]
  /\ exit' = [exit EXCEPT ![w].at = "armed"]
  /\ UNCHANGED <<registry, boxes, main, writes, hubVars, parent>>

\* spawn throws or yields no pid: the record is closed and the caller gets the error
SpawnFails(w) ==
  /\ start[w] = "registered"
  /\ start' = [start EXCEPT ![w] = "failed"]
  /\ registry' = [registry EXCEPT ![w].status = "exited"]
  /\ UNCHANGED <<boxes, proc, main, writes, hubVars, parent, exit>>

\* the child runs but its identity cannot be captured: nobody watches its exit
SpawnUnidentified(w) ==
  /\ start[w] = "registered"
  /\ start' = [start EXCEPT ![w] = "failed"]
  /\ proc' = [proc EXCEPT ![w] = "alive"]
  /\ registry' = [registry EXCEPT ![w].status = "unhealthy"]
  /\ UNCHANGED <<boxes, main, writes, hubVars, parent, exit>>

ReadToPersist(w) ==
  /\ start[w] = "spawned"
  /\ start' = [start EXCEPT ![w] = "persisting"]
  /\ Prepare(<<"start", w>>, w, [registry[w] EXCEPT !.identified = TRUE])
  /\ UNCHANGED <<registry, boxes, proc, main, hubVars, parent, exit>>

Persist(w) ==
  /\ start[w] = "persisting"
  /\ Commit(<<"start", w>>)
  /\ start' = [start EXCEPT ![w] = "started"]
  /\ UNCHANGED <<boxes, proc, main, hubVars, parent, exit>>

-------------------------------------------------------------------------------
(* The hub's tick: dispatch of an attempt                                    *)
Idle(w) ==
  /\ Holds(w, NoAttempt, {"ready"})
  /\ inbox[w] \cup processing[w] = {}

TickAt(at, w, a) == tick' = [at |-> at, worker |-> w, attempt |-> a]
TickDone == TickAt("idle", NoWorker, NoAttempt)

(* findIdleWorker, or a new worker if there is none, and createAttempt.      *)
Choose(a) ==
  /\ tick.at = "idle" /\ a \notin dispatched
  /\ dispatched' = dispatched \cup {a}
  /\ \/ \E w \in Workers : Idle(w) /\ TickAt("chosen", w, a)
        /\ UNCHANGED <<registry, start>>
     \/ /\ \A w \in Workers : ~Idle(w)
        /\ \E w \in Workers : Register(w, 0) /\ TickAt("starting", w, a)
  /\ UNCHANGED <<boxes, proc, main, writes, parent, janitor, stops, exit, decided, finalized>>

StartReturns ==
  /\ tick.at = "starting"
  /\ \/ start[tick.worker] = "started" /\ TickAt("chosen", tick.worker, tick.attempt)
     \/ start[tick.worker] = "failed" /\ TickDone
  /\ UNCHANGED <<registry, boxes, proc, main, writes, start, parent, janitor, stops, exit,
                 decided, finalized, dispatched>>

(* The reservation, which expects a worker without an attempt; when it is    *)
(* refused the dispatch throws.                                              *)
ReadToReserve ==
  /\ tick.at = "chosen"
  /\ IF Holds(tick.worker, NoAttempt, {"starting", "ready"})
       THEN /\ Prepare(TickCaller, tick.worker,
                       [registry[tick.worker] EXCEPT !.status = "assigned", !.attempt = tick.attempt])
            /\ TickAt("reserving", tick.worker, tick.attempt)
       ELSE TickDone /\ UNCHANGED writes
  /\ UNCHANGED <<registry, boxes, proc, main, start, parent, janitor, stops, exit,
                 decided, finalized, dispatched>>

Reserve ==
  /\ tick.at = "reserving"
  /\ Commit(TickCaller)
  /\ TickAt("reserved", tick.worker, tick.attempt)
  /\ UNCHANGED <<boxes, proc, main, start, parent, janitor, stops, exit, decided, finalized, dispatched>>

WriteInbox ==
  /\ tick.at = "reserved"
  /\ inbox' = [inbox EXCEPT ![tick.worker] = @ \cup {tick.attempt}]
  /\ TickDone
  /\ UNCHANGED <<registry, processing, proc, main, writes, start, parent, janitor, stops, exit,
                 decided, finalized, dispatched>>

(* writeInbox throws: the reservation is given back if it is still there.    *)
ReadToCompensate ==
  /\ tick.at = "reserved"
  /\ IF Holds(tick.worker, tick.attempt, {"assigned"})
       THEN /\ Prepare(TickCaller, tick.worker, Release(tick.worker, "ready"))
            /\ TickAt("releasing", tick.worker, tick.attempt)
       ELSE TickDone /\ UNCHANGED writes
  /\ UNCHANGED <<registry, boxes, proc, main, start, parent, janitor, stops, exit,
                 decided, finalized, dispatched>>

(* The tick's reconciliation: an overdue attempt gets a synthetic failure,   *)
(* and _finalizeWorker releases the worker of a decided one.                 *)
Decide(a) ==
  /\ tick.at = "idle" /\ a \in dispatched \ decided
  /\ decided' = decided \cup {a}
  /\ UNCHANGED <<registry, boxes, proc, main, writes, tick, start, parent, janitor, stops, exit,
                 finalized, dispatched>>

ReadToFinalize(a, w) ==
  /\ tick.at = "idle" /\ a \in decided \ finalized
  /\ finalized' = finalized \cup {a}
  /\ Holds(w, a, Busy \cup NonReusable)
  /\ Prepare(TickCaller, w, Release(w, IF registry[w].status \in NonReusable
                                         THEN registry[w].status ELSE "ready"))
  /\ TickAt("releasing", w, a)
  /\ UNCHANGED <<registry, boxes, proc, main, start, parent, janitor, stops, exit,
                 decided, dispatched>>

\* ... or finds that it serves another attempt, or none, by now
FinalizeNothing(a) ==
  /\ tick.at = "idle" /\ a \in decided \ finalized
  /\ \A w \in Workers : ~Holds(w, a, Busy \cup NonReusable)
  /\ finalized' = finalized \cup {a}
  /\ UNCHANGED <<registry, boxes, proc, main, writes, tick, start, parent, janitor, stops, exit,
                 decided, dispatched>>

ReleaseWorker ==
  /\ tick.at = "releasing"
  /\ Commit(TickCaller)
  /\ TickDone
  /\ UNCHANGED <<boxes, proc, main, start, parent, janitor, stops, exit, decided, finalized, dispatched>>

-------------------------------------------------------------------------------
(* The worker process                                                        *)
Alive(w) == proc[w] = "alive"
MainAt(w, at) == main' = [main EXCEPT ![w].at = at]
WorkerCalls(w) == {<<"main", w>>, <<"beat", w>>}

\* the process ends: what it had prepared is never written
Ends(w) ==
  /\ proc' = [proc EXCEPT ![w] = "dead"]
  /\ main' = [main EXCEPT ![w] = [at |-> "gone", claims |-> {}, attempt |-> NoAttempt, seen |-> NoRecord]]

(* Startup reads its record, then activates it if it is still the same.      *)
Boot(w) ==
  /\ Alive(w) /\ main[w].at = "boot"
  /\ IF registry[w].status \in {"starting", "ready"} \cup Busy
       THEN main' = [main EXCEPT ![w].at = "booted", ![w].seen = registry[w]] /\ UNCHANGED proc
       ELSE Ends(w)
  /\ UNCHANGED <<registry, boxes, writes, hubVars, start, parent, exit>>

ReadToActivate(w) ==
  /\ Alive(w) /\ main[w].at = "booted"
  /\ IF Holds(w, main[w].seen.attempt, {main[w].seen.status})
       THEN /\ Prepare(<<"main", w>>, w,
                       [registry[w] EXCEPT !.identified = TRUE,
                                           !.status = IF @ = "starting" THEN "ready" ELSE @])
            /\ main' = [main EXCEPT ![w].at = "activating", ![w].seen = NoRecord]
            /\ UNCHANGED proc
       ELSE Ends(w) /\ UNCHANGED writes
  /\ UNCHANGED <<registry, boxes, hubVars, start, parent, exit>>

\* the write of the main loop, and where it goes on
MainWrites(w, from, to) ==
  /\ Alive(w) /\ main[w].at = from
  /\ Commit(<<"main", w>>)
  /\ MainAt(w, to)
  /\ UNCHANGED <<boxes, proc, hubVars, start, parent, exit>>

Activate(w) == MainWrites(w, "activating", "idle")

ClaimReserved(w) ==  \* mutant: messages are claimed only under a reservation
  /\ Alive(w) /\ main[w].at = "idle" /\ main[w].claims = {} /\ inbox[w] # {}
  /\ registry[w].status \in Busy
  /\ main' = [main EXCEPT ![w].claims = inbox[w]]
  /\ processing' = [processing EXCEPT ![w] = @ \cup inbox[w]]
  /\ inbox' = [inbox EXCEPT ![w] = {}]
  /\ UNCHANGED <<registry, proc, writes, hubVars, start, parent, exit>>

(* claimInboxEntries renames every message into processing.                  *)
Claim(w) ==
  /\ Alive(w) /\ main[w].at = "idle" /\ main[w].claims = {} /\ inbox[w] # {}
  /\ main' = [main EXCEPT ![w].claims = inbox[w]]
  /\ processing' = [processing EXCEPT ![w] = @ \cup inbox[w]]
  /\ inbox' = [inbox EXCEPT ![w] = {}]
  /\ UNCHANGED <<registry, proc, writes, hubVars, start, parent, exit>>

Discard(w, a) ==
  /\ main' = [main EXCEPT ![w].claims = @ \ {a}]
  /\ processing' = [processing EXCEPT ![w] = @ \ {a}]

(* processInbox: a message whose attempt is over, or for which the registry  *)
(* holds no reservation, is dropped; another one is taken up.                *)
ReadToAccept(w, a) ==
  /\ Alive(w) /\ main[w].at = "idle" /\ a \in main[w].claims
  /\ IF a \notin decided /\ Holds(w, a, Busy)
       THEN /\ Prepare(<<"main", w>>, w, SetStatus(w, "running"))
            /\ main' = [main EXCEPT ![w].at = "accepting", ![w].attempt = a, ![w].claims = @ \ {a}]
            /\ UNCHANGED processing
       ELSE Discard(w, a) /\ UNCHANGED writes
  /\ UNCHANGED <<registry, inbox, proc, hubVars, start, parent, exit>>

Accept(w) == MainWrites(w, "accepting", "executing")

(* The outcome is published and the message acknowledged, if the lease guard *)
(* still finds the reservation and the attempt open.                         *)
Publish(w) ==
  LET a == main[w].attempt IN
  /\ Alive(w) /\ main[w].at = "executing"
  /\ a \notin decided /\ Holds(w, a, Busy)
  /\ decided' = decided \cup {a}
  /\ processing' = [processing EXCEPT ![w] = @ \ {a}]
  /\ MainAt(w, "published")
  /\ UNCHANGED <<registry, inbox, proc, writes, tick, janitor, stops, finalized, dispatched, start, parent, exit>>

(* ... otherwise ownership is lost and the worker shuts down.                *)
ReadToShutdown(w) ==
  LET a == main[w].attempt IN
  /\ Alive(w)
  /\ \/ main[w].at = "executing" /\ (a \in decided \/ ~Holds(w, a, Busy))
     \/ main[w].at = "idle" /\ main[w].claims = {} /\ inbox[w] \cup processing[w] = {}
  /\ Prepare(<<"main", w>>, w, [SetStatus(w, "exited") EXCEPT !.stopped = @ \/ main[w].at = "idle"])
  /\ MainAt(w, "leaving")
  /\ UNCHANGED <<registry, boxes, proc, hubVars, start, parent, exit>>

Shutdown(w) ==
  /\ Alive(w) /\ main[w].at = "leaving"
  /\ registry' = [registry EXCEPT ![w] = writes[<<"main", w>>].record]
  /\ writes' = [c \in Callers |-> IF c \in WorkerCalls(w) THEN NoWrite ELSE writes[c]]
  /\ Ends(w)
  /\ UNCHANGED <<boxes, hubVars, start, parent, exit>>

ReadToGoIdle(w) ==
  LET a == main[w].attempt IN
  /\ Alive(w) /\ main[w].at = "published"
  /\ main' = [main EXCEPT ![w].at = IF Holds(w, a, Busy) THEN "releasing" ELSE "idle", ![w].attempt = NoAttempt]
  /\ IF Holds(w, a, Busy) THEN Prepare(<<"main", w>>, w, Release(w, "ready")) ELSE UNCHANGED writes
  /\ UNCHANGED <<registry, boxes, proc, hubVars, start, parent, exit>>

GoIdle(w) == MainWrites(w, "releasing", "idle")

\* the heartbeat timer: it changes nothing but the time stamp, and writes the
\* whole record
ReadToBeat(w) ==
  /\ Alive(w) /\ main[w].at \notin {"boot", "booted", "activating", "leaving"}
  /\ writes[<<"beat", w>>] = NoWrite
  /\ Prepare(<<"beat", w>>, w, registry[w])
  /\ UNCHANGED <<registry, boxes, proc, main, hubVars, start, parent, exit>>

Beat(w) ==
  /\ Alive(w)
  /\ Commit(<<"beat", w>>)
  /\ UNCHANGED <<boxes, proc, main, hubVars, start, parent, exit>>

Crash(w) ==
  /\ Alive(w)
  /\ Ends(w)
  /\ writes' = [c \in Callers |-> IF c \in WorkerCalls(w) THEN NoWrite ELSE writes[c]]
  /\ UNCHANGED <<registry, boxes, hubVars, start, parent, exit>>

-------------------------------------------------------------------------------
(* The janitor: checkHealth works on a snapshot of the registry              *)
JanitorAt(at, w) == janitor' = [at |-> at, worker |-> w]
CheckedInUse == {"unhealthy"} \cup Busy  \* mutant: an idle worker's heartbeat is not looked at

Checked == {"ready", "unhealthy"} \cup Busy \cup {"restarting", "exhausted"}

(* A heartbeat older than a minute: the process is gone, or stalled.         *)
ReadToMarkUnhealthy(w) ==
  /\ janitor.at = "idle" /\ Registered(w)
  /\ registry[w].status \in Checked
  /\ Prepare(JanitorCaller, w, SetStatus(w, "unhealthy"))
  /\ JanitorAt("marking", w)
  /\ UNCHANGED <<registry, boxes, proc, main, tick, stops, decided, finalized, dispatched, start, parent, exit>>

MarkUnhealthy ==
  /\ janitor.at = "marking"
  /\ Commit(JanitorCaller)
  /\ JanitorAt("idle", NoWorker)
  /\ UNCHANGED <<boxes, proc, main, tick, stops, decided, finalized, dispatched, start, parent, exit>>

SeeIdle(w) ==
  /\ janitor.at = "idle" /\ Holds(w, NoAttempt, {"ready"})
  /\ JanitorAt("stop", w)
  /\ UNCHANGED <<registry, boxes, proc, main, writes, tick, stops, decided, finalized, dispatched, start, parent, exit>>

(* stopWorker reads the record again, but only to refuse a finished worker or *)
(* one whose process identity is not recorded.                               *)
BeginStop ==
  /\ janitor.at = "stop"
  /\ IF registry[janitor.worker].status \in {"exited", "exhausted"} \/ ~registry[janitor.worker].identified
       THEN JanitorAt("idle", NoWorker) /\ UNCHANGED stops
       ELSE JanitorAt("kill", janitor.worker) /\ stops' = stops \cup {janitor.worker}
  /\ UNCHANGED <<registry, boxes, proc, main, writes, tick, decided, finalized, dispatched, start, parent, exit>>

Kill ==
  LET w == janitor.worker IN
  /\ janitor.at = "kill"
  /\ IF Alive(w)
       THEN /\ Ends(w)
            /\ writes' = [c \in Callers |-> IF c \in WorkerCalls(w) THEN NoWrite ELSE writes[c]]
            /\ JanitorAt("mark", w) /\ UNCHANGED stops
       ELSE /\ JanitorAt("idle", NoWorker) /\ stops' = stops \ {w}
            /\ UNCHANGED <<proc, main, writes>>
  /\ UNCHANGED <<registry, boxes, tick, decided, finalized, dispatched, start, parent, exit>>

ReadToStop ==
  LET w == janitor.worker IN
  /\ janitor.at = "mark"
  /\ Prepare(JanitorCaller, w, [SetStatus(w, "exited") EXCEPT !.stopped = TRUE])
  /\ JanitorAt("stopping", w)
  /\ UNCHANGED <<registry, boxes, proc, main, tick, stops, decided, finalized, dispatched, start, parent, exit>>

Stop ==
  /\ janitor.at = "stopping"
  /\ Commit(JanitorCaller)
  /\ stops' = stops \ {janitor.worker}
  /\ JanitorAt("idle", NoWorker)
  /\ UNCHANGED <<boxes, proc, main, tick, decided, finalized, dispatched, start, parent, exit>>

-------------------------------------------------------------------------------
(* _handleChildExit                                                          *)
ExitAt(w, at) == exit' = [exit EXCEPT ![w].at = at]

(* The record is read; whether the exit was deliberate is decided from it    *)
(* and from _pendingStops, after the await.  An exit before the identity was  *)
(* recorded is ignored.                                                      *)
SeeExit(w) ==
  /\ exit[w].at = "armed" /\ proc[w] = "dead"
  /\ exit' = [exit EXCEPT ![w] = [at |-> IF registry[w].identified THEN "seen" ELSE "done",
                                  deliberate |-> registry[w].stopped,
                                  restarts |-> registry[w].restarts]]
  /\ UNCHANGED <<registry, boxes, proc, main, writes, hubVars, start, parent>>

ReadToExit(w) ==
  /\ exit[w].at = "seen"
  /\ exit' = [exit EXCEPT ![w].at = "exiting", ![w].deliberate = @ \/ w \in stops]
  /\ Prepare(<<"exit", w>>, w, SetStatus(w, "exited"))
  /\ UNCHANGED <<registry, boxes, proc, main, hubVars, start, parent>>

ExitWrites(w, from, to) ==
  /\ exit[w].at = from
  /\ Commit(<<"exit", w>>)
  /\ ExitAt(w, to)
  /\ UNCHANGED <<boxes, proc, main, hubVars, start, parent>>

MarkExited(w) == ExitWrites(w, "exiting", IF exit[w].deliberate THEN "done" ELSE "crashed")

MayRestartOnceMore(w) == exit[w].restarts <= MaxRestarts  \* mutant: off by one

MayRestart(w) == exit[w].restarts < MaxRestarts

ReadToRestart(w) ==
  /\ exit[w].at = "crashed"
  /\ IF MayRestart(w)
       THEN /\ Prepare(<<"exit", w>>, w, [SetStatus(w, "restarting") EXCEPT !.restarts = exit[w].restarts + 1])
            /\ ExitAt(w, "restarting")
       ELSE /\ Prepare(<<"exit", w>>, w, SetStatus(w, "exhausted"))
            /\ ExitAt(w, "giving up")
  /\ UNCHANGED <<registry, boxes, proc, main, hubVars, start, parent>>

MarkRestarting(w) == ExitWrites(w, "restarting", "restart")
MarkExhausted(w) == ExitWrites(w, "giving up", "done")

RestartUncounted(w, next) ==  \* mutant: the new worker starts with a fresh budget
  /\ exit[w].at = "restart"
  /\ Register(next, 0)
  /\ parent' = [parent EXCEPT ![next] = w]
  /\ ExitAt(w, "started")
  /\ UNCHANGED <<boxes, proc, main, writes, hubVars>>

(* startWorker for the crashed worker: a new id, the incremented count.      *)
Restart(w, next) ==
  /\ exit[w].at = "restart"
  /\ Register(next, exit[w].restarts + 1)
  /\ parent' = [parent EXCEPT ![next] = w]
  /\ ExitAt(w, "started")
  /\ UNCHANGED <<boxes, proc, main, writes, hubVars>>

RestartFails(w) ==
  /\ exit[w].at = "started"
  /\ \E next \in Workers : parent[next] = w /\ start[next] = "failed"
  /\ Prepare(<<"exit", w>>, w, SetStatus(w, "exhausted"))
  /\ ExitAt(w, "giving up")
  /\ UNCHANGED <<registry, boxes, proc, main, hubVars, start, parent>>

-------------------------------------------------------------------------------
StartSteps(w) == Spawn(w) \/ SpawnFails(w) \/ SpawnUnidentified(w) \/ ReadToPersist(w) \/ Persist(w)
Dispatch == StartReturns \/ ReadToReserve \/ Reserve \/ WriteInbox \/ ReadToCompensate \/ ReleaseWorker
Tick == Dispatch \/ \E a \in Attempts : Choose(a) \/ Decide(a) \/ FinalizeNothing(a) \/ \E w \in Workers : ReadToFinalize(a, w)
MainLoop(w) ==
  \/ Boot(w) \/ ReadToActivate(w) \/ Activate(w) \/ Claim(w) \/ Accept(w)
  \/ Publish(w) \/ ReadToGoIdle(w) \/ GoIdle(w) \/ Shutdown(w)
  \/ \E a \in Attempts : ReadToAccept(w, a)
Janitor ==
  \/ MarkUnhealthy \/ BeginStop \/ Kill \/ ReadToStop \/ Stop
  \/ \E w \in Workers : ReadToMarkUnhealthy(w) \/ SeeIdle(w)
ExitHandler(w) ==
  \/ SeeExit(w) \/ ReadToExit(w) \/ MarkExited(w) \/ ReadToRestart(w)
  \/ MarkRestarting(w) \/ MarkExhausted(w) \/ RestartFails(w)
  \/ \E next \in Workers : Restart(w, next)

Next ==
  \/ Tick \/ Janitor
  \/ \E w \in Workers :
       \/ StartSteps(w) \/ MainLoop(w) \/ ReadToShutdown(w) \/ ReadToBeat(w) \/ Beat(w)
       \/ Crash(w) \/ ExitHandler(w)

Spec == Init /\ [][Next]_vars

-------------------------------------------------------------------------------
TypeOK ==
  /\ registry \in [Workers -> Record \cup {NoRecord}]
  /\ inbox \in [Workers -> SUBSET Attempts] /\ processing \in [Workers -> SUBSET Attempts]
  /\ proc \in [Workers -> {"none", "alive", "dead"}]
  /\ writes \in [Callers -> Write \cup {NoWrite}]
  /\ \A c \in Callers : writes[c] # NoWrite => Registered(writes[c].worker)
  /\ finalized \subseteq decided /\ decided \subseteq dispatched /\ dispatched \subseteq Attempts

\* A crashed task starts at most MAX_RESTARTS workers one after the other, and
\* the last of them is not marked for another restart when it crashes too.
Depth ==
  LET depth[w \in Workers] == IF parent[w] = NoWorker THEN 0 ELSE 1 + depth[parent[w]]
  IN depth
RestartsBounded ==
  \A w \in Workers :
    /\ Depth[w] <= MaxRestarts
    /\ Depth[w] = MaxRestarts => registry[w].status # "restarting"

-------------------------------------------------------------------------------
(* Fairness: the tick's timer is armed again after each tick, the janitor's  *)
(* interval visits every worker, the exit event of a child arrives, and a    *)
(* living worker polls its inbox.  Nothing makes a worker exit, stall or     *)
(* send heartbeats, nor a heartbeat of a living process go stale.            *)
Fairness ==
  /\ WF_vars(Dispatch)
  /\ \A w \in Workers :
       /\ WF_vars(StartSteps(w)) /\ WF_vars(ExitHandler(w)) /\ WF_vars(MainLoop(w))
       /\ WF_vars(MarkUnhealthy \/ BeginStop \/ Kill \/ ReadToStop \/ Stop)
       /\ SF_vars(ReadToMarkUnhealthy(w) /\ proc[w] = "dead")
LiveSpec == Spec /\ Fairness

\* A worker that has died does not stay on offer: its exit handler or the stale
\* heartbeat retires its record for good, also if a write prepared before its
\* death comes after that.
DeadNotOffered ==
  \A w \in Workers : proc[w] = "dead" ~> [](~Holds(w, NoAttempt, {"ready"}))

\* A message is taken from the inbox of a worker that lives, reserved or not.
MessagesTaken ==
  \A w \in Workers, a \in Attempts : a \in inbox[w] ~> (a \notin inbox[w] \/ ~Alive(w))
===============================================================================
