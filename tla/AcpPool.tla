-------------------------------- MODULE AcpPool --------------------------------
(***************************************************************************)
(* The ACP pools (server/services/acp/acp-pool.ts): one pool per process,  *)
(* several processes that share the provider's connection leases.          *)
(*                                                                         *)
(* A request takes a slot of its pool (acquire), runs on the pool's        *)
(* persistent client or on a process of its own, and gives the slot back   *)
(* (execute).  A client and a one-shot child are known by the request that *)
(* spawned them.  A process runs one callback at a time: an action is what *)
(* it does between two awaits.  The connection lock serializes the lease   *)
(* files of all processes, so counting the live leases and adding one is   *)
(* one step.                                                               *)
(*                                                                         *)
(* One provider; the persistent requests of a pool share a client key.     *)
(***************************************************************************)
EXTENDS Integers, Sequences, FiniteSets

CONSTANTS
  Pools,      \* processes with a pool
  Requests,
  None,
  PoolOf,     \* the pool a request is made to
  KindOf,     \* persistent client, Claude CLI child, or one-shot ACP child
  Limit,      \* providerConnectionLimit, of a pool and of the shared leases
  Stoppable,  \* bound: the pools that may be stopped
  Mortal,     \* bound: the processes that may die
  Failing,    \* bound: the closes that may fail, by their caller
  Overlapping \* bound: the pools that may be stopped while a job is released

Kinds == {"persistent", "cli", "one-shot"}

ASSUME PoolAssumption ==
  /\ None \notin Requests /\ IsFiniteSet(Requests)
  /\ PoolOf \in [Requests -> Pools] /\ KindOf \in [Requests -> Kinds]
  /\ Limit \in Nat \ {0}

VARIABLES
  pc,        \* where execute is, per request
  slots,     \* activeProviders
  live,      \* liveRequests
  queue,     \* pending
  tail,      \* persistentChains: the last request of the chain
  prior,     \* the request a chained request waits for
  mapped,    \* persistentClients: the client under the key
  using,     \* the client a request prompts
  proc,      \* the provider process a request spawned
  leases,    \* the lease files, by the request that acquired them
  closer,    \* the calls of #closePersistentClient under way
  early,     \* history: the clients closed before their child was spawned
  stop,      \* stop() of each pool
  crashed    \* processes that died

vars == <<pc, slots, live, queue, tail, prior, mapped, using, proc,
          leases, closer, early, stop, crashed>>
slotVars == <<slots, live, queue>>
chainVars == <<tail, prior>>
clientVars == <<mapped, using, proc, leases, closer, early>>

Phases == {"new", "queued", "granted", "recycling", "prepared", "chained", "replacing",
           "leasing", "leased", "starting", "abandoning", "prompting",
           "tearing", "returning", "failed", "dropping", "finished", "done"}

Closers == ({"request"} \X Requests) \cup ({"job", "stop"} \X Pools)
Idle == [client |-> None, at |-> "idle"]

Persistent(r) == KindOf[r] = "persistent"
Alive(r) == ~crashed[PoolOf[r]]
Running(c) == proc[c] \in {"starting", "running"}
OneShots(p) == {r \in Requests : PoolOf[r] = p /\ ~Persistent(r)}

Go(r, from, to) == Alive(r) /\ pc[r] = from /\ pc' = [pc EXCEPT ![r] = to]

Init ==
  /\ pc = [r \in Requests |-> "new"]
  /\ slots = [p \in Pools |-> 0] /\ live = [p \in Pools |-> {}] /\ queue = [p \in Pools |-> <<>>]
  /\ tail = [p \in Pools |-> None] /\ prior = [r \in Requests |-> None]
  /\ mapped = [p \in Pools |-> None] /\ using = [r \in Requests |-> None]
  /\ proc = [r \in Requests |-> "none"]
  /\ leases = {}
  /\ closer = [x \in Closers |-> Idle] /\ early = {}
  /\ stop = [p \in Pools |-> "no"] /\ crashed = [p \in Pools |-> FALSE]

-------------------------------------------------------------------------------
(* Slots of the pool.                                                        *)

Acquire(r) ==
  LET p == PoolOf[r] IN
  /\ \/ /\ slots[p] < Limit
        /\ Go(r, "new", "granted")
        /\ slots' = [slots EXCEPT ![p] = @ + 1] /\ live' = [live EXCEPT ![p] = @ \cup {r}]
        /\ UNCHANGED queue
     \/ /\ slots[p] >= Limit
        /\ Go(r, "new", "queued")
        /\ queue' = [queue EXCEPT ![p] = Append(@, r)]
        /\ UNCHANGED <<slots, live>>
  /\ UNCHANGED <<chainVars, clientVars, stop, crashed>>

Spliced(s, i) == [j \in 1 .. Len(s) - 1 |-> IF j < i THEN s[j] ELSE s[j + 1]]

(* The wait timeout, or the caller's signal.                                 *)
GiveUpSlot(r) ==
  /\ Go(r, "queued", "done")
  /\ \E i \in DOMAIN queue[PoolOf[r]] :
       /\ queue[PoolOf[r]][i] = r
       /\ queue' = [queue EXCEPT ![PoolOf[r]] = Spliced(@, i)]
  /\ UNCHANGED <<slots, live, chainVars, clientVars, stop, crashed>>

FreedBelow(n) == n - 1  \* mutant: no floor

\* the count never falls below zero, also after stop has cleared it
Freed(n) == IF n > 0 THEN n - 1 ELSE 0

ReleaseUncounted(r) ==  \* mutant: the slot handed on is not counted
  LET p == PoolOf[r] IN
  /\ Alive(r) /\ pc[r] = "finished"
  /\ slots' = [slots EXCEPT ![p] = Freed(@)]
  /\ IF queue[p] = <<>>
       THEN /\ live' = [live EXCEPT ![p] = @ \ {r}] /\ pc' = [pc EXCEPT ![r] = "done"]
            /\ UNCHANGED queue
       ELSE /\ live' = [live EXCEPT ![p] = (@ \ {r}) \cup {Head(queue[p])}]
            /\ queue' = [queue EXCEPT ![p] = Tail(@)]
            /\ pc' = [pc EXCEPT ![r] = "done", ![Head(queue[p])] = "granted"]
  /\ UNCHANGED <<chainVars, clientVars, stop, crashed>>

ReleaseSilently(r) ==  \* mutant: the next waiter is not woken
  LET p == PoolOf[r] IN
  /\ Go(r, "finished", "done")
  /\ slots' = [slots EXCEPT ![p] = Freed(@)] /\ live' = [live EXCEPT ![p] = @ \ {r}]
  /\ UNCHANGED <<queue, chainVars, clientVars, stop, crashed>>

(* release: the slot goes to the first waiter.                               *)
Release(r) ==
  LET p == PoolOf[r] IN
  /\ Alive(r) /\ pc[r] = "finished"
  /\ IF queue[p] = <<>>
       THEN /\ slots' = [slots EXCEPT ![p] = Freed(@)]
            /\ live' = [live EXCEPT ![p] = @ \ {r}]
            /\ pc' = [pc EXCEPT ![r] = "done"]
            /\ UNCHANGED queue
       ELSE /\ slots' = [slots EXCEPT ![p] = Freed(@) + 1]
            /\ live' = [live EXCEPT ![p] = (@ \ {r}) \cup {Head(queue[p])}]
            /\ queue' = [queue EXCEPT ![p] = Tail(@)]
            /\ pc' = [pc EXCEPT ![r] = "done", ![Head(queue[p])] = "granted"]
  /\ UNCHANGED <<chainVars, clientVars, stop, crashed>>

-------------------------------------------------------------------------------
(* #closePersistentClient: it takes the client that is under the key, waits  *)
(* for its close, returns its lease, and deletes the key.                    *)

Closing(x, c) == closer' = [closer EXCEPT ![x] = [client |-> c, at |-> "begin"]]

\* r closes what is under the key and goes on, at once if nothing is there
CloseMapped(r, during, after) ==
  IF mapped[PoolOf[r]] = None
    THEN pc' = [pc EXCEPT ![r] = after] /\ UNCHANGED closer
    ELSE pc' = [pc EXCEPT ![r] = during] /\ Closing(<<"request", r>>, mapped[PoolOf[r]])

OwnerAlive(x) == IF x[1] = "request" THEN Alive(x[2]) ELSE ~crashed[x[2]]
PoolOfCloser(x) == IF x[1] = "request" THEN PoolOf[x[2]] ELSE x[2]
Reached(x, at) == OwnerAlive(x) /\ closer[x].at = at

\* mutant: the lease is given back before the process is gone
EndInputReturningLease(x) ==
  LET c == closer[x].client IN
  /\ Reached(x, "begin") /\ proc[c] \notin {"booting", "gone"}
  /\ closer' = [closer EXCEPT ![x].at = "waiting"]
  /\ proc' = [proc EXCEPT ![c] = "closing"]
  /\ leases' = leases \ {c}
  /\ UNCHANGED <<pc, slotVars, chainVars, mapped, using, early, stop, crashed>>

(* client.close: without a child it has nothing to wait for, also while start *)
(* is on its way to spawn one.  Otherwise it has ended the session and ends   *)
(* the input of the process; up to here the client looks usable.              *)
EndInput(x) ==
  LET c == closer[x].client IN
  /\ Reached(x, "begin")
  /\ IF proc[c] \in {"booting", "gone"}
       THEN /\ closer' = [closer EXCEPT ![x].at = "childless"]
            /\ early' = IF proc[c] = "booting" THEN early \cup {c} ELSE early
            /\ UNCHANGED proc
       ELSE /\ closer' = [closer EXCEPT ![x].at = "waiting"]
            /\ proc' = [proc EXCEPT ![c] = "closing"]
            /\ UNCHANGED early
  /\ UNCHANGED <<pc, slotVars, chainVars, mapped, using, leases, stop, crashed>>

AfterClose == [recycling |-> "prepared", replacing |-> "leasing", abandoning |-> "failed",
               tearing |-> "failed", dropping |-> "finished"]
AfterFailure(at) == IF at = "dropping" THEN "finished" ELSE "failed"

\* the call is over and its caller goes on; with a failure, by its error path
CloseEnds(x, failed) ==
  /\ closer' = [closer EXCEPT ![x] = Idle]
  /\ pc' = IF x[1] = "request"
              THEN [pc EXCEPT ![x[2]] = IF failed THEN AfterFailure(@) ELSE AfterClose[@]]
              ELSE pc
  /\ stop' = IF x[1] = "stop" /\ failed THEN [stop EXCEPT ![x[2]] = "failed"] ELSE stop

Closed(x) == \/ Reached(x, "childless")
             \/ Reached(x, "waiting") /\ proc[closer[x].client] = "gone"

(* The lease is retired under the lock, now or later, and the key deleted,   *)
(* whichever client it has by now.  Saving the session may have failed.      *)
Retire(x) ==
  /\ Closed(x)
  /\ leases' = leases \ {closer[x].client}
  /\ mapped' = [mapped EXCEPT ![PoolOfCloser(x)] = None]
  /\ \E failed \in {FALSE, (x \in Failing)} : CloseEnds(x, failed)
  /\ UNCHANGED <<slotVars, chainVars, using, proc, early, crashed>>

(* Retiring the lease fails, before or after its file has been renamed: the  *)
(* key stays.                                                                *)
RetireFails(x) ==
  /\ x \in Failing /\ Closed(x)
  /\ leases' \in {leases, leases \ {closer[x].client}}
  /\ CloseEnds(x, TRUE)
  /\ UNCHANGED <<slotVars, chainVars, mapped, using, proc, early, crashed>>

(* client.close throws: it could not verify that the processes are gone.     *)
(* The lease and the key stay.                                               *)
CloseFails(x) ==
  /\ x \in Failing /\ OwnerAlive(x) /\ closer[x].at # "idle"
  /\ CloseEnds(x, TRUE)
  /\ UNCHANGED <<slotVars, chainVars, mapped, using, proc, leases, early, crashed>>

-------------------------------------------------------------------------------
(* execute and #prepareSession: a session record that is used up or too old  *)
(* closes the client under the key, whoever uses it.                         *)

Abandon(r) ==  \* the signal has been aborted since
  /\ Go(r, "granted", "finished")
  /\ UNCHANGED <<slotVars, chainVars, clientVars, stop, crashed>>

SkipChain(r) ==  \* a child of its own
  /\ ~Persistent(r)
  /\ Go(r, "granted", "leasing")
  /\ UNCHANGED <<slotVars, chainVars, clientVars, stop, crashed>>

RecycleSession(r) ==
  /\ Alive(r) /\ Persistent(r) /\ pc[r] = "granted" /\ tail[PoolOf[r]] # None
  /\ \/ CloseMapped(r, "recycling", "prepared")
     \/ pc' = [pc EXCEPT ![r] = "failed"] /\ UNCHANGED closer  \* saving the session fails
  /\ UNCHANGED <<slotVars, chainVars, mapped, using, proc, leases, early, stop, crashed>>

(* execute's catch: an abort goes through, any other error recycles; the key *)
(* of a request with a child of its own has no client.                       *)
Caught(r) ==
  /\ Alive(r) /\ pc[r] = "failed"
  /\ \/ pc' = [pc EXCEPT ![r] = "finished"] /\ UNCHANGED closer
     \/ Persistent(r) /\ CloseMapped(r, "dropping", "finished")
  /\ UNCHANGED <<slotVars, chainVars, mapped, using, proc, leases, early, stop, crashed>>

-------------------------------------------------------------------------------
(* #runPersistent: requests of a key form a chain of promises.               *)

(* The session record is there or made, and the request joins the chain: so  *)
(* a pool has a session record when tail is set.                             *)
Chain(r) ==
  LET p == PoolOf[r] IN
  /\ Persistent(r) /\ (Go(r, "granted", "chained") \/ Go(r, "prepared", "chained"))
  /\ prior' = [prior EXCEPT ![r] = tail[p]] /\ tail' = [tail EXCEPT ![p] = r]
  /\ UNCHANGED <<slotVars, clientVars, stop, crashed>>

\* the requests whose run has been settled, either way
Settled == {r \in Requests : pc[r] \in {"failed", "dropping", "finished", "done"}}

(* The chain wait times out, or the signal is aborted: the run is rejected.  *)
GiveUpChain(r) ==
  /\ Go(r, "chained", "failed")
  /\ prior' = [prior EXCEPT ![r] = None]
  /\ UNCHANGED <<slotVars, tail, clientVars, stop, crashed>>

(* Its turn: #getPersistentClient reuses, replaces or spawns.                *)
GetClient(r) ==
  LET c == mapped[PoolOf[r]] IN
  /\ Alive(r) /\ pc[r] = "chained" /\ prior[r] \in Settled \cup {None}
  /\ IF c # None /\ Running(c)
       THEN /\ pc' = [pc EXCEPT ![r] = "prompting"] /\ using' = [using EXCEPT ![r] = c]
            /\ UNCHANGED closer
       ELSE CloseMapped(r, "replacing", "leasing") /\ UNCHANGED using
  /\ prior' = [prior EXCEPT ![r] = None]
  /\ UNCHANGED <<slotVars, tail, mapped, proc, leases, early, stop, crashed>>

-------------------------------------------------------------------------------
(* Connection leases and processes.                                          *)

LiveLeases == {l \in leases : Alive(l)}

(* #tryAcquireConnectionLease, under the lock: leases of dead processes are  *)
(* retired.                                                                  *)
AcquireLease(r) ==
  /\ stop[PoolOf[r]] = "no" /\ Cardinality(LiveLeases) < Limit
  /\ Go(r, "leasing", "leased")
  /\ leases' = LiveLeases \cup {r}
  /\ UNCHANGED <<slotVars, chainVars, mapped, using, proc, closer, early, stop, crashed>>

(* The wait timeout, the signal, or the pool has been stopped.               *)
LeaseFails(r) ==
  /\ Go(r, "leasing", "failed")
  /\ UNCHANGED <<slotVars, chainVars, clientVars, stop, crashed>>

(* Only the Claude CLI looks once more whether the pool has been stopped.    *)
SpawnChild(r) ==
  /\ ~Persistent(r) /\ (KindOf[r] = "cli" => stop[PoolOf[r]] = "no")
  /\ Go(r, "leased", "prompting")
  /\ proc' = [proc EXCEPT ![r] = "running"] /\ using' = [using EXCEPT ![r] = r]
  /\ UNCHANGED <<slotVars, chainVars, mapped, leases, closer, early, stop, crashed>>

(* The client is put under the key, and its start begins.                    *)
Register(r) ==
  /\ Persistent(r) /\ Go(r, "leased", "starting")
  /\ proc' = [proc EXCEPT ![r] = "booting"] /\ mapped' = [mapped EXCEPT ![PoolOf[r]] = r]
  /\ UNCHANGED <<slotVars, chainVars, using, leases, closer, early, stop, crashed>>

(* start has made the home of the agent and written the audit, and spawns, or *)
(* fails before; nobody tells it that its client has been closed since.       *)
Boot(r) ==
  /\ Alive(r) /\ proc[r] = "booting"
  /\ \E at \in {"starting", "gone"} : proc' = [proc EXCEPT ![r] = at]
  /\ UNCHANGED <<pc, slotVars, chainVars, mapped, using, leases, closer, early, stop, crashed>>

(* The signal is aborted, or the gate of the Claude CLI is shut.             *)
AbandonSpawn(r) ==
  /\ Go(r, "leased", "returning")
  /\ UNCHANGED <<slotVars, chainVars, clientVars, stop, crashed>>

(* Retiring it may fail, before or after its file has been renamed.          *)
ReturnLease(r) ==
  /\ Go(r, "returning", "failed")
  /\ \/ leases' = leases \ {r}
     \/ <<"request", r>> \in Failing /\ UNCHANGED leases
  /\ UNCHANGED <<slotVars, chainVars, mapped, using, proc, closer, early, stop, crashed>>

Started(r) ==
  /\ proc[r] = "starting"
  /\ Go(r, "starting", "prompting")
  /\ proc' = [proc EXCEPT ![r] = "running"] /\ using' = [using EXCEPT ![r] = r]
  /\ UNCHANGED <<slotVars, chainVars, mapped, leases, closer, early, stop, crashed>>

(* start has thrown, or the signal is aborted and start goes on behind: it    *)
(* closes its own client here, not what is under the key.                     *)
StartFails(r) ==
  /\ Go(r, "starting", "abandoning")
  /\ Closing(<<"request", r>>, r)
  /\ UNCHANGED <<slotVars, chainVars, mapped, using, proc, leases, early, stop, crashed>>

(* A process exits by itself, or because it is being closed.                 *)
ProcessGone(c) ==
  /\ proc[c] \in {"starting", "running", "closing"}
  /\ proc' = [proc EXCEPT ![c] = "gone"]
  /\ UNCHANGED <<pc, slotVars, chainVars, mapped, using, leases, closer, early, stop, crashed>>

Answered(r) ==
  /\ Persistent(r) /\ Go(r, "prompting", "finished")
  /\ proc[using[r]] = "running"
  /\ using' = [using EXCEPT ![r] = None]
  /\ UNCHANGED <<slotVars, chainVars, mapped, proc, leases, closer, early, stop, crashed>>

(* Timeout, abort or error: beginTeardown closes what is under the key.      *)
PromptFails(r) ==
  /\ Alive(r) /\ Persistent(r) /\ pc[r] = "prompting"
  /\ CloseMapped(r, "tearing", "failed")
  /\ using' = [using EXCEPT ![r] = None]
  /\ UNCHANGED <<slotVars, chainVars, mapped, proc, leases, early, stop, crashed>>

(* The child has exited, or it is timed out or aborted: then the caller goes *)
(* on at once and the termination in the background.                         *)
ChildEnds(r) ==
  /\ ~Persistent(r)
  /\ Go(r, "prompting", "returning")
  /\ proc' = [proc EXCEPT ![r] = IF @ = "gone" THEN @ ELSE "closing"]
  /\ using' = [using EXCEPT ![r] = None]
  /\ UNCHANGED <<slotVars, chainVars, mapped, leases, closer, early, stop, crashed>>

-------------------------------------------------------------------------------
(* The end of a job, of the pool, of the process.                            *)

(* releaseJob, and releaseWorktree with closeProvider.                       *)
ReleaseJob(p) ==
  /\ ~crashed[p] /\ mapped[p] # None /\ closer[<<"job", p>>] = Idle
  /\ stop[p] = "no" \/ p \in Overlapping
  /\ Closing(<<"job", p>>, mapped[p])
  /\ UNCHANGED <<pc, slotVars, chainVars, mapped, using, proc, leases, early, stop, crashed>>

(* stop: no lease is granted from now on; the one-shot children that exist   *)
(* are terminated.                                                           *)
Stop(p) ==
  /\ p \in Stoppable /\ ~crashed[p] /\ stop[p] = "no"
  /\ closer[<<"job", p>>] = Idle \/ p \in Overlapping
  /\ stop' = [stop EXCEPT ![p] = "children"]
  /\ proc' = [c \in Requests |-> IF c \in OneShots(p) /\ Running(c) THEN "closing" ELSE proc[c]]
  /\ UNCHANGED <<pc, slotVars, chainVars, mapped, using, leases, closer, early, crashed>>

StopClients(p) ==
  /\ ~crashed[p] /\ stop[p] = "children" /\ \A c \in OneShots(p) : proc[c] # "closing"
  /\ stop' = [stop EXCEPT ![p] = "clients"]
  /\ IF mapped[p] = None THEN UNCHANGED closer ELSE Closing(<<"stop", p>>, mapped[p])
  /\ UNCHANGED <<pc, slotVars, chainVars, mapped, using, proc, leases, early, crashed>>

(* The waiters are rejected and everything is cleared.                       *)
StopEnds(p) ==
  LET waiting == {r \in Requests : PoolOf[r] = p /\ pc[r] = "queued"} IN
  /\ ~crashed[p] /\ stop[p] = "clients" /\ closer[<<"stop", p>>] = Idle
  /\ stop' = [stop EXCEPT ![p] = "done"]
  /\ pc' = [r \in Requests |-> IF r \in waiting THEN "done" ELSE pc[r]]
  /\ queue' = [queue EXCEPT ![p] = <<>>] /\ live' = [live EXCEPT ![p] = {}]
  /\ slots' = [slots EXCEPT ![p] = 0] /\ tail' = [tail EXCEPT ![p] = None]
  /\ UNCHANGED <<prior, clientVars, crashed>>

(* Bound: only a process with a lease dies; any other leaves nothing behind. *)
Crash(p) ==
  /\ p \in Mortal /\ ~crashed[p] /\ \E l \in leases : PoolOf[l] = p
  /\ crashed' = [crashed EXCEPT ![p] = TRUE]
  /\ UNCHANGED <<pc, slotVars, chainVars, clientVars, stop>>

-------------------------------------------------------------------------------
\* what a request does by itself, its waits excepted
Steps(r) ==
  \/ Acquire(r) \/ Release(r)
  \/ Abandon(r) \/ SkipChain(r) \/ RecycleSession(r) \/ Caught(r)
  \/ Chain(r) \/ GetClient(r)
  \/ AcquireLease(r) \/ SpawnChild(r) \/ Register(r) \/ AbandonSpawn(r) \/ ReturnLease(r)
  \/ Started(r) \/ StartFails(r) \/ Answered(r) \/ PromptFails(r) \/ ChildEnds(r)
GivesUp(r) == GiveUpSlot(r) \/ GiveUpChain(r) \/ LeaseFails(r)
Closes(x) == EndInput(x) \/ Retire(x) \/ RetireFails(x) \/ CloseFails(x)
Stops(p) == Stop(p) \/ StopClients(p) \/ StopEnds(p)

Next ==
  \/ \E r \in Requests : Steps(r) \/ GivesUp(r) \/ Boot(r) \/ ProcessGone(r)
  \/ \E x \in Closers : Closes(x)
  \/ \E p \in Pools : ReleaseJob(p) \/ Stops(p) \/ Crash(p)

Spec == Init /\ [][Next]_vars

-------------------------------------------------------------------------------
TypeOK ==
  /\ pc \in [Requests -> Phases]
  /\ slots \in [Pools -> Nat] /\ live \in [Pools -> SUBSET Requests]
  /\ queue \in [Pools -> Seq(Requests)]
  /\ tail \in [Pools -> Requests \cup {None}] /\ prior \in [Requests -> Requests \cup {None}]
  /\ mapped \in [Pools -> Requests \cup {None}] /\ using \in [Requests -> Requests \cup {None}]
  /\ proc \in [Requests -> {"none", "booting", "starting", "running", "closing", "gone"}]
  /\ leases \subseteq Requests
  /\ closer \in [Closers -> [client : Requests \cup {None},
                             at : {"idle", "begin", "childless", "waiting"}]]
  /\ early \subseteq Requests
  /\ stop \in [Pools -> {"no", "children", "clients", "done", "failed"}]
  /\ crashed \in [Pools -> BOOLEAN]

HasSlot(r) == pc[r] \notin {"new", "queued", "done"}

\* A slot is taken by exactly the requests that run, and there are never more
\* than the limit; a request waits only while none is free.
SlotsExact ==
  \A p \in Pools : stop[p] # "done" =>
    /\ live[p] = {r \in Requests : PoolOf[r] = p /\ HasSlot(r)}
    /\ slots[p] = Cardinality(live[p]) /\ slots[p] <= Limit
    /\ queue[p] # <<>> => slots[p] = Limit

\* A persistent client of a living process has a lease of its own until its
\* process is gone, however many closes of it race and fail, except one that was
\* closed before its child was spawned: start spawns it all the same, unleased.
ClientsLeased ==
  \A c \in Requests :
    /\ Persistent(c) /\ Alive(c) /\ c \notin early
    /\ proc[c] \in {"booting", "starting", "running", "closing"}
    => c \in leases

-------------------------------------------------------------------------------
(* Fairness: as long as some await of a request or of a close it waits for    *)
(* can return, or a process that is being terminated can go, one of them      *)
(* does; and a wait timeout is configured, which ends the wait for a lease.   *)
(* No request takes infinitely many steps, so this is no less than fairness   *)
(* of each.  The waits for a slot and for the chain need no timeout.          *)
Progress ==
  \E r \in Requests : \/ Steps(r) \/ LeaseFails(r) \/ Closes(<<"request", r>>)
                      \/ proc[r] = "closing" /\ ProcessGone(r)
Fairness == WF_vars(Progress)
LiveSpec == Spec /\ Fairness

\* Every request ends, also one that waits for a slot, for the requests before
\* it or for a client that is being closed: each is made once, so from some point
\* on none of a living process is under way.
RequestsEnd == <>[](\A r \in Requests : pc[r] \in {"new", "done"} \/ ~Alive(r))
===============================================================================
