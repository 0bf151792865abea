------------------------- MODULE WorkerRegistryProofs -------------------------
(***************************************************************************)
(* Proofs about WorkerRegistry, for any workers, attempts and limit.       *)
(*                                                                         *)
(* The argument: until the exit handler of a worker has read its record,   *)
(* every copy of that record, in the file or in a caller's hands, carries  *)
(* the number of restarts the worker was started with, which is its        *)
(* distance from the first worker of its task (RecordsInv); a worker is    *)
(* started for another only below the limit (ParentInv).                   *)
(***************************************************************************)
EXTENDS WorkerRegistry, WellFoundedInduction, TLAPS

Mains == {"boot", "booted", "activating", "idle", "accepting", "executing", "published",
          "releasing", "leaving", "gone"}
Main == [at : Mains, claims : SUBSET Attempts, attempt : Attempts \cup {NoAttempt},
         seen : Record \cup {NoRecord}]
Ticks == {"idle", "starting", "chosen", "reserving", "reserved", "releasing"}
TickStates == [at : Ticks, worker : Workers \cup {NoWorker}, attempt : Attempts \cup {NoAttempt}]
Starts == {"none", "registered", "spawned", "persisting", "started", "failed"}
JanitorStates == [at : {"idle", "marking", "stop", "kill", "mark", "stopping"},
                  worker : Workers \cup {NoWorker}]
Exits == {"none", "armed", "seen", "exiting", "crashed", "restarting", "restart", "started",
          "giving up", "done"}
Exit == [at : Exits, deliberate : BOOLEAN, restarts : 0 .. MaxRestarts]

\* The types TypeOK leaves out.
ControlType ==
  /\ main \in [Workers -> Main] /\ tick \in TickStates /\ janitor \in JanitorStates
  /\ start \in [Workers -> Starts] /\ parent \in [Workers -> Workers \cup {NoWorker}]
  /\ exit \in [Workers -> Exit]

\* A worker is registered before anything else happens to it, once.
StartInv ==
  /\ \A w \in Workers :
       /\ start[w] = "none" <=> ~Registered(w)
       /\ ~Registered(w) => proc[w] = "none" /\ parent[w] = NoWorker
       /\ start[w] \in {"none", "registered"} => exit[w].at = "none"
  /\ tick.at # "idle" =>
       tick.worker \in Workers /\ Registered(tick.worker) /\ tick.attempt \in dispatched
  /\ janitor.at # "idle" => janitor.worker \in Workers /\ Registered(janitor.worker)

\* Messages are about attempts the hub has dispatched.
BoxInv ==
  \A w \in Workers :
    /\ inbox[w] \cup processing[w] \cup main[w].claims \subseteq dispatched
    /\ main[w].at \in {"accepting", "executing", "published"} => main[w].attempt \in dispatched

\* A main loop writes the record of its own worker.
WriteInv ==
  \A w \in Workers :
    /\ main[w].at = "leaving" => writes[<<"main", w>>] # NoWrite
    /\ writes[<<"main", w>>] # NoWrite => writes[<<"main", w>>].worker = w

\* Workers whose exit has not been looked at, and how many restarts after the
\* first worker of its task a worker is.
Unseen == {w \in Workers : exit[w].at \in {"none", "armed"}}
Distance == [w \in Workers |-> IF parent[w] = NoWorker THEN 0 ELSE exit[parent[w]].restarts + 1]

\* Every copy of a worker's record agrees with its distance.
Agrees(record, distance, unseen) ==
  /\ record \in Record
  /\ unseen => record.restarts = distance
  /\ record.status = "restarting" => distance < MaxRestarts
RecordsInv ==
  /\ \A w \in Workers : Registered(w) => Agrees(registry[w], Distance[w], w \in Unseen)
  /\ \A c \in Callers : writes[c] # NoWrite =>
       /\ writes[c] \in Write /\ Registered(writes[c].worker)
       /\ Agrees(writes[c].record, Distance[writes[c].worker], writes[c].worker \in Unseen)

\* An exit handler knows the distance of its worker, and starts another worker
\* only below the limit.
ParentInv ==
  \A w \in Workers :
    /\ w \notin Unseen => exit[w].restarts = Distance[w]
    /\ exit[w].at \in {"restarting", "restart"} => exit[w].restarts < MaxRestarts
    /\ parent[w] # NoWorker => parent[w] \notin Unseen /\ exit[parent[w]].restarts < MaxRestarts

IInv == TypeOK /\ ControlType /\ StartInv /\ BoxInv /\ WriteInv /\ RecordsInv /\ ParentInv

-------------------------------------------------------------------------------
(* The depth of a worker.                                                    *)

\* A nonempty set of numbers has a least one.
LEMMA Least ==
  ASSUME NEW T \in SUBSET Nat, T # {} PROVE \E x \in T : \A y \in T : ~(y < x)
<1> DEFINE R == {ss \in Nat \X Nat : ss[1] < ss[2]}
<1>1. IsWellFoundedOn(R, Nat)
  BY NatLessThanWellFounded, Zenon DEF OpToRel
<1>2. \A x, y \in Nat : y < x => <<y, x>> \in R
  OBVIOUS
<1> HIDE DEF R
<1>3. PICK x \in T : \A y \in T : ~(<<y, x>> \in R)
  BY <1>1, WFMin
<1>4. \A y \in T : ~(y < x)
  BY <1>2, <1>3
<1> QED
  BY <1>4

\* The distance solves the recursive equation of Depth, and nothing else does.
LEMMA DepthIsDistance ==
  ASSUME ControlType, ParentInv PROVE Depth = Distance
<1> DEFINE Solves(f) ==
      f = [w \in Workers |-> IF parent[w] = NoWorker THEN 0 ELSE 1 + f[parent[w]]]
<1>1. \A w \in Workers : /\ Distance[w] \in Nat /\ parent[w] \in Workers \cup {NoWorker}
                         /\ parent[w] # NoWorker => Distance[w] = Distance[parent[w]] + 1
  <2> TAKE w \in Workers
  <2>1. CASE parent[w] = NoWorker
    BY <2>1 DEF Distance, ControlType
  <2>2. CASE parent[w] # NoWorker
    <3> DEFINE p == parent[w]
    <3>1. p \in Workers /\ exit[p].restarts \in Nat
      BY <2>2, RegistryAssumption DEF ControlType, Exit
    <3>2. exit[p].restarts = Distance[p]
      BY <2>2, <3>1 DEF ParentInv
    <3> QED
      BY <2>2, <3>1, <3>2 DEF Distance
  <2> QED
    BY <2>1, <2>2
<1>2. Solves(Distance)
  <2>1. \A w \in Workers :
          Distance[w] = IF parent[w] = NoWorker THEN 0 ELSE 1 + Distance[parent[w]]
    <3> TAKE w \in Workers
    <3>1. CASE parent[w] = NoWorker
      BY <3>1 DEF Distance
    <3>2. CASE parent[w] # NoWorker
      BY <1>1, <3>2
    <3> QED
      BY <3>1, <3>2
  <2>2. Distance = [w \in Workers |-> Distance[w]]
    BY DEF Distance
  <2> QED
    BY <2>1, <2>2
<1>3. Solves(Depth)
  <2>1. Depth = CHOOSE f : Solves(f)
    BY DEF Depth
  <2> HIDE DEF Solves
  <2> QED
    BY <1>2, <2>1
<1>4. \A w \in Workers : Depth[w] = Distance[w]
  <2> SUFFICES ASSUME NEW v \in Workers, Depth[v] # Distance[v] PROVE FALSE
    OBVIOUS
  <2> DEFINE T == {Distance[w] : w \in {u \in Workers : Depth[u] # Distance[u]}}
  <2>1. T \in SUBSET Nat /\ T # {}
    BY <1>1
  <2>2. PICK x \in T : \A y \in T : ~(y < x)
    BY <2>1, Least
  <2>3. PICK w \in Workers : Depth[w] # Distance[w] /\ x = Distance[w]
    BY <2>2
  <2>4. Depth[w] = IF parent[w] = NoWorker THEN 0 ELSE 1 + Depth[parent[w]]
    BY <1>3
  <2>5. CASE parent[w] = NoWorker
    BY <2>3, <2>4, <2>5 DEF Distance
  <2>6. CASE parent[w] # NoWorker
    <3> DEFINE p == parent[w]
    <3>1. p \in Workers /\ Distance[w] = Distance[p] + 1 /\ Distance[p] \in Nat
      BY <1>1, <2>6
    <3>2. Depth[p] # Distance[p]
      BY <2>3, <2>4, <2>6, <3>1
    <3>3. Distance[p] \in T
      BY <3>1, <3>2
    <3>4. Distance[p] < Distance[w]
      BY <3>1
    <3> QED
      BY <2>2, <2>3, <3>3, <3>4
  <2> QED
    BY <2>5, <2>6
<1> QED
  <2>1. Depth = [w \in Workers |-> Depth[w]]
    BY <1>3
  <2>2. Distance = [w \in Workers |-> Distance[w]]
    BY DEF Distance
  <2> QED
    BY <1>4, <2>1, <2>2

\* The invariant bounds the restarts.
LEMMA InvBounds ==
  ASSUME IInv PROVE RestartsBounded
<1> USE DEF IInv
<1>1. Depth = Distance
  BY DepthIsDistance
<1> SUFFICES ASSUME NEW w \in Workers
             PROVE  /\ Distance[w] <= MaxRestarts
                    /\ Distance[w] = MaxRestarts => registry[w].status # "restarting"
  BY <1>1 DEF RestartsBounded
<1>2. Distance[w] <= MaxRestarts
  BY RegistryAssumption DEF Distance, ParentInv, ControlType, Exit
<1>3. registry[w].status = "restarting" => Distance[w] < MaxRestarts
  BY DEF RecordsInv, Agrees, Registered, NoRecord
<1> QED
  BY <1>2, <1>3, RegistryAssumption DEF Distance, ControlType, Exit

-------------------------------------------------------------------------------
(* The records a step reads and writes.                                      *)

\* The callers of the registry.
LEMMA CallersAre ==
  /\ TickCaller \in Callers /\ JanitorCaller \in Callers
  /\ \A w \in Workers : /\ <<"start", w>> \in Callers /\ <<"main", w>> \in Callers
                        /\ <<"beat", w>> \in Callers /\ <<"exit", w>> \in Callers
BY DEF Callers, TickCaller, JanitorCaller

\* A worker's main loop shares its calls with nobody.
LEMMA MainIsItsOwn ==
  ASSUME NEW w \in Workers, NEW v \in Workers
  PROVE  /\ <<"main", w>> # TickCaller /\ <<"main", w>> # JanitorCaller
         /\ <<"main", w>> \notin {<<"start", v>>, <<"beat", v>>, <<"exit", v>>}
         /\ <<"main", w>> = <<"main", v>> => w = v
BY DEF TickCaller, JanitorCaller

\* A copy of the record of w in which the restarts are as they were.
Edits(w, r) ==
  /\ r \in Record /\ r.restarts = registry[w].restarts
  /\ r.status = "restarting" => registry[w].status = "restarting"

\* An edited record is an edit of what is registered.
LEMMA Edited ==
  ASSUME TypeOK, NEW w \in Workers, Registered(w)
  PROVE  /\ Edits(w, registry[w])
         /\ \A s \in Statuses, a \in Attempts \cup {NoAttempt} : s # "restarting" =>
              /\ Edits(w, [registry[w] EXCEPT !.status = s])
              /\ Edits(w, [registry[w] EXCEPT !.status = s, !.attempt = a])
         /\ Edits(w, [registry[w] EXCEPT !.identified = TRUE])
         /\ Edits(w, [registry[w] EXCEPT !.identified = TRUE,
                                         !.status = IF @ = "starting" THEN "ready" ELSE @])
         /\ \A b \in BOOLEAN :
              Edits(w, [[registry[w] EXCEPT !.status = "exited"] EXCEPT !.stopped = b])
<1> DEFINE r == registry[w]
<1>1. /\ r \in Record /\ r.status \in Statuses /\ r.attempt \in Attempts \cup {NoAttempt}
      /\ r.identified \in BOOLEAN /\ r.stopped \in BOOLEAN /\ r.restarts \in 0 .. MaxRestarts
      /\ r = [status |-> r.status, attempt |-> r.attempt, identified |-> r.identified,
              stopped |-> r.stopped, restarts |-> r.restarts]
  BY DEF TypeOK, Registered, Record
<1>2. Edits(w, r)
  BY <1>1 DEF Edits
<1>3. ASSUME NEW s \in Statuses, NEW a \in Attempts \cup {NoAttempt}, s # "restarting"
      PROVE  /\ Edits(w, [r EXCEPT !.status = s])
             /\ Edits(w, [r EXCEPT !.status = s, !.attempt = a])
  BY <1>1, <1>3 DEF Edits, Record
<1>4. Edits(w, [r EXCEPT !.identified = TRUE])
  BY <1>1 DEF Edits, Record
<1>5. Edits(w, [r EXCEPT !.identified = TRUE, !.status = IF @ = "starting" THEN "ready" ELSE @])
  BY <1>1 DEF Edits, Record, Statuses
<1>6. ASSUME NEW b \in BOOLEAN
      PROVE  Edits(w, [[r EXCEPT !.status = "exited"] EXCEPT !.stopped = b])
  BY <1>1 DEF Edits, Record, Statuses
<1> QED
  BY <1>2, <1>3, <1>4, <1>5, <1>6

\* An edit agrees with the restarts of its worker.
LEMMA EditsAgree ==
  ASSUME IInv, NEW w \in Workers, Registered(w), NEW r, Edits(w, r)
  PROVE  Agrees(r, Distance[w], w \in Unseen)
BY DEF IInv, RecordsInv, Agrees, Edits

\* A step leaves the distance of the workers there are, and looks at an exit once.
DistanceKept ==
  \A w \in Workers : Registered(w) => Distance'[w] = Distance[w] /\ (w \in Unseen' => w \in Unseen)

\* The invariant of the records after a step that registers the workers in new.
RecordsAfter(new) ==
  /\ registry' \in [Workers -> Record \cup {NoRecord}]
  /\ writes' \in [Callers -> Write \cup {NoWrite}]
  /\ \A w \in Workers : Registered(w)' <=> (Registered(w) \/ w \in new)
  /\ RecordsInv'

\* The absent record and the absent write are none.
LEMMA NoneIsNothing ==
  /\ NoRecord \notin Record /\ NoWrite \notin Write
  /\ \A w \in Workers, r \in Record :
       /\ [worker |-> w, record |-> r] # NoWrite
       /\ [worker |-> w, record |-> r] \in Write
BY RegistryAssumption DEF NoRecord, Record, NoWrite, Write, Statuses

\* Agreement survives steps that keep the distances.
LEMMA AgreesStill ==
  ASSUME DistanceKept, NEW w \in Workers, Registered(w), NEW r,
         Agrees(r, Distance[w], w \in Unseen)
  PROVE  Agrees(r, Distance'[w], w \in Unseen')
BY DEF DistanceKept, Agrees

\* Nothing is written, and prepared writes may be dropped.
LEMMA Drops ==
  ASSUME IInv, DistanceKept, UNCHANGED registry, writes' \in [Callers -> Write \cup {NoWrite}],
         \A c \in Callers : writes'[c] \in {writes[c], NoWrite}
  PROVE  RecordsAfter({})
<1> USE DEF IInv
<1>1. \A w \in Workers : Registered(w)' <=> Registered(w)
  BY DEF Registered
<1>2. \A w \in Workers : Registered(w)' => Agrees(registry'[w], Distance'[w], w \in Unseen')
  BY <1>1, AgreesStill DEF RecordsInv
<1>3. ASSUME NEW c \in Callers, writes'[c] # NoWrite
      PROVE  /\ writes'[c] \in Write /\ registry'[writes'[c].worker] # NoRecord
             /\ Agrees(writes'[c].record, Distance'[writes'[c].worker], writes'[c].worker \in Unseen')
  <2>1. writes'[c] = writes[c]
    BY <1>3
  <2> DEFINE w == writes[c].worker
             r == writes[c].record
  <2>2. w \in Workers /\ Registered(w) /\ Agrees(r, Distance[w], w \in Unseen) /\ writes[c] \in Write
    BY <1>3, <2>1 DEF RecordsInv, Write
  <2>3. Agrees(r, Distance'[w], w \in Unseen')
    BY <2>2, AgreesStill
  <2> QED
    BY <1>1, <2>1, <2>2, <2>3 DEF Registered
<1> QED
  BY <1>1, <1>2, <1>3 DEF RecordsAfter, RecordsInv, Registered, TypeOK

\* A caller prepares a write.
LEMMA Prepares ==
  ASSUME IInv, DistanceKept, UNCHANGED registry,
         NEW c \in Callers, NEW w \in Workers, NEW r, Registered(w),
         Agrees(r, Distance[w], w \in Unseen), Prepare(c, w, r)
  PROVE  RecordsAfter({})
<1> USE DEF IInv
<1>0. r \in Record
  BY DEF Agrees
<1> DEFINE x == [worker |-> w, record |-> r]
<1>1. x \in Write /\ x # NoWrite /\ x.worker = w /\ x.record = r
  BY <1>0, NoneIsNothing
<1>2. writes' = [writes EXCEPT ![c] = x]
  BY DEF Prepare
<1> HIDE DEF x
<1>3. /\ writes' \in [Callers -> Write \cup {NoWrite}] /\ writes'[c] = x
      /\ \A d \in Callers : d # c => writes'[d] = writes[d]
  BY <1>1, <1>2 DEF TypeOK
<1>4. \A v \in Workers : Registered(v)' <=> Registered(v)
  BY DEF Registered
<1>5. \A v \in Workers : Registered(v)' => Agrees(registry'[v], Distance'[v], v \in Unseen')
  BY <1>4, AgreesStill DEF RecordsInv
<1>6. ASSUME NEW d \in Callers, writes'[d] # NoWrite
      PROVE  /\ writes'[d] \in Write /\ registry'[writes'[d].worker] # NoRecord
             /\ Agrees(writes'[d].record, Distance'[writes'[d].worker], writes'[d].worker \in Unseen')
  <2>1. CASE d = c
    <3>1. Agrees(r, Distance'[w], w \in Unseen')
      BY AgreesStill
    <3> QED
      BY <1>1, <1>3, <2>1, <3>1 DEF Registered
  <2>2. CASE d # c
    <3> DEFINE v == writes[d].worker
    <3>1. writes'[d] = writes[d]
      BY <1>3, <2>2
    <3>2. /\ v \in Workers /\ Registered(v) /\ writes[d] \in Write
          /\ Agrees(writes[d].record, Distance[v], v \in Unseen)
      BY <1>6, <3>1 DEF RecordsInv, Write
    <3>3. Agrees(writes[d].record, Distance'[v], v \in Unseen')
      BY <3>2, AgreesStill
    <3> QED
      BY <3>1, <3>2, <3>3 DEF Registered
  <2> QED
    BY <2>1, <2>2
<1> QED
  BY <1>3, <1>4, <1>5, <1>6 DEF RecordsAfter, RecordsInv, Registered, TypeOK

\* A record is written in the place of the one there is; prepared writes may be
\* dropped.
LEMMA Puts ==
  ASSUME IInv, DistanceKept, NEW w \in Workers, NEW r, Registered(w),
         Agrees(r, Distance[w], w \in Unseen),
         registry' = [registry EXCEPT ![w] = r], writes' \in [Callers -> Write \cup {NoWrite}],
         \A c \in Callers : writes'[c] \in {writes[c], NoWrite}
  PROVE  RecordsAfter({})
<1> USE DEF IInv
<1>0. r \in Record
  BY DEF Agrees
<1>1. /\ registry' \in [Workers -> Record \cup {NoRecord}] /\ registry'[w] = r
      /\ \A v \in Workers : v # w => registry'[v] = registry[v]
  BY <1>0 DEF TypeOK
<1>2. \A v \in Workers : Registered(v)' <=> Registered(v)
  BY <1>0, <1>1, NoneIsNothing DEF Registered
<1>3. \A v \in Workers : Registered(v)' => Agrees(registry'[v], Distance'[v], v \in Unseen')
  BY <1>1, <1>2, AgreesStill DEF RecordsInv
<1>4. ASSUME NEW c \in Callers, writes'[c] # NoWrite
      PROVE  /\ writes'[c] \in Write /\ registry'[writes'[c].worker] # NoRecord
             /\ Agrees(writes'[c].record, Distance'[writes'[c].worker], writes'[c].worker \in Unseen')
  <2> DEFINE v == writes[c].worker
  <2>1. writes'[c] = writes[c]
    BY <1>4
  <2>2. /\ v \in Workers /\ Registered(v) /\ writes[c] \in Write
        /\ Agrees(writes[c].record, Distance[v], v \in Unseen)
    BY <1>4, <2>1 DEF RecordsInv, Write
  <2>3. Agrees(writes[c].record, Distance'[v], v \in Unseen')
    BY <2>2, AgreesStill
  <2>4. registry'[v] # NoRecord
    BY <1>2, <2>2 DEF Registered
  <2> QED
    BY <2>1, <2>2, <2>3, <2>4 DEF Registered
<1> QED
  BY <1>1, <1>2, <1>3, <1>4 DEF RecordsAfter, RecordsInv, Registered

\* A commit registers a record that agrees.
LEMMA Commits ==
  ASSUME IInv, DistanceKept, NEW c \in Callers, Commit(c) PROVE RecordsAfter({})
<1> DEFINE w == writes[c].worker
           r == writes[c].record
<1>1. w \in Workers /\ Registered(w) /\ Agrees(r, Distance[w], w \in Unseen)
  BY DEF Commit, IInv, RecordsInv, Write
<1>2. /\ registry' = [registry EXCEPT ![w] = r] /\ writes' \in [Callers -> Write \cup {NoWrite}]
      /\ \A d \in Callers : writes'[d] \in {writes[d], NoWrite}
  BY DEF Commit, IInv, TypeOK
<1> HIDE DEF w, r
<1> QED
  BY <1>1, <1>2, Puts

\* A new worker gets its first record.
LEMMA Registers ==
  ASSUME IInv, DistanceKept, NEW w \in Workers, NEW k \in 0 .. MaxRestarts, Register(w, k),
         Distance'[w] = k, UNCHANGED writes
  PROVE  RecordsAfter({w})
<1> USE DEF IInv
<1> DEFINE r == [status |-> "starting", attempt |-> NoAttempt,
                 identified |-> FALSE, stopped |-> FALSE, restarts |-> k]
<1>1. r \in Record /\ r.restarts = k /\ r.status = "starting" /\ ~Registered(w)
  BY DEF Register, Fresh, Record, Statuses
<1>2. registry' = [registry EXCEPT ![w] = r]
  BY DEF Register
<1> HIDE DEF r
<1>3. /\ registry' \in [Workers -> Record \cup {NoRecord}] /\ registry'[w] = r
      /\ \A v \in Workers : v # w => registry'[v] = registry[v]
  BY <1>1, <1>2 DEF TypeOK
<1>4. \A v \in Workers : Registered(v)' <=> (Registered(v) \/ v = w)
  BY <1>1, <1>3, NoneIsNothing DEF Registered
<1>5. Agrees(r, Distance'[w], w \in Unseen')
  BY <1>1 DEF Agrees
<1>6. \A v \in Workers : Registered(v)' => Agrees(registry'[v], Distance'[v], v \in Unseen')
  BY <1>3, <1>4, <1>5, AgreesStill DEF RecordsInv
<1>7. ASSUME NEW c \in Callers, writes'[c] # NoWrite
      PROVE  /\ writes'[c] \in Write /\ registry'[writes'[c].worker] # NoRecord
             /\ Agrees(writes'[c].record, Distance'[writes'[c].worker], writes'[c].worker \in Unseen')
  <2> DEFINE v == writes[c].worker
  <2>1. writes'[c] = writes[c]
    OBVIOUS
  <2>2. /\ v \in Workers /\ Registered(v) /\ writes[c] \in Write
        /\ Agrees(writes[c].record, Distance[v], v \in Unseen)
    BY <1>7, <2>1 DEF RecordsInv, Write
  <2>3. Agrees(writes[c].record, Distance'[v], v \in Unseen')
    BY <2>2, AgreesStill
  <2>4. registry'[v] # NoRecord
    BY <1>4, <2>2 DEF Registered
  <2> QED
    BY <2>1, <2>2, <2>3, <2>4 DEF Registered
<1> QED
  BY <1>3, <1>4, <1>6, <1>7 DEF RecordsAfter, RecordsInv, Registered, TypeOK

-------------------------------------------------------------------------------
(* Exits and restarts.                                                       *)
ExitAfter ==
  /\ exit' \in [Workers -> Exit] /\ parent' \in [Workers -> Workers \cup {NoWorker}]
  /\ DistanceKept /\ ParentInv'

\* Exit handlers that do not move stay as they are.
LEMMA ExitsStay ==
  ASSUME IInv, UNCHANGED <<exit, parent>> PROVE ExitAfter
<1>1. Unseen' = Unseen /\ Distance' = Distance
  BY DEF Unseen, Distance
<1> QED
  BY <1>1 DEF ExitAfter, IInv, ControlType, DistanceKept, ParentInv

\* An exit handler goes on, without another look at the restarts.
LEMMA ExitMoves ==
  ASSUME IInv, NEW w \in Workers, NEW e \in Exit, exit' = [exit EXCEPT ![w] = e],
         e.restarts = exit[w].restarts,
         e.at \in {"none", "armed"} <=> exit[w].at \in {"none", "armed"},
         e.at \in {"restarting", "restart"} => e.restarts < MaxRestarts,
         UNCHANGED parent
  PROVE  ExitAfter
<1> USE DEF IInv
<1>1. /\ exit' \in [Workers -> Exit] /\ exit'[w] = e
      /\ \A v \in Workers : v # w => exit'[v] = exit[v]
  BY DEF ControlType
<1>2. \A v \in Workers : exit'[v].restarts = exit[v].restarts
  BY <1>1
<1>3. Unseen' = Unseen
  BY <1>1 DEF Unseen
<1>4. Distance' = Distance
  BY <1>2 DEF Distance, ControlType
<1>5. DistanceKept
  BY <1>3, <1>4 DEF DistanceKept
<1>6. ParentInv'
  <2> SUFFICES ASSUME NEW v \in Workers
      PROVE  /\ v \notin Unseen' => exit'[v].restarts = Distance'[v]
             /\ exit'[v].at \in {"restarting", "restart"} => exit'[v].restarts < MaxRestarts
             /\ parent'[v] # NoWorker =>
                  parent'[v] \notin Unseen' /\ exit'[parent'[v]].restarts < MaxRestarts
    BY DEF ParentInv
  <2>1. v \notin Unseen' => exit'[v].restarts = Distance'[v]
    BY <1>2, <1>3, <1>4 DEF ParentInv
  <2>2. exit'[v].at \in {"restarting", "restart"} => exit'[v].restarts < MaxRestarts
    BY <1>1 DEF ParentInv
  <2>3. parent'[v] # NoWorker =>
          parent'[v] \notin Unseen' /\ exit'[parent'[v]].restarts < MaxRestarts
    BY <1>2, <1>3 DEF ParentInv, ControlType
  <2> QED
    BY <2>1, <2>2, <2>3
<1> QED
  BY <1>1, <1>5, <1>6 DEF ExitAfter, ControlType

\* It looks at the record of a worker nobody was started for yet.
LEMMA ExitSeen ==
  ASSUME IInv, NEW w \in Workers, SeeExit(w) PROVE ExitAfter
<1> USE DEF IInv
<1>1. exit[w].at = "armed" /\ w \in Unseen /\ UNCHANGED parent
  BY DEF SeeExit, Unseen
<1>2. Registered(w)
  BY <1>1 DEF StartInv, ControlType
<1>3. registry[w] \in Record /\ registry[w].restarts = Distance[w]
  BY <1>1, <1>2 DEF RecordsInv, Agrees
<1> DEFINE e == [at |-> IF registry[w].identified THEN "seen" ELSE "done",
                 deliberate |-> registry[w].stopped, restarts |-> registry[w].restarts]
<1>4. e \in Exit /\ e.at \in {"seen", "done"} /\ e.restarts = registry[w].restarts
  BY <1>3 DEF Exit, Exits, Record
<1>5. exit' = [exit EXCEPT ![w] = e]
  BY DEF SeeExit
<1> HIDE DEF e
<1>6. /\ exit' \in [Workers -> Exit] /\ exit'[w] = e
      /\ \A v \in Workers : v # w => exit'[v] = exit[v]
  BY <1>4, <1>5 DEF ControlType
<1>7. \A v \in Workers : parent[v] # w
  BY <1>1, RegistryAssumption DEF ParentInv
<1>8. Distance' = Distance
  <2>1. \A v \in Workers : (IF parent'[v] = NoWorker THEN 0 ELSE exit'[parent'[v]].restarts + 1)
                            = IF parent[v] = NoWorker THEN 0 ELSE exit[parent[v]].restarts + 1
    BY <1>1, <1>6, <1>7 DEF ControlType
  <2> QED
    BY <2>1 DEF Distance
<1>9. Unseen' = Unseen \ {w}
  BY <1>4, <1>6 DEF Unseen
<1>10. DistanceKept
  BY <1>8, <1>9 DEF DistanceKept
<1>11. ParentInv'
  <2> SUFFICES ASSUME NEW v \in Workers
      PROVE  /\ v \notin Unseen' => exit'[v].restarts = Distance'[v]
             /\ exit'[v].at \in {"restarting", "restart"} => exit'[v].restarts < MaxRestarts
             /\ parent'[v] # NoWorker =>
                  parent'[v] \notin Unseen' /\ exit'[parent'[v]].restarts < MaxRestarts
    BY DEF ParentInv
  <2>1. v \notin Unseen' => exit'[v].restarts = Distance'[v]
    BY <1>3, <1>4, <1>6, <1>8, <1>9 DEF ParentInv
  <2>2. exit'[v].at \in {"restarting", "restart"} => exit'[v].restarts < MaxRestarts
    BY <1>4, <1>6 DEF ParentInv
  <2>3. parent'[v] # NoWorker =>
          parent'[v] \notin Unseen' /\ exit'[parent'[v]].restarts < MaxRestarts
    BY <1>1, <1>6, <1>7, <1>9 DEF ParentInv, ControlType
  <2> QED
    BY <2>1, <2>2, <2>3
<1> QED
  BY <1>1, <1>6, <1>10, <1>11 DEF ExitAfter, ControlType

\* A worker is started for another one, at the next distance.
LEMMA Restarted ==
  ASSUME IInv, NEW w \in Workers, NEW next \in Workers, Restart(w, next)
  PROVE  /\ ExitAfter /\ Distance'[next] = exit[w].restarts + 1
         /\ exit[w].restarts + 1 \in 0 .. MaxRestarts
<1> USE DEF IInv
<1>1. /\ exit[w].at = "restart" /\ w \notin Unseen /\ exit[w].restarts < MaxRestarts
      /\ exit[w] \in Exit
  BY DEF Restart, Unseen, ParentInv, ControlType
<1>2. ~Registered(next) /\ exit[next].at = "none" /\ parent[next] = NoWorker /\ next # w
  BY <1>1 DEF Restart, Register, Fresh, StartInv, ControlType
<1>3. /\ exit' \in [Workers -> Exit] /\ exit'[w].at = "started"
      /\ \A v \in Workers : /\ exit'[v].restarts = exit[v].restarts
                            /\ v # w => exit'[v] = exit[v]
  BY <1>1 DEF Restart, ExitAt, ControlType, Exit, Exits
<1>4. /\ parent' \in [Workers -> Workers \cup {NoWorker}] /\ parent'[next] = w
      /\ \A v \in Workers : v # next => parent'[v] = parent[v]
  BY DEF Restart, ControlType
<1>5. Unseen' = Unseen
  BY <1>1, <1>3 DEF Unseen
<1>6. /\ Distance'[next] = exit[w].restarts + 1
      /\ \A v \in Workers : v # next => Distance'[v] = Distance[v]
  BY <1>3, <1>4, RegistryAssumption DEF Distance, ControlType
<1>7. DistanceKept
  BY <1>2, <1>5, <1>6 DEF DistanceKept
<1>8. ParentInv'
  <2> SUFFICES ASSUME NEW v \in Workers
      PROVE  /\ v \notin Unseen' => exit'[v].restarts = Distance'[v]
             /\ exit'[v].at \in {"restarting", "restart"} => exit'[v].restarts < MaxRestarts
             /\ parent'[v] # NoWorker =>
                  parent'[v] \notin Unseen' /\ exit'[parent'[v]].restarts < MaxRestarts
    BY DEF ParentInv
  <2>1. v \notin Unseen' => exit'[v].restarts = Distance'[v]
    BY <1>2, <1>3, <1>5, <1>6 DEF ParentInv, Unseen
  <2>2. exit'[v].at \in {"restarting", "restart"} => exit'[v].restarts < MaxRestarts
    BY <1>3 DEF ParentInv
  <2>3. parent'[v] # NoWorker =>
          parent'[v] \notin Unseen' /\ exit'[parent'[v]].restarts < MaxRestarts
    BY <1>1, <1>3, <1>4, <1>5 DEF ParentInv, ControlType
  <2> QED
    BY <2>1, <2>2, <2>3
<1>9. exit[w].restarts + 1 \in 0 .. MaxRestarts
  BY <1>1, RegistryAssumption DEF Exit
<1> QED
  BY <1>3, <1>4, <1>6, <1>7, <1>8, <1>9 DEF ExitAfter

-------------------------------------------------------------------------------
(* The parts of the invariant that most steps leave alone.                   *)
BoxesAfter ==
  /\ inbox' \in [Workers -> SUBSET Attempts] /\ processing' \in [Workers -> SUBSET Attempts]
  /\ finalized' \subseteq decided' /\ decided' \subseteq dispatched' /\ dispatched' \subseteq Attempts
  /\ BoxInv'
StatesAfter ==
  /\ proc' \in [Workers -> {"none", "alive", "dead"}] /\ main' \in [Workers -> Main]
  /\ tick' \in TickStates /\ janitor' \in JanitorStates /\ start' \in [Workers -> Starts]

\* The parts of the invariant, put together.
LEMMA Assembled ==
  ASSUME NEW new, RecordsAfter(new), ExitAfter, BoxesAfter, StatesAfter, StartInv', WriteInv'
  PROVE  IInv'
BY DEF RecordsAfter, RecordsInv, Registered, ExitAfter, BoxesAfter, StatesAfter, IInv, TypeOK,
   ControlType

\* Inboxes that do not change stay as they are.
LEMMA BoxesStay ==
  ASSUME IInv, UNCHANGED <<inbox, processing, main, decided>>,
         finalized' \subseteq decided, dispatched \subseteq dispatched', dispatched' \subseteq Attempts
  PROVE  BoxesAfter
BY DEF IInv, TypeOK, BoxInv, BoxesAfter

\* Starts that do not move stay as they are.
LEMMA StartStays ==
  ASSUME IInv, RecordsAfter({}), UNCHANGED <<start, parent>>,
         \A w \in Workers : ~Registered(w) => proc'[w] = "none",
         \A w \in Workers : start[w] \in {"none", "registered"} => exit'[w].at = "none",
         tick'.at # "idle" => /\ tick'.worker \in Workers /\ registry[tick'.worker] # NoRecord
                              /\ tick'.attempt \in dispatched',
         janitor'.at # "idle" => janitor'.worker \in Workers /\ registry[janitor'.worker] # NoRecord
  PROVE  StartInv'
BY DEF IInv, StartInv, RecordsAfter, Registered

\* The main loops' writes are as before, up to those of another caller.
LEMMA WritesStay ==
  ASSUME IInv, NEW c, \A w \in Workers : <<"main", w>> # c,
         \A d \in Callers : d # c => writes'[d] = writes[d],
         \A w \in Workers : main'[w].at = "leaving" => main[w].at = "leaving"
  PROVE  WriteInv'
<1>1. \A w \in Workers : writes'[<<"main", w>>] = writes[<<"main", w>>]
  BY CallersAre
<1> QED
  BY <1>1 DEF IInv, WriteInv

\* A call changes no other call's write.
LEMMA WhoWrites ==
  ASSUME IInv, NEW c
  PROVE  /\ \A w, r : Prepare(c, w, r) => \A d \in Callers : d # c => writes'[d] = writes[d]
         /\ Commit(c) => \A d \in Callers : d # c => writes'[d] = writes[d]
BY DEF IInv, TypeOK, Prepare, Commit

\* A live worker is registered.
LEMMA AliveIsRegistered ==
  ASSUME IInv, NEW w \in Workers
  PROVE  /\ Alive(w) => Registered(w)
         /\ start[w] # "none" => Registered(w)
         /\ exit[w].at # "none" => Registered(w) /\ start[w] \notin {"none", "registered"}
         /\ \A a, s : Holds(w, a, s) => Registered(w)
BY DEF IInv, StartInv, Alive, Holds

\* What a caller may prepare.
LEMMA EditPrepared ==
  ASSUME IInv, DistanceKept, UNCHANGED registry, NEW c \in Callers, NEW w \in Workers, NEW r,
         Registered(w), Edits(w, r), Prepare(c, w, r)
  PROVE  RecordsAfter({})
BY EditsAgree, Prepares


-------------------------------------------------------------------------------
(* Every step keeps the invariant.                                           *)

\* Every step of a start keeps the invariant.
LEMMA StartKeeps ==
  ASSUME IInv, NEW w \in Workers, StartSteps(w) PROVE IInv'
<1> USE DEF IInv, hubVars, boxes
<1>0. /\ start[w] # "none" /\ Registered(w) /\ <<"start", w>> \in Callers
      /\ \A v \in Workers : <<"main", v>> # <<"start", w>>
      /\ exit[w] \in Exit /\ UNCHANGED <<boxes, main, hubVars, parent>>
  BY AliveIsRegistered, CallersAre, MainIsItsOwn
     DEF StartSteps, Spawn, SpawnFails, SpawnUnidentified, ReadToPersist, Persist, ControlType
<1>1. BoxesAfter
  BY <1>0, BoxesStay DEF TypeOK
<1>2. StatesAfter
  BY <1>0 DEF StatesAfter, TypeOK, ControlType, Starts,
     StartSteps, Spawn, SpawnFails, SpawnUnidentified, ReadToPersist, Persist
<1>3. ExitAfter
  <2>1. CASE Spawn(w)
    <3> DEFINE e == [exit[w] EXCEPT !.at = "armed"]
    <3>1. /\ e \in Exit /\ e.at = "armed" /\ e.restarts = exit[w].restarts
          /\ exit' = [exit EXCEPT ![w] = e] /\ exit[w].at = "none" /\ UNCHANGED parent
      BY <1>0, <2>1 DEF Spawn, Exit, Exits, ControlType, StartInv
    <3> HIDE DEF e
    <3> QED
      BY <3>1, ExitMoves
  <2>2. CASE ~Spawn(w)
    BY <2>2, ExitsStay DEF StartSteps, SpawnFails, SpawnUnidentified, ReadToPersist, Persist
  <2> QED
    BY <2>1, <2>2
<1>4. DistanceKept
  BY <1>3 DEF ExitAfter
<1>5. RecordsAfter({})
  <2>1. CASE Spawn(w)
    BY <1>4, <2>1, Drops DEF Spawn, TypeOK
  <2>2. ASSUME NEW s \in {"exited", "unhealthy"}, registry' = [registry EXCEPT ![w].status = s],
               UNCHANGED writes
        PROVE  RecordsAfter({})
    <3> DEFINE r == [registry[w] EXCEPT !.status = s]
    <3>1. registry' = [registry EXCEPT ![w] = r]
      BY <2>2 DEF TypeOK
    <3>2. Edits(w, r)
      <4>1. s \in Statuses /\ s # "restarting"
        BY DEF Statuses
      <4> QED
        BY <1>0, <4>1, Edited
    <3> HIDE DEF r
    <3> QED
      BY <1>0, <1>4, <2>2, <3>1, <3>2, EditsAgree, Puts DEF TypeOK
  <2>3. CASE ReadToPersist(w)
    BY <1>0, <1>4, <2>3, Edited, EditPrepared DEF ReadToPersist
  <2>4. CASE Persist(w)
    BY <1>0, <1>4, <2>4, Commits DEF Persist
  <2> QED
    BY <2>1, <2>2, <2>3, <2>4 DEF StartSteps, SpawnFails, SpawnUnidentified
<1>6. StartInv'
  <2>1. /\ start' \in [Workers -> Starts] /\ start'[w] \notin {"none", "registered"}
        /\ \A v \in Workers : v # w => start'[v] = start[v]
        /\ \A v \in Workers : v # w => proc'[v] = proc[v] /\ exit'[v] = exit[v]
    BY DEF StartSteps, Spawn, SpawnFails, SpawnUnidentified, ReadToPersist, Persist, Starts,
       ControlType, TypeOK
  <2> QED
    BY <1>0, <1>5, <2>1 DEF StartInv, RecordsAfter, Registered
<1>7. WriteInv'
  <2>1. \A d \in Callers : d # <<"start", w>> => writes'[d] = writes[d]
    BY WhoWrites DEF StartSteps, Spawn, SpawnFails, SpawnUnidentified, ReadToPersist, Persist
  <2> QED
    BY <1>0, <2>1, WritesStay
<1> QED
  BY <1>1, <1>2, <1>3, <1>5, <1>6, <1>7, Assembled

\* Every step of a tick keeps the invariant.
LEMMA TickKeeps ==
  ASSUME IInv, Tick PROVE IInv'
<1> USE DEF IInv, hubVars, boxes
<1>0. /\ UNCHANGED <<processing, proc, main, parent, janitor, exit>> /\ TickCaller \in Callers
      /\ \A v \in Workers : <<"main", v>> # TickCaller
      /\ tick \in TickStates
  BY CallersAre, MainIsItsOwn
     DEF Tick, Dispatch, Choose, StartReturns, ReadToReserve, Reserve, WriteInbox, ReadToCompensate,
         ReleaseWorker, Decide, FinalizeNothing, ReadToFinalize, ControlType
<1>1. ExitAfter /\ DistanceKept
  BY <1>0, ExitsStay DEF ExitAfter
<1>2. tick.at # "idle" =>
        tick.worker \in Workers /\ Registered(tick.worker) /\ tick.attempt \in dispatched
  BY DEF StartInv
<1>3. ASSUME NEW a \in Attempts, Choose(a) PROVE IInv'
  <2>1. BoxesAfter
    BY <1>0, <1>3, BoxesStay DEF Choose, TypeOK
  <2>2. CASE UNCHANGED <<registry, start>>
    <3>1. PICK w \in Workers : Registered(w) /\ TickAt("chosen", w, a)
      BY <1>3, <2>2 DEF Choose, Idle, Holds, Register, Fresh, ControlType
    <3>2. RecordsAfter({})
      BY <1>1, <1>3, <2>2, Drops DEF Choose, TypeOK
    <3>3. StatesAfter
      BY <1>0, <1>3, <2>2, <3>1 DEF Choose, TickAt, StatesAfter, TypeOK, ControlType, TickStates, Ticks
    <3>4. StartInv'
      <4>1. tick'.worker = w /\ tick'.attempt = a /\ a \in dispatched'
        BY <1>3, <3>1 DEF TickAt, Choose
      <4> QED
        BY <1>0, <1>3, <2>2, <3>1, <3>2, <4>1, StartStays DEF StartInv, Choose, Registered
    <3>5. WriteInv'
      BY <1>0, <1>3, WritesStay DEF Choose
    <3> QED
      BY <1>1, <2>1, <3>2, <3>3, <3>4, <3>5, Assembled
  <2>3. ASSUME NEW w \in Workers, Register(w, 0), TickAt("starting", w, a) PROVE IInv'
    <3>1. ~Registered(w) /\ start[w] = "none" /\ parent'[w] = NoWorker
      BY <1>0, <2>3 DEF Register, Fresh, StartInv
    <3>2. Distance'[w] = 0
      BY <3>1 DEF Distance
    <3>3. RecordsAfter({w})
      BY <1>1, <1>3, <2>3, <3>2, Registers, RegistryAssumption DEF Choose
    <3>4. /\ start' \in [Workers -> Starts] /\ start'[w] = "registered"
          /\ \A v \in Workers : v # w => start'[v] = start[v]
      BY <2>3 DEF Register, ControlType, Starts
    <3>5. StatesAfter
      BY <1>0, <2>3, <3>4 DEF TickAt, StatesAfter, TypeOK, ControlType, TickStates, Ticks
    <3>6. StartInv'
      <4>1. tick'.worker = w /\ tick'.attempt \in dispatched'
        BY <1>3, <2>3 DEF TickAt, Choose
      <4> QED
        BY <1>0, <3>1, <3>3, <3>4, <4>1 DEF StartInv, RecordsAfter, Registered
    <3>7. WriteInv'
      BY <1>0, <1>3, WritesStay DEF Choose
    <3> QED
      BY <1>1, <2>1, <3>3, <3>5, <3>6, <3>7, Assembled
  <2> QED
    BY <1>3, <2>2, <2>3 DEF Choose
<1>4. CASE Dispatch \/ \E a \in Attempts : Decide(a) \/ FinalizeNothing(a) \/ \E w \in Workers : ReadToFinalize(a, w)
  <2>1. UNCHANGED <<start, dispatched>>
    BY <1>4 DEF Dispatch, StartReturns, ReadToReserve, Reserve, WriteInbox, ReadToCompensate,
       ReleaseWorker, Decide, FinalizeNothing, ReadToFinalize
  <2>2. tick' \in TickStates /\
        (tick'.at # "idle" => tick'.worker \in Workers /\ Registered(tick'.worker)
                                                     /\ tick'.attempt \in dispatched)
    <3>1. \/ TickDone \/ UNCHANGED tick
          \/ \E at \in Ticks : tick.at # "idle" /\ TickAt(at, tick.worker, tick.attempt)
          \/ \E a \in Attempts, w \in Workers : /\ a \in decided /\ Registered(w)
                                                /\ TickAt("releasing", w, a)
      BY <1>4 DEF Dispatch, StartReturns, ReadToReserve, Reserve, WriteInbox, ReadToCompensate,
         ReleaseWorker, Decide, FinalizeNothing, ReadToFinalize, Holds, Ticks
    <3> QED
      BY <1>0, <1>2, <3>1 DEF TickDone, TickAt, TickStates, Ticks, TypeOK
  <2>3. StatesAfter
    BY <1>0, <2>1, <2>2 DEF StatesAfter, TypeOK, ControlType
  <2>4. RecordsAfter({})
    <3>1. CASE UNCHANGED <<registry, writes>>
      BY <1>1, <3>1, Drops DEF TypeOK
    <3>2. CASE ReadToReserve
      <4>1. CASE Holds(tick.worker, NoAttempt, {"starting", "ready"})
        <5>1. "assigned" \in Statuses /\ tick.attempt \in Attempts \cup {NoAttempt}
          BY <1>0 DEF Statuses, TickStates
        <5>2. tick.worker \in Workers /\ Registered(tick.worker)
          BY <1>2, <3>2 DEF ReadToReserve
        <5> DEFINE r == [registry[tick.worker] EXCEPT !.status = "assigned", !.attempt = tick.attempt]
        <5>3. Edits(tick.worker, r)
          BY <5>1, <5>2, Edited
        <5>4. Prepare(TickCaller, tick.worker, r) /\ UNCHANGED registry
          BY <3>2, <4>1 DEF ReadToReserve
        <5> HIDE DEF r
        <5> QED
          BY <1>0, <1>1, <5>2, <5>3, <5>4, EditPrepared
      <4> QED
        BY <3>1, <3>2, <4>1 DEF ReadToReserve
    <3>3. ASSUME NEW w \in Workers, NEW s \in {"ready", "exited", "unhealthy"}, Registered(w),
                 Prepare(TickCaller, w, Release(w, s)), UNCHANGED registry
          PROVE  RecordsAfter({})
      <4>1. s \in Statuses /\ s # "restarting"
        BY DEF Statuses
      <4>2. Edits(w, Release(w, s))
        BY <3>3, <4>1, Edited DEF Release
      <4> QED
        BY <1>0, <1>1, <3>3, <4>2, EditPrepared
    <3>4. CASE ReadToCompensate
      <4>1. tick.worker \in Workers /\ Registered(tick.worker)
        BY <1>2, <3>4 DEF ReadToCompensate
      <4> QED
        BY <3>1, <3>3, <3>4, <4>1 DEF ReadToCompensate
    <3>5. ASSUME NEW a \in Attempts, NEW w \in Workers, ReadToFinalize(a, w) PROVE RecordsAfter({})
      <4> DEFINE s == IF registry[w].status \in NonReusable THEN registry[w].status ELSE "ready"
      <4>1. s \in {"ready", "exited", "unhealthy"}
        BY DEF NonReusable
      <4>2. Prepare(TickCaller, w, Release(w, s)) /\ Registered(w) /\ UNCHANGED registry
        BY <3>5 DEF ReadToFinalize, Holds
      <4> HIDE DEF s
      <4> QED
        BY <3>3, <4>1, <4>2
    <3>6. CASE Reserve \/ ReleaseWorker
      BY <1>0, <1>1, <3>6, Commits DEF Reserve, ReleaseWorker
    <3> QED
      BY <1>4, <3>1, <3>2, <3>4, <3>5, <3>6 DEF Dispatch, StartReturns, WriteInbox, Decide, FinalizeNothing
  <2>5. StartInv'
    BY <1>0, <2>1, <2>2, <2>4, StartStays DEF StartInv, Registered
  <2>6. WriteInv'
    <3>1. \A d \in Callers : d # TickCaller => writes'[d] = writes[d]
      <4>1. UNCHANGED writes \/ Commit(TickCaller) \/ \E w, r : Prepare(TickCaller, w, r)
        BY <1>4 DEF Dispatch, StartReturns, ReadToReserve, Reserve, WriteInbox,
           ReadToCompensate, ReleaseWorker, Decide, FinalizeNothing, ReadToFinalize
      <4>2. CASE UNCHANGED writes
        BY <4>2
      <4>3. CASE Commit(TickCaller) \/ \E w, r : Prepare(TickCaller, w, r)
        <5> HIDE DEF IInv
        <5> QED
          BY <4>3, WhoWrites
      <4> QED
        BY <4>1, <4>2, <4>3
    <3> QED
      BY <1>0, <3>1, WritesStay
  <2>7. BoxesAfter
    <3>1. CASE WriteInbox
      <4>1. /\ inbox' = [inbox EXCEPT ![tick.worker] = @ \cup {tick.attempt}]
            /\ UNCHANGED <<processing, main, decided, finalized, dispatched>>
            /\ tick.worker \in Workers /\ tick.attempt \in dispatched
        BY <1>2, <3>1 DEF WriteInbox
      <4>2. \A v \in Workers : inbox'[v] \subseteq inbox[v] \cup {tick.attempt}
        BY <4>1 DEF TypeOK
      <4>3. inbox' \in [Workers -> SUBSET Attempts]
        BY <4>1 DEF TypeOK
      <4> QED
        BY <4>1, <4>2, <4>3 DEF BoxesAfter, BoxInv, TypeOK
    <3>2. CASE \E a \in Attempts : Decide(a)
      BY <1>0, <3>2 DEF Decide, BoxesAfter, BoxInv, TypeOK
    <3>3. CASE UNCHANGED inbox /\ UNCHANGED decided
      <4>1. finalized' \subseteq decided
        BY <1>4, <3>3 DEF Dispatch, StartReturns, ReadToReserve, Reserve, WriteInbox,
           ReadToCompensate, ReleaseWorker, Decide, FinalizeNothing, ReadToFinalize, TypeOK
      <4> QED
        BY <1>0, <2>1, <3>3, <4>1, BoxesStay DEF TypeOK
    <3> QED
      BY <1>4, <3>1, <3>2, <3>3 DEF Dispatch, StartReturns, ReadToReserve, Reserve,
         ReadToCompensate, ReleaseWorker, FinalizeNothing, ReadToFinalize
  <2> QED
    BY <1>1, <2>3, <2>4, <2>5, <2>6, <2>7, Assembled
<1> QED
  BY <1>3, <1>4 DEF Tick

-------------------------------------------------------------------------------
(* A worker process.                                                         *)

\* A step moves only w's main loop, to a state the invariant allows.
Allowed(m) ==
  /\ m \in Main /\ m.claims \subseteq dispatched
  /\ m.at \in {"accepting", "executing", "published"} => m.attempt \in dispatched
MainAfter(w) ==
  /\ main' \in [Workers -> Main] /\ Allowed(main'[w])
  /\ \A v \in Workers : v # w => main'[v] = main[v]

\* A main loop that is allowed where it is.
LEMMA MainIs ==
  ASSUME IInv, NEW w \in Workers, NEW m, Allowed(m), main' = [main EXCEPT ![w] = m]
  PROVE  MainAfter(w) /\ main'[w] = m
BY DEF IInv, ControlType, Allowed, MainAfter

\* Every main loop is allowed where it is.
LEMMA MainAllowed == ASSUME IInv, NEW w \in Workers PROVE Allowed(main[w])
BY DEF IInv, ControlType, BoxInv, Allowed

\* A main loop that does not move is still allowed.
LEMMA MainStays == ASSUME IInv, NEW w \in Workers, UNCHANGED main PROVE MainAfter(w)
BY MainAllowed DEF IInv, ControlType, MainAfter

\* A main loop that goes on with a dispatched attempt is allowed.
LEMMA MainGoes ==
  ASSUME IInv, NEW w \in Workers, NEW x \in Mains, MainAt(w, x),
         x \in {"accepting", "executing", "published"} => main[w].attempt \in dispatched
  PROVE  MainAfter(w) /\ main'[w].at = x
<1> DEFINE m == [main[w] EXCEPT !.at = x]
<1>1. main[w] \in Main /\ main[w].claims \subseteq dispatched
  BY MainAllowed DEF Allowed
<1>2. Allowed(m) /\ m.at = x
  BY <1>1 DEF Allowed, Main
<1>3. main' = [main EXCEPT ![w] = m]
  BY DEF MainAt, IInv, ControlType
<1> HIDE DEF m
<1> QED
  BY <1>2, <1>3, MainIs

\* A main loop that ends takes its process along.
LEMMA MainEnds ==
  ASSUME IInv, NEW w \in Workers, Ends(w)
  PROVE  /\ MainAfter(w) /\ main'[w].at = "gone"
         /\ proc' \in [Workers -> {"none", "alive", "dead"}]
         /\ \A v \in Workers : v # w => proc'[v] = proc[v]
<1> DEFINE m == [at |-> "gone", claims |-> {}, attempt |-> NoAttempt, seen |-> NoRecord]
<1>1. Allowed(m) /\ m.at = "gone"
  BY DEF Allowed, Main, Mains
<1>2. main' = [main EXCEPT ![w] = m]
  BY DEF Ends
<1> HIDE DEF m
<1>3. MainAfter(w) /\ main'[w].at = "gone"
  BY <1>1, <1>2, MainIs
<1> QED
  BY <1>3 DEF Ends, IInv, TypeOK

\* The write a main loop has prepared.
LEMMA MainWrite ==
  ASSUME IInv, NEW w \in Workers, MainAfter(w),
         \A d \in Callers : d \notin WorkerCalls(w) => writes'[d] = writes[d],
         writes'[<<"main", w>>] # NoWrite => writes'[<<"main", w>>].worker = w,
         main'[w].at = "leaving" => writes'[<<"main", w>>] # NoWrite
  PROVE  WriteInv'
<1>1. \A v \in Workers : v # w => writes'[<<"main", v>>] = writes[<<"main", v>>]
  BY CallersAre, MainIsItsOwn DEF WorkerCalls
<1> QED
  BY <1>1 DEF IInv, WriteInv, MainAfter

\* What a caller's write becomes.
LEMMA Prepared ==
  ASSUME IInv, NEW c \in Callers, NEW w, NEW r, Prepare(c, w, r)
  PROVE  /\ writes'[c] = [worker |-> w, record |-> r]
         /\ \A d \in Callers : d # c => writes'[d] = writes[d]
BY DEF IInv, TypeOK, Prepare

\* A committed write is gone, the others stay.
LEMMA Committed ==
  ASSUME IInv, NEW c \in Callers, Commit(c)
  PROVE  writes'[c] = NoWrite /\ \A d \in Callers : d # c => writes'[d] = writes[d]
BY DEF IInv, TypeOK, Commit

\* The writes of a worker that is gone are dropped.
LEMMA Dropped ==
  ASSUME IInv, NEW w \in Workers,
         writes' = [c \in Callers |-> IF c \in WorkerCalls(w) THEN NoWrite ELSE writes[c]]
  PROVE  /\ writes' \in [Callers -> Write \cup {NoWrite}]
         /\ \A c \in Callers : writes'[c] \in {writes[c], NoWrite}
         /\ \A d \in Callers : d \notin WorkerCalls(w) => writes'[d] = writes[d]
         /\ writes'[<<"main", w>>] = NoWrite
BY CallersAre DEF IInv, TypeOK, WorkerCalls

\* The write of its main loop is prepared, done, or dropped.
LEMMA MainPrepares ==
  ASSUME IInv, NEW w \in Workers, NEW r \in Record, MainAfter(w), Prepare(<<"main", w>>, w, r)
  PROVE  WriteInv'
<1>1. <<"main", w>> \in Callers
  BY CallersAre
<1> DEFINE x == [worker |-> w, record |-> r]
<1>2. x.worker = w /\ x # NoWrite
  BY NoneIsNothing
<1>3. /\ writes'[<<"main", w>>] = x
      /\ \A d \in Callers : d # <<"main", w>> => writes'[d] = writes[d]
  BY <1>1, Prepared
<1> HIDE DEF x
<1> QED
  BY <1>2, <1>3, MainWrite DEF WorkerCalls

\* A main loop's commit leaves the other writes in order.
LEMMA MainCommits ==
  ASSUME IInv, NEW w \in Workers, MainAfter(w), Commit(<<"main", w>>), main'[w].at # "leaving"
  PROVE  WriteInv'
<1>1. <<"main", w>> \in Callers
  BY CallersAre
<1>2. /\ writes'[<<"main", w>>] = NoWrite
      /\ \A d \in Callers : d # <<"main", w>> => writes'[d] = writes[d]
  BY <1>1, Committed
<1> QED
  BY <1>2, MainWrite DEF WorkerCalls

\* A main loop that leaves a write alone leaves it in order.
LEMMA MainKeepsWrite ==
  ASSUME IInv, NEW w \in Workers, MainAfter(w),
         \A d \in Callers : d # <<"beat", w>> => writes'[d] = writes[d],
         main'[w].at = "leaving" => main[w].at = "leaving"
  PROVE  WriteInv'
<1>1. <<"main", w>> \in Callers /\ <<"main", w>> # <<"beat", w>>
  BY CallersAre, MainIsItsOwn
<1>2. writes'[<<"main", w>>] = writes[<<"main", w>>]
  BY <1>1
<1> QED
  BY <1>2, MainWrite DEF WorkerCalls, IInv, WriteInv

\* A main loop that is gone has no writes.
LEMMA MainDrops ==
  ASSUME IInv, NEW w \in Workers, MainAfter(w), main'[w].at = "gone",
         writes' = [c \in Callers |-> IF c \in WorkerCalls(w) THEN NoWrite ELSE writes[c]]
  PROVE  WriteInv'
BY Dropped, MainWrite

\* The rest of the invariant, when a worker process does something.
LEMMA WorkerAssembled ==
  ASSUME IInv, NEW w \in Workers, Registered(w),
         UNCHANGED <<tick, start, parent, exit, finalized, dispatched>>,
         janitor' \in JanitorStates,
         janitor'.at # "idle" => janitor'.worker \in Workers /\ registry[janitor'.worker] # NoRecord,
         RecordsAfter({}), MainAfter(w), WriteInv',
         proc' \in [Workers -> {"none", "alive", "dead"}],
         \A v \in Workers : v # w => proc'[v] = proc[v],
         inbox' \in [Workers -> SUBSET Attempts], processing' \in [Workers -> SUBSET Attempts],
         \A v \in Workers : inbox'[v] \cup processing'[v] \subseteq dispatched,
         decided \subseteq decided', decided' \subseteq dispatched
  PROVE  IInv'
<1> USE DEF IInv
<1>1. ExitAfter
  BY ExitsStay
<1>2. StatesAfter
  BY DEF StatesAfter, MainAfter, ControlType
<1>3. BoxesAfter
  <2>1. \A v \in Workers :
          /\ main'[v].claims \subseteq dispatched
          /\ main'[v].at \in {"accepting", "executing", "published"} => main'[v].attempt \in dispatched
    BY DEF MainAfter, Allowed, BoxInv
  <2> QED
    BY <2>1 DEF BoxesAfter, BoxInv, TypeOK
<1>4. StartInv'
  <2>1. \A v \in Workers : ~Registered(v) => proc'[v] = "none"
    BY DEF StartInv
  <2>2. \A v \in Workers : start[v] \in {"none", "registered"} => exit'[v].at = "none"
    BY DEF StartInv
  <2>3. tick'.at # "idle" => /\ tick'.worker \in Workers /\ registry[tick'.worker] # NoRecord
                             /\ tick'.attempt \in dispatched'
    BY DEF StartInv, Registered
  <2> QED
    BY <2>1, <2>2, <2>3, StartStays
<1> QED
  BY <1>1, <1>2, <1>3, <1>4, Assembled

\* The same when the janitor and the boxes are left alone.
LEMMA ProcessAssembled ==
  ASSUME IInv, NEW w \in Workers, Registered(w),
         UNCHANGED <<tick, janitor, start, parent, exit, decided, finalized, dispatched>>,
         UNCHANGED <<inbox, processing>>,
         RecordsAfter({}), MainAfter(w), WriteInv',
         proc' \in [Workers -> {"none", "alive", "dead"}],
         \A v \in Workers : v # w => proc'[v] = proc[v]
  PROVE  IInv'
<1>1. /\ inbox' \in [Workers -> SUBSET Attempts] /\ processing' \in [Workers -> SUBSET Attempts]
      /\ \A v \in Workers : inbox'[v] \cup processing'[v] \subseteq dispatched
      /\ decided' \subseteq dispatched
  BY DEF IInv, TypeOK, BoxInv
<1>2. /\ janitor' \in JanitorStates
      /\ janitor'.at # "idle" => janitor'.worker \in Workers /\ registry[janitor'.worker] # NoRecord
  BY DEF IInv, ControlType, StartInv, Registered
<1> QED
  BY <1>1, <1>2, WorkerAssembled


\* The steps of a worker process, one by one.
LEMMA BootKeeps == ASSUME IInv, NEW w \in Workers, Boot(w) PROVE IInv'
<1> USE DEF IInv, boxes, hubVars
<1>1. /\ Registered(w) /\ UNCHANGED <<registry, inbox, processing, writes, start, parent, exit>>
      /\ UNCHANGED <<tick, janitor, stops, decided, finalized, dispatched>>
  BY AliveIsRegistered DEF Boot
<1>2. RecordsAfter({})
  BY <1>1, ExitsStay, Drops DEF ExitAfter, TypeOK
<1>3. /\ MainAfter(w) /\ main'[w].at # "leaving"
      /\ proc' \in [Workers -> {"none", "alive", "dead"}]
      /\ \A v \in Workers : v # w => proc'[v] = proc[v]
  <2>1. CASE Ends(w)
    BY <2>1, MainEnds
  <2>2. CASE ~Ends(w)
    <3> DEFINE m == [main[w] EXCEPT !.at = "booted", !.seen = registry[w]]
    <3>1. main[w] \in Main /\ Allowed(main[w]) /\ registry[w] \in Record \cup {NoRecord}
      BY MainAllowed DEF ControlType, TypeOK
    <3>2. Allowed(m) /\ m.at = "booted"
      BY <3>1 DEF Allowed, Main, Mains
    <3>3. main' = [main EXCEPT ![w] = m] /\ UNCHANGED proc
      BY <2>2 DEF Boot, ControlType
    <3> HIDE DEF m
    <3> QED
      BY <3>2, <3>3, MainIs DEF TypeOK
  <2> QED
    BY <2>1, <2>2
<1>4. WriteInv'
  BY <1>1, <1>3, MainKeepsWrite
<1> QED
  BY <1>1, <1>2, <1>3, <1>4, ProcessAssembled

\* Each step of the main loop keeps the invariant.
LEMMA ReadToActivateKeeps == ASSUME IInv, NEW w \in Workers, ReadToActivate(w) PROVE IInv'
<1> USE DEF IInv, boxes, hubVars
<1>1. /\ Registered(w) /\ UNCHANGED <<registry, inbox, processing, start, parent, exit>>
      /\ UNCHANGED <<tick, janitor, stops, decided, finalized, dispatched>>
  BY AliveIsRegistered DEF ReadToActivate
<1>2. DistanceKept
  BY <1>1, ExitsStay DEF ExitAfter
<1>3. CASE Ends(w) /\ UNCHANGED writes
  <2>1. RecordsAfter({})
    BY <1>1, <1>2, <1>3, Drops DEF TypeOK
  <2>2. /\ MainAfter(w) /\ main'[w].at # "leaving"
        /\ proc' \in [Workers -> {"none", "alive", "dead"}]
        /\ \A v \in Workers : v # w => proc'[v] = proc[v]
    BY <1>3, MainEnds
  <2>3. WriteInv'
    BY <1>3, <2>2, MainKeepsWrite
  <2> QED
    BY <1>1, <2>1, <2>2, <2>3, ProcessAssembled
<1>4. CASE ~(Ends(w) /\ UNCHANGED writes)
  <2> DEFINE r == [registry[w] EXCEPT !.identified = TRUE,
                                      !.status = IF @ = "starting" THEN "ready" ELSE @]
             m == [main[w] EXCEPT !.at = "activating", !.seen = NoRecord]
  <2>1. Edits(w, r)
    BY <1>1, Edited
  <2>2. Prepare(<<"main", w>>, w, r) /\ UNCHANGED proc
    BY <1>4 DEF ReadToActivate
  <2>3. main' = [main EXCEPT ![w] = m]
    BY <1>4 DEF ReadToActivate, ControlType
  <2>4. Allowed(m)
    BY MainAllowed DEF Allowed, Main, Mains
  <2> HIDE DEF r, m
  <2>5. MainAfter(w)
    BY <2>3, <2>4, MainIs
  <2>6. RecordsAfter({})
    BY <1>1, <1>2, <2>1, <2>2, CallersAre, EditPrepared
  <2>7. WriteInv'
    BY <2>1, <2>2, <2>5, MainPrepares DEF Edits
  <2> QED
    BY <1>1, <2>2, <2>5, <2>6, <2>7, ProcessAssembled DEF TypeOK
<1> QED
  BY <1>3, <1>4

\* The main loop's status writes.
LEMMA MainWritesKeeps ==
  ASSUME IInv, NEW w \in Workers, Activate(w) \/ Accept(w) \/ GoIdle(w) PROVE IInv'
<1> USE DEF IInv, boxes, hubVars
<1>1. /\ Registered(w) /\ UNCHANGED <<inbox, processing, proc, start, parent, exit>>
      /\ UNCHANGED <<tick, janitor, stops, decided, finalized, dispatched>>
      /\ <<"main", w>> \in Callers /\ Commit(<<"main", w>>)
  BY AliveIsRegistered, CallersAre DEF Activate, Accept, GoIdle, MainWrites
<1>2. RecordsAfter({})
  BY <1>1, ExitsStay, Commits DEF ExitAfter
<1>3. MainAfter(w) /\ main'[w].at # "leaving"
  <2>1. CASE MainAt(w, "idle")
    BY <2>1, MainGoes DEF Mains
  <2>2. CASE Accept(w)
    <3>1. main[w].attempt \in dispatched /\ MainAt(w, "executing")
      BY <2>2 DEF Accept, MainWrites, BoxInv
    <3> QED
      BY <3>1, MainGoes DEF Mains
  <2> QED
    BY <2>1, <2>2 DEF Activate, GoIdle, MainWrites
<1>4. WriteInv'
  BY <1>1, <1>3, MainCommits
<1> QED
  BY <1>1, <1>2, <1>3, <1>4, ProcessAssembled DEF TypeOK

\* Claiming the inbox.
LEMMA ClaimKeeps == ASSUME IInv, NEW w \in Workers, Claim(w) PROVE IInv'
<1> USE DEF IInv, boxes, hubVars
<1>1. /\ Registered(w) /\ UNCHANGED <<registry, proc, writes, start, parent, exit>>
      /\ UNCHANGED <<tick, janitor, stops, decided, finalized, dispatched>>
  BY AliveIsRegistered DEF Claim
<1>2. RecordsAfter({})
  BY <1>1, ExitsStay, Drops DEF ExitAfter, TypeOK
<1>3. inbox[w] \subseteq dispatched /\ inbox[w] \subseteq Attempts
  BY DEF BoxInv, TypeOK
<1>4. MainAfter(w) /\ main'[w].at = "idle"
  <2> DEFINE m == [main[w] EXCEPT !.claims = inbox[w]]
  <2>1. Allowed(m) /\ m.at = "idle"
    BY <1>3, MainAllowed DEF Claim, Allowed, Main
  <2>2. main' = [main EXCEPT ![w] = m]
    BY DEF Claim, ControlType
  <2> HIDE DEF m
  <2> QED
    BY <2>1, <2>2, MainIs
<1>5. /\ inbox' \in [Workers -> SUBSET Attempts] /\ processing' \in [Workers -> SUBSET Attempts]
      /\ \A v \in Workers : inbox'[v] \cup processing'[v] \subseteq inbox[v] \cup processing[v]
  BY DEF Claim, TypeOK
<1>6. \A v \in Workers : inbox'[v] \cup processing'[v] \subseteq dispatched
  BY <1>5 DEF BoxInv
<1>7. WriteInv'
  BY <1>1, <1>4, MainKeepsWrite
<1>8. /\ janitor' \in JanitorStates
      /\ janitor'.at # "idle" => janitor'.worker \in Workers /\ registry[janitor'.worker] # NoRecord
  BY <1>1 DEF ControlType, StartInv, Registered
<1> QED
  BY <1>1, <1>2, <1>4, <1>5, <1>6, <1>7, <1>8, WorkerAssembled DEF TypeOK

\* Reading the record to accept an attempt.
LEMMA ReadToAcceptKeeps ==
  ASSUME IInv, NEW w \in Workers, NEW a \in Attempts, ReadToAccept(w, a) PROVE IInv'
<1> USE DEF IInv, boxes, hubVars
<1>1. /\ Registered(w) /\ UNCHANGED <<registry, inbox, proc, start, parent, exit>>
      /\ UNCHANGED <<tick, janitor, stops, decided, finalized, dispatched>>
      /\ a \in dispatched
  BY AliveIsRegistered DEF ReadToAccept, BoxInv
<1>2. DistanceKept
  BY <1>1, ExitsStay DEF ExitAfter
<1>3. /\ janitor' \in JanitorStates
      /\ janitor'.at # "idle" => janitor'.worker \in Workers /\ registry[janitor'.worker] # NoRecord
  BY <1>1 DEF ControlType, StartInv, Registered
<1>4. CASE Discard(w, a) /\ UNCHANGED writes
  <2>1. RecordsAfter({})
    BY <1>1, <1>2, <1>4, Drops DEF TypeOK
  <2>2. MainAfter(w) /\ main'[w].at = main[w].at
    <3> DEFINE m == [main[w] EXCEPT !.claims = @ \ {a}]
    <3>1. Allowed(m) /\ m.at = main[w].at
      BY MainAllowed DEF Allowed, Main
    <3>2. main' = [main EXCEPT ![w] = m]
      BY <1>4 DEF Discard, ControlType
    <3> HIDE DEF m
    <3> QED
      BY <3>1, <3>2, MainIs
  <2>3. /\ inbox' \in [Workers -> SUBSET Attempts] /\ processing' \in [Workers -> SUBSET Attempts]
        /\ \A v \in Workers : inbox'[v] \cup processing'[v] \subseteq inbox[v] \cup processing[v]
    BY <1>1, <1>4 DEF Discard, TypeOK
  <2>4. \A v \in Workers : inbox'[v] \cup processing'[v] \subseteq dispatched
    BY <2>3 DEF BoxInv
  <2>5. WriteInv'
    BY <1>4, <2>2, MainKeepsWrite
  <2> QED
    BY <1>1, <1>3, <2>1, <2>2, <2>3, <2>4, <2>5, WorkerAssembled DEF TypeOK
<1>5. CASE ~(Discard(w, a) /\ UNCHANGED writes)
  <2> DEFINE m == [main[w] EXCEPT !.at = "accepting", !.attempt = a, !.claims = @ \ {a}]
  <2>1. "running" \in Statuses
    BY DEF Statuses
  <2>2. \A s \in Statuses : s # "restarting" => Edits(w, SetStatus(w, s))
    BY <1>1, Edited DEF SetStatus
  <2>3. Prepare(<<"main", w>>, w, SetStatus(w, "running")) /\ UNCHANGED processing
    BY <1>5 DEF ReadToAccept
  <2>4. main' = [main EXCEPT ![w] = m]
    BY <1>5 DEF ReadToAccept, ControlType
  <2>5. Allowed(m)
    BY <1>1, MainAllowed DEF Allowed, Main, Mains
  <2> HIDE DEF m
  <2>6. MainAfter(w)
    BY <2>4, <2>5, MainIs
  <2>7. Edits(w, SetStatus(w, "running"))
    BY <2>1, <2>2
  <2>8. RecordsAfter({})
    BY <1>1, <1>2, <2>3, <2>7, CallersAre, EditPrepared
  <2>9. WriteInv'
    BY <2>3, <2>6, <2>7, MainPrepares DEF Edits
  <2> QED
    BY <1>1, <2>3, <2>6, <2>8, <2>9, ProcessAssembled DEF TypeOK
<1> QED
  BY <1>4, <1>5

\* Publishing the result of an attempt.
LEMMA PublishKeeps == ASSUME IInv, NEW w \in Workers, Publish(w) PROVE IInv'
<1> USE DEF IInv, boxes, hubVars
<1> DEFINE a == main[w].attempt
<1>1. /\ Registered(w) /\ UNCHANGED <<registry, inbox, proc, writes, start, parent, exit>>
      /\ UNCHANGED <<tick, janitor, stops, finalized, dispatched>>
      /\ a \in dispatched /\ decided' = decided \cup {a} /\ MainAt(w, "published")
  BY AliveIsRegistered DEF Publish, BoxInv
<1>2. RecordsAfter({})
  BY <1>1, ExitsStay, Drops DEF ExitAfter, TypeOK
<1>3. MainAfter(w) /\ main'[w].at = "published"
  BY <1>1, MainGoes DEF Mains
<1>4. /\ inbox' \in [Workers -> SUBSET Attempts] /\ processing' \in [Workers -> SUBSET Attempts]
      /\ \A v \in Workers : inbox'[v] \cup processing'[v] \subseteq inbox[v] \cup processing[v]
  BY <1>1 DEF Publish, TypeOK
<1>5. \A v \in Workers : inbox'[v] \cup processing'[v] \subseteq dispatched
  BY <1>4 DEF BoxInv
<1>6. WriteInv'
  BY <1>1, <1>3, MainKeepsWrite
<1>7. /\ janitor' \in JanitorStates
      /\ janitor'.at # "idle" => janitor'.worker \in Workers /\ registry[janitor'.worker] # NoRecord
  BY <1>1 DEF ControlType, StartInv, Registered
<1>8. decided \subseteq decided' /\ decided' \subseteq dispatched
  BY <1>1 DEF TypeOK
<1> QED
  BY <1>1, <1>2, <1>3, <1>4, <1>5, <1>6, <1>7, <1>8, WorkerAssembled DEF TypeOK

\* Reading the record to shut down.
LEMMA ReadToShutdownKeeps == ASSUME IInv, NEW w \in Workers, ReadToShutdown(w) PROVE IInv'
<1> USE DEF IInv, boxes, hubVars
<1>1. /\ Registered(w) /\ UNCHANGED <<registry, inbox, processing, proc, start, parent, exit>>
      /\ UNCHANGED <<tick, janitor, stops, decided, finalized, dispatched>>
      /\ MainAt(w, "leaving")
  BY AliveIsRegistered DEF ReadToShutdown
<1> DEFINE b == registry[w].stopped \/ main[w].at = "idle"
           r == [[registry[w] EXCEPT !.status = "exited"] EXCEPT !.stopped = b]
<1>2. Edits(w, r)
  <2>1. b \in BOOLEAN
    OBVIOUS
  <2> HIDE DEF b
  <2> QED
    BY <1>1, <2>1, Edited
<1>3. Prepare(<<"main", w>>, w, r)
  <2>1. registry[w] \in Record
    BY <1>1 DEF TypeOK, Registered
  <2>2. SetStatus(w, "exited").stopped = registry[w].stopped
    BY <2>1 DEF SetStatus, Record
  <2>3. r = [SetStatus(w, "exited") EXCEPT !.stopped = @ \/ main[w].at = "idle"]
    BY <2>1, <2>2 DEF SetStatus, Record
  <2> QED
    BY <2>3 DEF ReadToShutdown
<1> HIDE DEF r
<1>4. RecordsAfter({})
  BY <1>1, <1>2, <1>3, CallersAre, ExitsStay, EditPrepared DEF ExitAfter
<1>5. MainAfter(w)
  BY <1>1, MainGoes DEF Mains
<1>6. WriteInv'
  BY <1>2, <1>3, <1>5, MainPrepares DEF Edits
<1> QED
  BY <1>1, <1>4, <1>5, <1>6, ProcessAssembled DEF TypeOK

\* Shutting down.
LEMMA ShutdownKeeps == ASSUME IInv, NEW w \in Workers, Shutdown(w) PROVE IInv'
<1> USE DEF IInv, boxes, hubVars
<1>1. /\ Registered(w) /\ UNCHANGED <<inbox, processing, start, parent, exit>>
      /\ UNCHANGED <<tick, janitor, stops, decided, finalized, dispatched>> /\ Ends(w)
      /\ writes' = [c \in Callers |-> IF c \in WorkerCalls(w) THEN NoWrite ELSE writes[c]]
  BY AliveIsRegistered DEF Shutdown
<1> DEFINE r == writes[<<"main", w>>].record
<1>2. writes[<<"main", w>>] # NoWrite /\ writes[<<"main", w>>].worker = w
  BY DEF Shutdown, WriteInv
<1>3. Agrees(r, Distance[w], w \in Unseen)
  BY <1>2, CallersAre DEF RecordsInv
<1>4. registry' = [registry EXCEPT ![w] = r]
  BY DEF Shutdown
<1> HIDE DEF r
<1>5. RecordsAfter({})
  BY <1>1, <1>3, <1>4, Dropped, ExitsStay, Puts DEF ExitAfter
<1>6. /\ MainAfter(w) /\ main'[w].at = "gone"
      /\ proc' \in [Workers -> {"none", "alive", "dead"}]
      /\ \A v \in Workers : v # w => proc'[v] = proc[v]
  BY <1>1, MainEnds
<1>7. WriteInv'
  BY <1>1, <1>6, MainDrops
<1> QED
  BY <1>1, <1>5, <1>6, <1>7, ProcessAssembled

\* Reading the record to go idle.
LEMMA ReadToGoIdleKeeps == ASSUME IInv, NEW w \in Workers, ReadToGoIdle(w) PROVE IInv'
<1> USE DEF IInv, boxes, hubVars
<1>1. /\ Registered(w) /\ UNCHANGED <<registry, inbox, processing, proc, start, parent, exit>>
      /\ UNCHANGED <<tick, janitor, stops, decided, finalized, dispatched>>
  BY AliveIsRegistered DEF ReadToGoIdle
<1>2. DistanceKept
  BY <1>1, ExitsStay DEF ExitAfter
<1>3. MainAfter(w) /\ main'[w].at # "leaving"
  <2> DEFINE at == IF Holds(w, main[w].attempt, Busy) THEN "releasing" ELSE "idle"
             m == [main[w] EXCEPT !.at = at, !.attempt = NoAttempt]
  <2>1. at \in {"releasing", "idle"}
    OBVIOUS
  <2>2. main' = [main EXCEPT ![w] = m]
    BY DEF ReadToGoIdle, ControlType
  <2> HIDE DEF at
  <2>3. Allowed(m) /\ m.at # "leaving"
    BY <2>1, MainAllowed DEF Allowed, Main, Mains
  <2> HIDE DEF m
  <2> QED
    BY <2>2, <2>3, MainIs
<1>4. CASE UNCHANGED writes
  <2>1. RecordsAfter({}) /\ WriteInv'
    BY <1>1, <1>2, <1>3, <1>4, Drops, MainKeepsWrite DEF TypeOK
  <2> QED
    BY <1>1, <1>3, <2>1, ProcessAssembled DEF TypeOK
<1>5. CASE Prepare(<<"main", w>>, w, Release(w, "ready"))
  <2>1. "ready" \in Statuses
    BY DEF Statuses
  <2>2. \A s \in Statuses : s # "restarting" => Edits(w, Release(w, s))
    BY <1>1, Edited DEF Release
  <2>3. Edits(w, Release(w, "ready"))
    BY <2>1, <2>2
  <2>4. RecordsAfter({}) /\ WriteInv'
    BY <1>1, <1>2, <1>3, <1>5, <2>3, CallersAre, EditPrepared, MainPrepares DEF Edits
  <2> QED
    BY <1>1, <1>3, <2>4, ProcessAssembled DEF TypeOK
<1> QED
  BY <1>4, <1>5 DEF ReadToGoIdle

\* The heartbeat.
LEMMA BeatKeeps ==
  ASSUME IInv, NEW w \in Workers, ReadToBeat(w) \/ Beat(w) PROVE IInv'
<1> USE DEF IInv, boxes, hubVars
<1>1. /\ Registered(w) /\ UNCHANGED <<inbox, processing, proc, main, start, parent, exit>>
      /\ UNCHANGED <<tick, janitor, stops, decided, finalized, dispatched>>
      /\ <<"beat", w>> \in Callers
  BY AliveIsRegistered, CallersAre DEF ReadToBeat, Beat
<1>2. DistanceKept
  BY <1>1, ExitsStay DEF ExitAfter
<1>3. RecordsAfter({})
  <2>1. CASE ReadToBeat(w)
    BY <1>1, <1>2, <2>1, Edited, EditPrepared DEF ReadToBeat
  <2>2. CASE Beat(w)
    BY <1>1, <1>2, <2>2, Commits DEF Beat
  <2> QED
    BY <2>1, <2>2
<1>4. \A d \in Callers : d # <<"beat", w>> => writes'[d] = writes[d]
  <2> HIDE DEF IInv
  <2>1. CASE ReadToBeat(w)
    BY <1>1, <2>1, Prepared DEF ReadToBeat
  <2>2. CASE Beat(w)
    BY <1>1, <2>2, Committed DEF Beat
  <2> QED
    BY <2>1, <2>2
<1>5. MainAfter(w) /\ WriteInv'
  BY <1>1, <1>4, MainStays, MainKeepsWrite
<1> QED
  BY <1>1, <1>3, <1>5, ProcessAssembled DEF TypeOK

\* A crash of the worker.
LEMMA CrashKeeps == ASSUME IInv, NEW w \in Workers, Crash(w) PROVE IInv'
<1> USE DEF IInv, boxes, hubVars
<1>1. /\ Registered(w) /\ UNCHANGED <<registry, inbox, processing, start, parent, exit>>
      /\ UNCHANGED <<tick, janitor, stops, decided, finalized, dispatched>> /\ Ends(w)
      /\ writes' = [c \in Callers |-> IF c \in WorkerCalls(w) THEN NoWrite ELSE writes[c]]
  BY AliveIsRegistered DEF Crash
<1>2. RecordsAfter({})
  BY <1>1, Dropped, ExitsStay, Drops DEF ExitAfter
<1>3. /\ MainAfter(w) /\ main'[w].at = "gone"
      /\ proc' \in [Workers -> {"none", "alive", "dead"}]
      /\ \A v \in Workers : v # w => proc'[v] = proc[v]
  BY <1>1, MainEnds
<1>4. WriteInv'
  BY <1>1, <1>3, MainDrops
<1> QED
  BY <1>1, <1>2, <1>3, <1>4, ProcessAssembled

\* Every step of a worker keeps the invariant.
LEMMA WorkerKeeps ==
  ASSUME IInv, NEW w \in Workers,
         MainLoop(w) \/ ReadToShutdown(w) \/ ReadToBeat(w) \/ Beat(w) \/ Crash(w)
  PROVE  IInv'
BY BootKeeps, ReadToActivateKeeps, MainWritesKeeps, ClaimKeeps, ReadToAcceptKeeps, PublishKeeps,
   ReadToShutdownKeeps, ShutdownKeeps, ReadToGoIdleKeeps, BeatKeeps, CrashKeeps DEF MainLoop

-------------------------------------------------------------------------------
(* The janitor.                                                              *)
LEMMA JanitorKeeps == ASSUME IInv, Janitor PROVE IInv'
<1> USE DEF IInv, boxes
<1>1. /\ UNCHANGED <<inbox, processing, tick, decided, finalized, dispatched, start, parent, exit>>
      /\ JanitorCaller \in Callers /\ \A v \in Workers : <<"main", v>> # JanitorCaller
  BY CallersAre, MainIsItsOwn
     DEF Janitor, ReadToMarkUnhealthy, MarkUnhealthy, SeeIdle, BeginStop, Kill, ReadToStop, Stop
<1>2. janitor.at # "idle" => janitor.worker \in Workers /\ Registered(janitor.worker)
  BY DEF StartInv
<1>3. PICK w \in Workers :
        /\ Registered(w)
        /\ \/ ReadToMarkUnhealthy(w) \/ SeeIdle(w)
           \/ w = janitor.worker /\ (MarkUnhealthy \/ BeginStop \/ Kill \/ ReadToStop \/ Stop)
  BY <1>2 DEF Janitor, ReadToMarkUnhealthy, SeeIdle, Holds, MarkUnhealthy, BeginStop, Kill,
     ReadToStop, Stop
<1>4. DistanceKept
  BY <1>1, ExitsStay DEF ExitAfter
<1>5. /\ janitor' \in JanitorStates
      /\ janitor'.at # "idle" => janitor'.worker \in Workers /\ registry[janitor'.worker] # NoRecord
  <2>1. JanitorAt("idle", NoWorker)
          \/ \E at \in {"marking", "stop", "kill", "mark", "stopping"} : JanitorAt(at, w)
    BY <1>3 DEF ReadToMarkUnhealthy, SeeIdle, MarkUnhealthy, BeginStop, Kill, ReadToStop, Stop
  <2> QED
    BY <1>3, <2>1 DEF JanitorAt, JanitorStates, Registered
<1>6. inbox' \in [Workers -> SUBSET Attempts] /\ processing' \in [Workers -> SUBSET Attempts]
  BY <1>1 DEF TypeOK
<1>7. /\ \A v \in Workers : inbox'[v] \cup processing'[v] \subseteq dispatched
      /\ decided \subseteq decided' /\ decided' \subseteq dispatched
  BY <1>1 DEF BoxInv, TypeOK
<1>8. ASSUME RecordsAfter({}), UNCHANGED <<proc, main>>,
             \A d \in Callers : d # JanitorCaller => writes'[d] = writes[d]
      PROVE  IInv'
  <2>1. MainAfter(w)
    BY <1>8, MainStays
  <2>2. WriteInv'
    BY <1>1, <1>8, WritesStay
  <2> QED
    BY <1>1, <1>3, <1>5, <1>6, <1>7, <1>8, <2>1, <2>2, WorkerAssembled DEF TypeOK
<1>9. ASSUME NEW r, Edits(w, r), Prepare(JanitorCaller, w, r), UNCHANGED <<registry, proc, main>>
      PROVE  IInv'
  <2>1. RecordsAfter({})
    BY <1>1, <1>3, <1>4, <1>9, EditPrepared
  <2>2. \A d \in Callers : d # JanitorCaller => writes'[d] = writes[d]
    <3> HIDE DEF IInv
    <3> QED
      BY <1>1, <1>9, Prepared
  <2> QED
    BY <1>8, <1>9, <2>1, <2>2
<1>10. ASSUME Commit(JanitorCaller), UNCHANGED <<proc, main>> PROVE IInv'
  <2>1. RecordsAfter({})
    BY <1>1, <1>4, <1>10, Commits
  <2>2. \A d \in Callers : d # JanitorCaller => writes'[d] = writes[d]
    <3> HIDE DEF IInv
    <3> QED
      BY <1>1, <1>10, Committed
  <2> QED
    BY <1>8, <1>10, <2>1, <2>2
<1>11. ASSUME UNCHANGED <<registry, writes, proc, main>> PROVE IInv'
  <2>1. RecordsAfter({})
    BY <1>4, <1>11, Drops DEF TypeOK
  <2> QED
    BY <1>8, <1>11, <2>1
<1>12. CASE ReadToMarkUnhealthy(w)
  <2>1. Edits(w, SetStatus(w, "unhealthy"))
    <3>1. \A s \in Statuses : s # "restarting" => Edits(w, SetStatus(w, s))
      BY <1>3, Edited DEF SetStatus
    <3> QED
      BY <3>1 DEF Statuses
  <2> QED
    BY <1>9, <1>12, <2>1 DEF ReadToMarkUnhealthy
<1>13. CASE ReadToStop /\ w = janitor.worker
  <2> DEFINE r == [[registry[w] EXCEPT !.status = "exited"] EXCEPT !.stopped = TRUE]
  <2>1. Edits(w, r)
    BY <1>3, Edited
  <2>2. Prepare(JanitorCaller, w, r)
    BY <1>13 DEF ReadToStop, SetStatus
  <2> HIDE DEF r
  <2> QED
    BY <1>9, <1>13, <2>1, <2>2 DEF ReadToStop
<1>14. CASE Kill /\ w = janitor.worker
  <2>1. CASE ~Alive(w)
    BY <1>11, <1>14, <2>1 DEF Kill
  <2>2. CASE Alive(w)
    <3>1. /\ UNCHANGED registry /\ Ends(w)
          /\ writes' = [c \in Callers |-> IF c \in WorkerCalls(w) THEN NoWrite ELSE writes[c]]
      BY <1>14, <2>2 DEF Kill
    <3>2. RecordsAfter({})
      BY <1>4, <3>1, Dropped, Drops
    <3>3. /\ MainAfter(w) /\ main'[w].at = "gone"
          /\ proc' \in [Workers -> {"none", "alive", "dead"}]
          /\ \A v \in Workers : v # w => proc'[v] = proc[v]
      BY <3>1, MainEnds
    <3>4. WriteInv'
      BY <3>1, <3>3, MainDrops
    <3> QED
      BY <1>1, <1>3, <1>5, <1>6, <1>7, <3>2, <3>3, <3>4, WorkerAssembled
  <2> QED
    BY <2>1, <2>2
<1>15. CASE SeeIdle(w) \/ BeginStop
  BY <1>11, <1>15 DEF SeeIdle, BeginStop
<1>16. CASE MarkUnhealthy \/ Stop
  BY <1>10, <1>16 DEF MarkUnhealthy, Stop
<1> QED
  BY <1>3, <1>12, <1>13, <1>14, <1>15, <1>16

-------------------------------------------------------------------------------
(* The exit handlers.                                                        *)

\* What an exit handler leaves alone, and so what is left to show.
LEMMA ExitAssembled ==
  ASSUME IInv, NEW w \in Workers, ExitAfter, RecordsAfter({}),
         exit[w].at # "none", \A v \in Workers : v # w => exit'[v] = exit[v],
         \A d \in Callers : d # <<"exit", w>> => writes'[d] = writes[d],
         UNCHANGED <<inbox, processing, proc, main, start, parent>>,
         UNCHANGED <<tick, janitor, stops, decided, finalized, dispatched>>
  PROVE  IInv'
<1> USE DEF IInv
<1>1. BoxesAfter
  BY BoxesStay DEF TypeOK
<1>2. StatesAfter
  BY DEF StatesAfter, TypeOK, ControlType
<1>3. StartInv'
  <2>1. start[w] \notin {"none", "registered"}
    BY AliveIsRegistered
  <2>2. \A v \in Workers : start[v] \in {"none", "registered"} => exit'[v].at = "none"
    BY <2>1 DEF StartInv
  <2>3. \A v \in Workers : ~Registered(v) => proc'[v] = "none"
    BY DEF StartInv
  <2> QED
    BY <2>2, <2>3, StartStays DEF StartInv, Registered
<1>4. WriteInv'
  BY MainIsItsOwn, WritesStay
<1> QED
  BY <1>1, <1>2, <1>3, <1>4, Assembled

\* The supervisor sees the exit.
LEMMA SeeExitKeeps == ASSUME IInv, NEW w \in Workers, SeeExit(w) PROVE IInv'
<1> USE DEF boxes, hubVars
<1>1. ExitAfter
  BY ExitSeen
<1>2. RecordsAfter({})
  BY <1>1, Drops DEF ExitAfter, SeeExit, IInv, TypeOK
<1>3. exit[w].at # "none" /\ \A v \in Workers : v # w => exit'[v] = exit[v]
  BY DEF SeeExit, IInv, ControlType
<1> QED
  BY <1>1, <1>2, <1>3, ExitAssembled DEF SeeExit

\* The handler goes on to "at" and prepares or makes a write.
LEMMA ExitGoes ==
  ASSUME IInv, NEW w \in Workers, NEW at \in Exits, NEW d \in BOOLEAN,
         exit' = [exit EXCEPT ![w] = [exit[w] EXCEPT !.at = at, !.deliberate = d]],
         w \notin Unseen, at \notin {"none", "armed"},
         at \in {"restarting", "restart"} => exit[w].restarts < MaxRestarts,
         UNCHANGED parent
  PROVE  ExitAfter /\ \A v \in Workers : v # w => exit'[v] = exit[v]
<1> DEFINE e == [exit[w] EXCEPT !.at = at, !.deliberate = d]
<1>1. exit[w] \in Exit /\ exit[w].at \notin {"none", "armed"}
  BY DEF IInv, ControlType, Unseen
<1>2. e \in Exit /\ e.restarts = exit[w].restarts /\ e.at = at
  BY <1>1 DEF Exit
<1> HIDE DEF e
<1>3. exit' = [exit EXCEPT ![w] = e]
  BY DEF e
<1>4. \A v \in Workers : v # w => exit'[v] = exit[v]
  BY <1>3 DEF IInv, ControlType
<1> QED
  BY <1>1, <1>2, <1>3, <1>4, ExitMoves

\* The exit handler's reads, and a restart that fails.
LEMMA ExitReadsKeep ==
  ASSUME IInv, NEW w \in Workers, ReadToExit(w) \/ ReadToRestart(w) \/ RestartFails(w)
  PROVE  IInv'
<1> USE DEF boxes, hubVars
<1>1. /\ UNCHANGED <<registry, inbox, processing, proc, main, start, parent>>
      /\ UNCHANGED <<tick, janitor, stops, decided, finalized, dispatched>>
      /\ exit[w].at \in {"seen", "crashed", "started"} /\ <<"exit", w>> \in Callers
  BY CallersAre DEF ReadToExit, ReadToRestart, RestartFails
<1>2. w \notin Unseen /\ Registered(w) /\ exit[w] \in Exit
  BY <1>1, AliveIsRegistered DEF Unseen, IInv, ControlType
<1>3. PICK at \in Exits, d \in BOOLEAN :
        /\ exit' = [exit EXCEPT ![w] = [exit[w] EXCEPT !.at = at, !.deliberate = d]]
        /\ at \notin {"none", "armed"}
        /\ at \in {"restarting", "restart"} => exit[w].restarts < MaxRestarts
  <2>1. exit[w].deliberate \in BOOLEAN
    BY <1>2 DEF Exit
  <2>2. ASSUME NEW x \in Exits, ExitAt(w, x)
        PROVE  exit' = [exit EXCEPT ![w] = [exit[w] EXCEPT !.at = x, !.deliberate = exit[w].deliberate]]
    <3>1. [exit[w] EXCEPT !.at = x] = [exit[w] EXCEPT !.at = x, !.deliberate = exit[w].deliberate]
      BY <1>2 DEF Exit
    <3>2. exit' = [exit EXCEPT ![w] = [exit[w] EXCEPT !.at = x]]
      BY <2>2 DEF ExitAt, IInv, ControlType
    <3> QED
      BY <3>1, <3>2
  <2>3. CASE ReadToExit(w)
    <3> DEFINE b == exit[w].deliberate \/ w \in stops
    <3>1. b \in BOOLEAN /\ "exiting" \in Exits
      BY DEF Exits
    <3>2. exit' = [exit EXCEPT ![w] = [exit[w] EXCEPT !.at = "exiting", !.deliberate = b]]
      BY <2>3 DEF ReadToExit, IInv, ControlType
    <3> HIDE DEF b
    <3> QED
      BY <3>1, <3>2
  <2>4. CASE ReadToRestart(w) /\ MayRestart(w)
    <3>1. ExitAt(w, "restarting") /\ exit[w].restarts < MaxRestarts /\ "restarting" \in Exits
      BY <2>4 DEF ReadToRestart, MayRestart, Exits
    <3> QED
      BY <2>1, <2>2, <3>1
  <2>5. CASE (ReadToRestart(w) /\ ~MayRestart(w)) \/ RestartFails(w)
    <3>1. ExitAt(w, "giving up") /\ "giving up" \in Exits
      BY <2>5 DEF ReadToRestart, RestartFails, Exits
    <3> QED
      BY <2>1, <2>2, <3>1
  <2> QED
    BY <2>3, <2>4, <2>5
<1>4. ExitAfter /\ \A v \in Workers : v # w => exit'[v] = exit[v]
  BY <1>1, <1>2, <1>3, ExitGoes
<1>5. PICK r : Prepare(<<"exit", w>>, w, r) /\ Agrees(r, Distance[w], w \in Unseen)
  <2>1. ASSUME NEW s \in {"exited", "exhausted"}
        PROVE  Agrees(SetStatus(w, s), Distance[w], w \in Unseen)
    <3>1. s \in Statuses /\ s # "restarting"
      BY DEF Statuses
    <3>2. Edits(w, SetStatus(w, s))
      BY <1>2, <3>1, Edited DEF IInv, SetStatus
    <3> QED
      BY <1>2, <3>2, EditsAgree
  <2>2. CASE ReadToRestart(w) /\ MayRestart(w)
    <3> DEFINE k == exit[w].restarts + 1
               r == [SetStatus(w, "restarting") EXCEPT !.restarts = k]
    <3>1. k \in 0 .. MaxRestarts /\ exit[w].restarts = Distance[w] /\ Distance[w] < MaxRestarts
      BY <1>2, <2>2, RegistryAssumption DEF MayRestart, Exit, IInv, ParentInv
    <3>2. registry[w] \in Record
      BY <1>2 DEF IInv, TypeOK, Registered
    <3> HIDE DEF k
    <3>3. r \in Record
      BY <3>1, <3>2 DEF SetStatus, Record, Statuses
    <3>4. Agrees(r, Distance[w], w \in Unseen)
      BY <1>2, <3>1, <3>3 DEF Agrees
    <3>5. Prepare(<<"exit", w>>, w, r)
      BY <2>2 DEF ReadToRestart, k
    <3> QED
      BY <3>4, <3>5
  <2>3. CASE ~(ReadToRestart(w) /\ MayRestart(w))
    BY <2>1, <2>3 DEF ReadToExit, ReadToRestart, RestartFails
  <2> QED
    BY <2>2, <2>3
<1>6. RecordsAfter({})
  BY <1>1, <1>2, <1>4, <1>5, Prepares DEF ExitAfter
<1>7. \A c \in Callers : c # <<"exit", w>> => writes'[c] = writes[c]
  BY <1>1, <1>5, Prepared
<1> QED
  BY <1>1, <1>4, <1>6, <1>7, ExitAssembled

\* The exit handler's status writes.
LEMMA ExitWritesKeep ==
  ASSUME IInv, NEW w \in Workers, MarkExited(w) \/ MarkRestarting(w) \/ MarkExhausted(w)
  PROVE  IInv'
<1> USE DEF boxes, hubVars
<1>1. PICK at \in {"done", "crashed", "restart"} :
        ExitAt(w, at) /\ (at = "restart" => exit[w].at = "restarting")
  BY DEF MarkExited, MarkRestarting, MarkExhausted, ExitWrites
<1>2. /\ UNCHANGED <<inbox, processing, proc, main, start, parent>>
      /\ UNCHANGED <<tick, janitor, stops, decided, finalized, dispatched>>
      /\ exit[w].at \notin {"none", "armed"} /\ <<"exit", w>> \in Callers /\ Commit(<<"exit", w>>)
  BY CallersAre DEF MarkExited, MarkRestarting, MarkExhausted, ExitWrites
<1>3. w \notin Unseen /\ exit[w] \in Exit /\ at \in Exits
  BY <1>2 DEF Unseen, IInv, ControlType, Exits
<1>4. at = "restart" => exit[w].restarts < MaxRestarts
  BY <1>1 DEF IInv, ParentInv
<1> DEFINE d == exit[w].deliberate
<1>5. d \in BOOLEAN /\ exit' = [exit EXCEPT ![w] = [exit[w] EXCEPT !.at = at, !.deliberate = d]]
  <2>1. [exit[w] EXCEPT !.at = at] = [exit[w] EXCEPT !.at = at, !.deliberate = d]
    BY <1>3 DEF Exit
  <2>2. exit' = [exit EXCEPT ![w] = [exit[w] EXCEPT !.at = at]]
    BY <1>1 DEF ExitAt, IInv, ControlType
  <2> QED
    BY <1>3, <2>1, <2>2 DEF Exit
<1> HIDE DEF d
<1>6. ExitAfter /\ \A v \in Workers : v # w => exit'[v] = exit[v]
  BY <1>2, <1>3, <1>4, <1>5, ExitGoes
<1>7. RecordsAfter({}) /\ \A c \in Callers : c # <<"exit", w>> => writes'[c] = writes[c]
  BY <1>2, <1>6, Commits, Committed DEF ExitAfter
<1> QED
  BY <1>2, <1>6, <1>7, ExitAssembled

\* The restart of a worker as another one.
LEMMA RestartKeeps ==
  ASSUME IInv, NEW w \in Workers, NEW next \in Workers, Restart(w, next) PROVE IInv'
<1> USE DEF IInv, boxes, hubVars
<1> DEFINE k == exit[w].restarts + 1
<1>1. ExitAfter /\ Distance'[next] = k /\ k \in 0 .. MaxRestarts
  BY Restarted
<1>2. /\ UNCHANGED <<inbox, processing, proc, main, writes>> /\ Register(next, k)
      /\ UNCHANGED <<tick, janitor, stops, decided, finalized, dispatched>>
      /\ exit[w].at = "restart" /\ parent' = [parent EXCEPT ![next] = w] /\ ExitAt(w, "started")
  BY DEF Restart
<1> HIDE DEF k
<1>3. RecordsAfter({next})
  BY <1>1, <1>2, Registers DEF ExitAfter
<1>4. BoxesAfter
  BY <1>2, BoxesStay DEF TypeOK
<1>5. ~Registered(next) /\ start' = [start EXCEPT ![next] = "registered"]
  BY <1>2 DEF Register, Fresh
<1>6. StatesAfter
  BY <1>2, <1>5 DEF StatesAfter, TypeOK, ControlType, Starts
<1>7. StartInv'
  <2>1. Registered(w) /\ start[w] \notin {"none", "registered"} /\ w # next
    BY <1>2, <1>5, AliveIsRegistered
  <2>2. /\ start'[next] = "registered" /\ exit'[next].at = "none"
        /\ \A v \in Workers : v # next => start'[v] = start[v] /\ parent'[v] = parent[v]
        /\ \A v \in Workers : v # w => exit'[v] = exit[v]
    BY <1>2, <1>5, <2>1 DEF ExitAt, ControlType, StartInv
  <2> QED
    BY <1>2, <1>3, <1>5, <2>1, <2>2 DEF StartInv, RecordsAfter, Registered
<1>8. WriteInv'
  BY <1>2 DEF WriteInv
<1> QED
  BY <1>1, <1>3, <1>4, <1>6, <1>7, <1>8, Assembled

\* Every step of an exit handler keeps the invariant.
LEMMA ExitKeeps == ASSUME IInv, NEW w \in Workers, ExitHandler(w) PROVE IInv'
BY SeeExitKeeps, ExitReadsKeep, ExitWritesKeep, RestartKeeps DEF ExitHandler

-------------------------------------------------------------------------------
\* The invariant holds without workers.
LEMMA Initially == ASSUME Init PROVE IInv
<1>1. /\ \A w \in Workers : exit[w] = [at |-> "none", deliberate |-> FALSE, restarts |-> 0]
      /\ \A w \in Workers : parent[w] = NoWorker /\ start[w] = "none" /\ registry[w] = NoRecord
      /\ \A c \in Callers : writes[c] = NoWrite
      /\ \A w \in Workers :
           main[w] = [at |-> "boot", claims |-> {}, attempt |-> NoAttempt, seen |-> NoRecord]
  BY DEF Init
<1>2. TypeOK
  BY <1>1 DEF Init, TypeOK
<1>3. ControlType
  BY RegistryAssumption DEF Init, ControlType, Main, Mains, TickStates, Ticks, JanitorStates,
     Starts, Exit, Exits
<1>4. StartInv /\ BoxInv /\ WriteInv
  BY <1>1, CallersAre DEF Init, StartInv, BoxInv, WriteInv, Registered
<1>5. RecordsInv /\ ParentInv
  BY <1>1 DEF RecordsInv, ParentInv, Unseen, Registered
<1> QED
  BY <1>2, <1>3, <1>4, <1>5 DEF IInv

\* A step that changes nothing keeps the invariant.
LEMMA Stuttering == ASSUME IInv, UNCHANGED vars PROVE IInv'
<1> USE DEF IInv, vars
<1>1. ExitAfter
  BY ExitsStay
<1>2. RecordsAfter({})
  BY <1>1, Drops DEF ExitAfter, TypeOK
<1>3. BoxesAfter /\ StatesAfter
  BY BoxesStay DEF StatesAfter, TypeOK, ControlType
<1>4. StartInv' /\ WriteInv'
  BY DEF StartInv, WriteInv, Registered
<1> QED
  BY <1>1, <1>2, <1>3, <1>4, Assembled

\* What the copies of a worker's record say of its restarts, and for which
\* workers another one is started, is an invariant of the registry's writers.
THEOREM Inductive == Spec => []IInv
<1>1. IInv /\ [Next]_vars => IInv'
  <2> SUFFICES ASSUME IInv, [Next]_vars PROVE IInv'
    OBVIOUS
  <2>1. CASE Tick
    BY <2>1, TickKeeps
  <2>2. CASE Janitor
    BY <2>2, JanitorKeeps
  <2>3. ASSUME NEW w \in Workers, StartSteps(w) PROVE IInv'
    BY <2>3, StartKeeps
  <2>4. ASSUME NEW w \in Workers,
               MainLoop(w) \/ ReadToShutdown(w) \/ ReadToBeat(w) \/ Beat(w) \/ Crash(w)
        PROVE  IInv'
    BY <2>4, WorkerKeeps
  <2>5. ASSUME NEW w \in Workers, ExitHandler(w) PROVE IInv'
    BY <2>5, ExitKeeps
  <2>6. CASE UNCHANGED vars
    BY <2>6, Stuttering
  <2> QED
    BY <2>1, <2>2, <2>3, <2>4, <2>5, <2>6 DEF Next
<1> QED
  BY <1>1, Initially, PTL DEF Spec

\* Registry, inboxes and prepared writes keep their types.
THEOREM TypeCorrect == Spec => []TypeOK
<1>1. IInv => TypeOK
  BY DEF IInv
<1> QED
  BY <1>1, Inductive, PTL

\* A crashed task starts at most MAX_RESTARTS workers one after the other, and
\* the last of them is not marked for another restart, in whatever order the
\* unlocked reads and writes of its record come.
THEOREM RestartsAreBounded == Spec => []RestartsBounded
<1>1. IInv => RestartsBounded
  BY InvBounds
<1> QED
  BY <1>1, Inductive, PTL
===============================================================================
