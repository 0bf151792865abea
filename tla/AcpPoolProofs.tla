----------------------------- MODULE AcpPoolProofs -----------------------------
(* What holds of AcpPool for any number of pools and requests and any limit:  *)
(* the exact account of the slots and the lease of every client.              *)
EXTENDS AcpPool, SequenceTheorems, FiniteSetTheorems, TLAPS

\* The queue of a pool holds requests of that pool that wait, each once.
QueueInv ==
  \A p \in Pools :
    /\ \A i \in DOMAIN queue[p] : PoolOf[queue[p][i]] = p /\ pc[queue[p][i]] = "queued"
    /\ \A i, j \in DOMAIN queue[p] : queue[p][i] = queue[p][j] => i = j

\* A request whose close is under way waits for it.
WaitsForClose == {"recycling", "replacing", "abandoning", "tearing", "dropping"}
CloserInv ==
  \A x \in Closers : closer[x].at # "idle" =>
    /\ closer[x].client \in Requests
    /\ x[1] = "request" => pc[x[2]] \in WaitsForClose
StopInv == \A p \in Pools : closer[<<"stop", p>>].at # "idle" => stop[p] = "clients"

\* A process is spawned once, by a request that holds a lease.
BeforeSpawn == {"new", "queued", "granted", "recycling", "prepared", "chained",
                "replacing", "leasing", "leased"}
LeaseInv ==
  \A r \in Requests :
    /\ pc[r] \in BeforeSpawn => proc[r] = "none"
    /\ pc[r] = "leased" /\ Alive(r) => r \in leases
    /\ pc[r] = "returning" /\ Persistent(r) => proc[r] = "none"
    /\ pc[r] = "starting" => proc[r] # "none"

\* What is under a key or being closed is a client, and a close that found no
\* child came before the child or after it.
MappedInv == \A p \in Pools : mapped[p] # None => proc[mapped[p]] # "none"
ClosedInv ==
  \A x \in Closers : closer[x].at # "idle" =>
    /\ proc[closer[x].client] # "none"
    /\ closer[x].at = "childless" => closer[x].client \in early \/ proc[closer[x].client] = "gone"

-------------------------------------------------------------------------------
(* Lemmas about the operators.                                               *)

\* Where a request goes on once a close it waited for is over.
LEMMA AfterCloseType ==
  \A at \in WaitsForClose : /\ AfterClose[at] \in {"prepared", "leasing", "failed", "finished"}
                            /\ AfterClose[at] \in {"prepared", "leasing"} => at \in {"recycling", "replacing"}
                            /\ AfterFailure(at) \in {"failed", "finished"}
BY DEF WaitsForClose, AfterClose, AfterFailure

\* A call of #closePersistentClient that is over, with or without an error, is
\* idle; its caller goes on, and nobody else does.
LEMMA CloseEnded ==
  ASSUME TypeOK, CloserInv, StopInv, NEW x \in Closers, NEW failed \in BOOLEAN,
         closer[x].at # "idle", CloseEnds(x, failed)
  PROVE  /\ closer'[x].at = "idle" /\ \A y \in Closers : y # x => closer'[y] = closer[y]
         /\ closer' \in [Closers -> [client : Requests \cup {None},
                                      at : {"idle", "begin", "childless", "waiting"}]]
         /\ \A r \in Requests :
              \/ pc'[r] = pc[r]
              \/ /\ x = <<"request", r>> /\ pc[r] \in WaitsForClose
                 /\ pc'[r] \in {"prepared", "leasing", "failed", "finished"}
                 /\ pc'[r] \in {"prepared", "leasing"} => pc[r] \in {"recycling", "replacing"}
         /\ pc' \in [Requests -> Phases]
         /\ stop' \in [Pools -> {"no", "children", "clients", "done", "failed"}]
         /\ \A p \in Pools : \/ stop'[p] = stop[p]
                             \/ x = <<"stop", p>> /\ stop[p] = "clients" /\ stop'[p] = "failed"
<1>. USE PoolAssumption
<1>1. /\ closer'[x].at = "idle" /\ \A y \in Closers : y # x => closer'[y] = closer[y]
      /\ closer' \in [Closers -> [client : Requests \cup {None},
                                   at : {"idle", "begin", "childless", "waiting"}]]
  BY DEF CloseEnds, Idle, TypeOK
<1>2. CASE x[1] = "request"
  <2>1. x[2] \in Requests /\ x = <<"request", x[2]>> /\ pc[x[2]] \in WaitsForClose
    BY <1>2 DEF CloserInv, Closers
  <2>2. \E after \in {AfterFailure(pc[x[2]]), AfterClose[pc[x[2]]]} : pc' = [pc EXCEPT ![x[2]] = after]
    BY <1>2 DEF CloseEnds
  <2>3. PICK after \in {"prepared", "leasing", "failed", "finished"} :
          /\ pc' = [pc EXCEPT ![x[2]] = after]
          /\ after \in {"prepared", "leasing"} => pc[x[2]] \in {"recycling", "replacing"}
    <3>1. ASSUME NEW after \in {AfterFailure(pc[x[2]]), AfterClose[pc[x[2]]]}
          PROVE  /\ after \in {"prepared", "leasing", "failed", "finished"}
                 /\ after \in {"prepared", "leasing"} => pc[x[2]] \in {"recycling", "replacing"}
      BY <2>1, AfterCloseType
    <3>. QED  BY <2>2, <3>1
  <2>4. UNCHANGED stop
    BY <1>2 DEF CloseEnds
  <2>5. pc \in [Requests -> Phases] /\ stop \in [Pools -> {"no", "children", "clients", "done", "failed"}]
    BY DEF TypeOK
  <2>6. pc' \in [Requests -> Phases]
    BY <2>1, <2>3, <2>5 DEF Phases
  <2>7. \A r \in Requests :
          \/ pc'[r] = pc[r]
          \/ /\ x = <<"request", r>> /\ pc[r] \in WaitsForClose
             /\ pc'[r] \in {"prepared", "leasing", "failed", "finished"}
             /\ pc'[r] \in {"prepared", "leasing"} => pc[r] \in {"recycling", "replacing"}
    BY <2>1, <2>3, <2>5
  <2>. QED  BY <1>1, <2>4, <2>5, <2>6, <2>7
<1>3. CASE x[1] # "request"
  <2>1. UNCHANGED pc
    BY <1>3 DEF CloseEnds
  <2>0. pc \in [Requests -> Phases] /\ stop \in [Pools -> {"no", "children", "clients", "done", "failed"}]
    BY DEF TypeOK
  <2>2. CASE x[1] = "stop" /\ failed
    <3>1. x[2] \in Pools /\ x = <<"stop", x[2]>> /\ stop[x[2]] = "clients"
      BY <2>2 DEF StopInv, Closers
    <3>2. stop' = [stop EXCEPT ![x[2]] = "failed"]
      BY <2>2 DEF CloseEnds
    <3>3. stop' \in [Pools -> {"no", "children", "clients", "done", "failed"}]
      BY <2>0, <3>2
    <3>4. \A p \in Pools : \/ stop'[p] = stop[p]
                           \/ x = <<"stop", p>> /\ stop[p] = "clients" /\ stop'[p] = "failed"
      BY <2>0, <3>1, <3>2
    <3>. QED  BY <1>1, <2>0, <2>1, <3>3, <3>4
  <2>3. CASE ~(x[1] = "stop" /\ failed)
    <3>1. UNCHANGED stop
      BY <2>3 DEF CloseEnds
    <3>. QED  BY <1>1, <2>0, <2>1, <3>1
  <2>. QED  BY <2>2, <2>3
<1>. QED  BY <1>2, <1>3

\* What the ends of a close have in common.
LEMMA CloseEnding ==
  ASSUME TypeOK, NEW x \in Closers, Retire(x) \/ RetireFails(x) \/ CloseFails(x)
  PROVE  /\ closer[x].at # "idle" /\ \E failed \in BOOLEAN : CloseEnds(x, failed)
         /\ UNCHANGED <<slotVars, chainVars, using, proc, early, crashed>>
         /\ leases' \subseteq Requests
         /\ \/ UNCHANGED leases
            \/ /\ leases' = leases \ {closer[x].client}
               /\ closer[x].at = "childless" \/ proc[closer[x].client] = "gone"
         /\ UNCHANGED mapped \/ mapped' = [mapped EXCEPT ![PoolOfCloser(x)] = None]
<1>0. \E failed \in BOOLEAN : CloseEnds(x, failed)
  <2>1. CASE Retire(x)
    <3>1. CloseEnds(x, FALSE) \/ CloseEnds(x, (x \in Failing))
      BY <2>1 DEF Retire
    <3>2. (x \in Failing) \in BOOLEAN
      OBVIOUS
    <3>. QED  BY <3>1, <3>2
  <2>2. CASE RetireFails(x) \/ CloseFails(x)
    BY <2>2 DEF RetireFails, CloseFails
  <2>. QED  BY <2>1, <2>2
<1>1. closer[x].at # "idle"
  BY DEF Retire, RetireFails, CloseFails, Closed, Reached
<1>2. UNCHANGED <<slotVars, chainVars, using, proc, early, crashed>>
  BY DEF Retire, RetireFails, CloseFails
<1>3. leases' \in {leases, leases \ {closer[x].client}}
  BY DEF Retire, RetireFails, CloseFails
<1>4. UNCHANGED leases \/ closer[x].at = "childless" \/ proc[closer[x].client] = "gone"
  BY DEF Retire, RetireFails, CloseFails, Closed, Reached
<1>5. UNCHANGED mapped \/ mapped' = [mapped EXCEPT ![PoolOfCloser(x)] = None]
  BY DEF Retire, RetireFails, CloseFails
<1>6. leases' \subseteq Requests
  BY <1>3 DEF TypeOK
<1>. QED  BY <1>0, <1>1, <1>2, <1>3, <1>4, <1>5, <1>6

\* Taking one element out of a queue leaves a queue.
LEMMA SplicedType ==
  ASSUME NEW S, NEW s \in Seq(S), NEW i \in DOMAIN s
  PROVE  /\ Spliced(s, i) \in Seq(S)
         /\ Len(Spliced(s, i)) = Len(s) - 1
         /\ \A j \in DOMAIN Spliced(s, i) :
              /\ (IF j < i THEN j ELSE j + 1) \in DOMAIN s
              /\ Spliced(s, i)[j] = s[IF j < i THEN j ELSE j + 1]
<1>1. Len(s) \in Nat /\ i \in 1 .. Len(s) /\ \A j \in 1 .. Len(s) : s[j] \in S
  BY LenProperties, ElementOfSeq
<1>2. Len(s) - 1 \in Nat
  BY <1>1
<1>3. Spliced(s, i) \in [1 .. Len(s) - 1 -> S]
  BY <1>1 DEF Spliced
<1>4. Spliced(s, i) \in Seq(S)
  BY <1>2, <1>3, SeqDef
<1>5. Len(Spliced(s, i)) = Len(s) - 1
  BY <1>2, <1>3, <1>4, LenProperties
<1>. QED  BY <1>1, <1>2, <1>3, <1>4, <1>5, LenProperties DEF Spliced

-------------------------------------------------------------------------------
(* The type invariant: an action keeps the types of what it assigns.         *)

\* The types hold in empty pools.
LEMMA InitType == Init => TypeOK
BY PoolAssumption DEF Init, TypeOK, Phases, Idle, Closers

CloserType == [Closers -> [client : Requests \cup {None}, at : {"idle", "begin", "childless", "waiting"}]]

\* A close that begins is a closer of its client.
LEMMA ClosingType ==
  ASSUME TypeOK, NEW x \in Closers, NEW c \in Requests, Closing(x, c)
  PROVE  closer' \in CloserType
<1>1. [client |-> c, at |-> "begin"] \in
        [client : Requests \cup {None}, at : {"idle", "begin", "childless", "waiting"}]
  OBVIOUS
<1>. QED  BY <1>1 DEF Closing, CloserType, TypeOK

\* Closing the mapped client leaves requests and closers typed.
LEMMA CloseMappedType ==
  ASSUME TypeOK, NEW r \in Requests, NEW during \in Phases, NEW after \in Phases,
         CloseMapped(r, during, after)
  PROVE  pc' \in [Requests -> Phases] /\ closer' \in CloserType
<1>1. PoolOf[r] \in Pools /\ mapped[PoolOf[r]] \in Requests \cup {None}
  BY PoolAssumption DEF TypeOK
<1>2. <<"request", r>> \in Closers
  BY DEF Closers
<1>3. pc' \in [Requests -> Phases]
  BY DEF CloseMapped, TypeOK
<1>4. closer' \in CloserType
  BY <1>1, <1>2, ClosingType DEF CloseMapped, TypeOK, CloserType
<1>. QED  BY <1>3, <1>4

\* Every step keeps the types.
LEMMA TypeStep == TypeOK /\ QueueInv /\ CloserInv /\ StopInv /\ [Next]_vars => TypeOK'
<1>. SUFFICES ASSUME TypeOK, QueueInv, CloserInv, StopInv, [Next]_vars PROVE TypeOK'
  OBVIOUS
<1>. USE PoolAssumption
<1>1. CASE UNCHANGED vars
  BY <1>1 DEF vars, TypeOK
<1>2. ASSUME NEW r \in Requests, Steps(r) \/ GivesUp(r) \/ Boot(r) \/ ProcessGone(r)
      PROVE  TypeOK'
  <2>0. PoolOf[r] \in Pools
    OBVIOUS
  <2>1. CASE Acquire(r)
    <3>1. \/ /\ UNCHANGED queue /\ pc' = [pc EXCEPT ![r] = "granted"]
             /\ slots' = [slots EXCEPT ![PoolOf[r]] = @ + 1]
             /\ live' = [live EXCEPT ![PoolOf[r]] = @ \cup {r}]
          \/ /\ UNCHANGED <<slots, live>> /\ pc' = [pc EXCEPT ![r] = "queued"]
             /\ queue' = [queue EXCEPT ![PoolOf[r]] = Append(@, r)]
      BY <2>1 DEF Acquire, Go
    <3>2. queue' \in [Pools -> Seq(Requests)]
      <4>1. Append(queue[PoolOf[r]], r) \in Seq(Requests)
        BY <2>0, AppendProperties DEF TypeOK
      <4>. QED  BY <2>0, <3>1, <4>1 DEF TypeOK
    <3>3. slots' \in [Pools -> Nat] /\ live' \in [Pools -> SUBSET Requests]
      <4>1. slots' \in [Pools -> Nat]
        BY <2>0, <3>1 DEF TypeOK
      <4>2. live \in [Pools -> SUBSET Requests] /\ live[PoolOf[r]] \cup {r} \in SUBSET Requests
        BY <2>0 DEF TypeOK
      <4>3. live' \in [Pools -> SUBSET Requests]
        BY <3>1, <4>2
      <4>. QED  BY <4>1, <4>3
    <3>4. pc' \in [Requests -> Phases]
      BY <3>1 DEF TypeOK, Phases
    <3>. QED  BY <2>1, <3>2, <3>3, <3>4 DEF Acquire, chainVars, clientVars, TypeOK
  <2>2. CASE GiveUpSlot(r)
    <3>1. queue[PoolOf[r]] \in Seq(Requests)
      BY <2>0 DEF TypeOK
    <3>2. \A i \in DOMAIN queue[PoolOf[r]] : Spliced(queue[PoolOf[r]], i) \in Seq(Requests)
      BY <3>1, SplicedType
    <3>3. queue' \in [Pools -> Seq(Requests)]
      BY <2>2, <3>2 DEF GiveUpSlot, TypeOK
    <3>4. pc' \in [Requests -> Phases]
      BY <2>2 DEF GiveUpSlot, Go, TypeOK, Phases
    <3>. QED  BY <2>2, <3>3, <3>4 DEF GiveUpSlot, chainVars, clientVars, TypeOK
  <2>3. CASE Release(r)
    <3>1. queue[PoolOf[r]] \in Seq(Requests)
      BY <2>0 DEF TypeOK
    <3>2. queue[PoolOf[r]] # <<>> => Head(queue[PoolOf[r]]) \in Requests /\ Tail(queue[PoolOf[r]]) \in Seq(Requests)
      BY <3>1, HeadTailProperties
    <3>3. slots[PoolOf[r]] \in Nat /\ Freed(slots[PoolOf[r]]) \in Nat
      BY <2>0 DEF TypeOK, Freed
    <3>4. CASE queue[PoolOf[r]] = <<>>
      <4>1. /\ UNCHANGED queue /\ pc' = [pc EXCEPT ![r] = "done"]
            /\ slots' = [slots EXCEPT ![PoolOf[r]] = Freed(@)]
            /\ live' = [live EXCEPT ![PoolOf[r]] = @ \ {r}]
        BY <2>3, <3>4 DEF Release
      <4>2. slots' \in [Pools -> Nat] /\ live' \in [Pools -> SUBSET Requests]
        BY <2>0, <3>3, <4>1 DEF TypeOK
      <4>3. pc' \in [Requests -> Phases]
        BY <4>1 DEF TypeOK, Phases
      <4>. QED  BY <2>3, <4>1, <4>2, <4>3 DEF Release, chainVars, clientVars, TypeOK
    <3>5. CASE queue[PoolOf[r]] # <<>>
      <4>1. /\ queue' = [queue EXCEPT ![PoolOf[r]] = Tail(@)]
            /\ pc' = [pc EXCEPT ![r] = "done", ![Head(queue[PoolOf[r]])] = "granted"]
            /\ slots' = [slots EXCEPT ![PoolOf[r]] = Freed(@) + 1]
            /\ live' = [live EXCEPT ![PoolOf[r]] = (@ \ {r}) \cup {Head(queue[PoolOf[r]])}]
        BY <2>3, <3>5 DEF Release
      <4>2. slots' \in [Pools -> Nat] /\ live' \in [Pools -> SUBSET Requests]
        BY <2>0, <3>2, <3>3, <3>5, <4>1 DEF TypeOK
      <4>3. pc' \in [Requests -> Phases]
        BY <3>2, <3>5, <4>1 DEF TypeOK, Phases
      <4>4. queue' \in [Pools -> Seq(Requests)]
        BY <2>0, <3>2, <3>5, <4>1 DEF TypeOK
      <4>. QED  BY <2>3, <4>2, <4>3, <4>4 DEF Release, chainVars, clientVars, TypeOK
    <3>. QED  BY <3>4, <3>5
  <2>4. CASE \/ Abandon(r) \/ SkipChain(r) \/ GiveUpChain(r) \/ LeaseFails(r)
             \/ AbandonSpawn(r) \/ Answered(r)
    <3>1. /\ UNCHANGED <<slotVars, tail, mapped, proc, leases, closer, early, stop, crashed>>
          /\ prior' \in [Requests -> Requests \cup {None}] /\ using' \in [Requests -> Requests \cup {None}]
      BY <2>4 DEF Abandon, SkipChain, GiveUpChain, LeaseFails, AbandonSpawn, Answered,
         chainVars, clientVars, TypeOK
    <3>2. \E a \in {"finished", "leasing", "failed", "returning"} : pc' = [pc EXCEPT ![r] = a]
      BY <2>4 DEF Abandon, SkipChain, GiveUpChain, LeaseFails, AbandonSpawn, Answered, Go
    <3>3. pc' \in [Requests -> Phases]
      BY <3>2 DEF TypeOK, Phases
    <3>. QED  BY <3>1, <3>3 DEF slotVars, TypeOK
  <2>5. CASE \/ RecycleSession(r) \/ Caught(r) \/ GetClient(r) \/ PromptFails(r)
    <3>1. pc' \in [Requests -> Phases] /\ closer' \in CloserType
      <4>1. /\ "recycling" \in Phases /\ "prepared" \in Phases /\ "dropping" \in Phases
            /\ "finished" \in Phases /\ "replacing" \in Phases /\ "leasing" \in Phases
            /\ "tearing" \in Phases /\ "failed" \in Phases /\ "prompting" \in Phases
        BY DEF Phases
      <4>2. \/ \E d, a \in Phases : CloseMapped(r, d, a)
            \/ UNCHANGED closer /\ \E a \in Phases : pc' = [pc EXCEPT ![r] = a]
        BY <2>5, <4>1 DEF RecycleSession, Caught, GetClient, PromptFails
      <4>3. CASE UNCHANGED closer /\ \E a \in Phases : pc' = [pc EXCEPT ![r] = a]
        BY <4>3 DEF TypeOK, CloserType
      <4>. QED  BY <4>2, <4>3, CloseMappedType
    <3>2. /\ using' \in [Requests -> Requests \cup {None}]
          /\ prior' \in [Requests -> Requests \cup {None}]
      BY <2>5 DEF RecycleSession, Caught, GetClient, PromptFails, Running, chainVars, TypeOK
    <3>3. UNCHANGED <<slotVars, tail, mapped, proc, leases, early, stop, crashed>>
      BY <2>5 DEF RecycleSession, Caught, GetClient, PromptFails, chainVars
    <3>. QED  BY <3>1, <3>2, <3>3 DEF slotVars, TypeOK, CloserType
  <2>6. CASE Chain(r)
    BY <2>6 DEF Chain, Go, slotVars, clientVars, TypeOK, Phases
  <2>7. CASE AcquireLease(r) \/ ReturnLease(r)
    <3>1. leases' \subseteq Requests
      BY <2>7 DEF AcquireLease, ReturnLease, LiveLeases, TypeOK
    <3>2. pc' \in [Requests -> Phases]
      <4>1. pc' = [pc EXCEPT ![r] = "leased"] \/ pc' = [pc EXCEPT ![r] = "failed"]
        BY <2>7 DEF AcquireLease, ReturnLease, Go
      <4>. QED  BY <4>1 DEF TypeOK, Phases
    <3>3. UNCHANGED <<slotVars, chainVars, mapped, using, proc, closer, early, stop, crashed>>
      BY <2>7 DEF AcquireLease, ReturnLease
    <3>. QED  BY <3>1, <3>2, <3>3 DEF slotVars, chainVars, TypeOK
  <2>8. CASE SpawnChild(r) \/ Register(r)
    <3>0. /\ \E w \in {"prompting", "starting"} : pc' = [pc EXCEPT ![r] = w]
          /\ \E w \in {"booting", "running"} : proc' = [proc EXCEPT ![r] = w]
          /\ UNCHANGED using \/ using' = [using EXCEPT ![r] = r]
          /\ UNCHANGED mapped \/ mapped' = [mapped EXCEPT ![PoolOf[r]] = r]
      BY <2>8 DEF SpawnChild, Register, Go
    <3>1. pc' \in [Requests -> Phases]
      BY <3>0 DEF TypeOK, Phases
    <3>2. /\ using' \in [Requests -> Requests \cup {None}]
          /\ mapped' \in [Pools -> Requests \cup {None}]
          /\ proc' \in [Requests -> {"none", "booting", "starting", "running", "closing", "gone"}]
      <4>1. using' \in [Requests -> Requests \cup {None}]
        BY <3>0 DEF TypeOK
      <4>2. mapped' \in [Pools -> Requests \cup {None}]
        BY <2>0, <3>0 DEF TypeOK
      <4>3. proc' \in [Requests -> {"none", "booting", "starting", "running", "closing", "gone"}]
        BY <3>0 DEF TypeOK
      <4>. QED  BY <4>1, <4>2, <4>3
    <3>. QED  BY <2>8, <3>1, <3>2 DEF SpawnChild, Register, slotVars, chainVars, TypeOK
  <2>9. CASE Started(r)
    BY <2>9 DEF Started, Go, slotVars, chainVars, TypeOK, Phases
  <2>10. CASE StartFails(r)
    <3>1. <<"request", r>> \in Closers
      BY DEF Closers
    <3>2. closer' \in CloserType
      BY <2>10, <3>1, ClosingType DEF StartFails
    <3>. QED  BY <2>10, <3>2 DEF StartFails, Go, slotVars, chainVars, TypeOK, Phases, CloserType
  <2>11. CASE ChildEnds(r)
    BY <2>11 DEF ChildEnds, Go, slotVars, chainVars, TypeOK, Phases
  <2>12. CASE Boot(r) \/ ProcessGone(r)
    <3>1. /\ UNCHANGED <<pc, slotVars, chainVars, mapped, using, leases, closer, early, stop, crashed>>
          /\ \E w \in {"starting", "gone"} : proc' = [proc EXCEPT ![r] = w]
      BY <2>12 DEF Boot, ProcessGone
    <3>2. proc' \in [Requests -> {"none", "booting", "starting", "running", "closing", "gone"}]
      BY <3>1 DEF TypeOK
    <3>. QED  BY <3>1, <3>2 DEF slotVars, chainVars, TypeOK
  <2>. QED
    BY <1>2, <2>1, <2>2, <2>3, <2>4, <2>5, <2>6, <2>7, <2>8, <2>9, <2>10,
       <2>11, <2>12 DEF Steps, GivesUp
<1>3. ASSUME NEW x \in Closers, Closes(x) PROVE TypeOK'
  <2>1. CASE EndInput(x)
    <3>0. closer[x].at # "idle" => closer[x].client \in Requests
      BY <1>3 DEF CloserInv
    <3>1. proc' \in [Requests -> {"none", "booting", "starting", "running", "closing", "gone"}]
      BY <2>1 DEF EndInput, TypeOK
    <3>2. closer' \in CloserType
      <4>1. \E w \in {"childless", "waiting"} : closer' = [closer EXCEPT ![x].at = w]
        BY <2>1 DEF EndInput
      <4>2. /\ closer \in CloserType
            /\ \A w \in {"childless", "waiting"} :
                 [closer[x] EXCEPT !.at = w] \in [client : Requests \cup {None},
                                                 at : {"idle", "begin", "childless", "waiting"}]
        BY DEF TypeOK, CloserType
      <4>. QED  BY <4>1, <4>2 DEF CloserType
    <3>3. early' \subseteq Requests
      BY <2>1, <3>0 DEF EndInput, Reached, TypeOK
    <3>. QED  BY <2>1, <3>1, <3>2, <3>3 DEF EndInput, slotVars, chainVars, TypeOK, CloserType
  <2>2. CASE Retire(x) \/ RetireFails(x) \/ CloseFails(x)
    <3>1. /\ closer[x].at # "idle" /\ \E failed \in BOOLEAN : CloseEnds(x, failed)
          /\ UNCHANGED <<slotVars, chainVars, using, proc, early, crashed>>
          /\ leases' \subseteq Requests
          /\ UNCHANGED mapped \/ mapped' = [mapped EXCEPT ![PoolOfCloser(x)] = None]
      BY <2>2, CloseEnding
    <3>2. /\ closer' \in CloserType /\ pc' \in [Requests -> Phases]
          /\ stop' \in [Pools -> {"no", "children", "clients", "done", "failed"}]
      BY <3>1, CloseEnded DEF CloserType
    <3>3. mapped' \in [Pools -> Requests \cup {None}]
      BY <3>1 DEF TypeOK
    <3>. QED  BY <3>1, <3>2, <3>3 DEF slotVars, chainVars, TypeOK, CloserType
  <2>. QED  BY <1>3, <2>1, <2>2 DEF Closes
<1>4. ASSUME NEW p \in Pools, ReleaseJob(p) \/ Stops(p) \/ Crash(p) PROVE TypeOK'
  <2>0. <<"job", p>> \in Closers /\ <<"stop", p>> \in Closers
    BY DEF Closers
  <2>1. CASE ReleaseJob(p) \/ StopClients(p)
    <3>1. mapped[p] \in Requests \cup {None}
      BY DEF TypeOK
    <3>2. closer' \in CloserType
      BY <2>0, <2>1, <3>1, ClosingType DEF ReleaseJob, StopClients, TypeOK, CloserType
    <3>3. stop' \in [Pools -> {"no", "children", "clients", "done", "failed"}]
      BY <2>1 DEF ReleaseJob, StopClients, TypeOK
    <3>. QED
      BY <2>1, <3>2, <3>3 DEF ReleaseJob, StopClients, slotVars, chainVars, TypeOK, CloserType
  <2>2. CASE Stop(p)
    BY <2>2 DEF Stop, slotVars, chainVars, TypeOK
  <2>3. CASE StopEnds(p)
    BY <2>3, EmptySeq DEF StopEnds, clientVars, TypeOK, Phases
  <2>4. CASE Crash(p)
    BY <2>4 DEF Crash, slotVars, chainVars, clientVars, TypeOK
  <2>. QED  BY <1>4, <2>1, <2>2, <2>3, <2>4 DEF Stops
<1>. QED  BY <1>1, <1>2, <1>3, <1>4 DEF Next

-------------------------------------------------------------------------------
(* Who waits, who has a slot.  Only four actions touch the slots; every other *)
(* one moves requests between the phases in which they have one.              *)

Busy == Phases \ {"new", "queued", "done"}

OtherStep ==
  /\ UNCHANGED slotVars
  /\ \A r \in Requests : pc'[r] = pc[r] \/ (pc[r] \in Busy /\ pc'[r] \in Busy)
  /\ \A p \in Pools : stop'[p] = "done" <=> stop[p] = "done"

\* Only acquiring, giving up and releasing a slot touch the slots.
LEMMA OtherSteps ==
  ASSUME TypeOK, CloserInv, StopInv, [Next]_vars
  PROVE  \/ OtherStep
         \/ \E r \in Requests : Acquire(r) \/ GiveUpSlot(r) \/ Release(r)
         \/ \E p \in Pools : StopEnds(p)
<1>. USE PoolAssumption
<1>1. CASE UNCHANGED vars
  BY <1>1 DEF vars, slotVars, OtherStep
<1>2. ASSUME NEW r \in Requests, Steps(r) \/ GivesUp(r) \/ Boot(r) \/ ProcessGone(r),
             ~Acquire(r), ~GiveUpSlot(r), ~Release(r)
      PROVE  OtherStep
  <2>1. UNCHANGED <<slotVars, stop>>
    BY <1>2 DEF Steps, GivesUp, ProcessGone, Abandon, SkipChain, RecycleSession, Caught, Chain,
       GetClient, GiveUpChain, AcquireLease, LeaseFails, SpawnChild, Register, Boot, AbandonSpawn,
       ReturnLease, Started, StartFails, Answered, PromptFails, ChildEnds
  <2>2. \/ UNCHANGED pc
        \/ pc[r] \in Busy /\ \E to \in Busy : pc' = [pc EXCEPT ![r] = to]
    <3>1. CASE Boot(r) \/ ProcessGone(r)
      BY <3>1 DEF Boot, ProcessGone
    <3>2. CASE \/ RecycleSession(r) \/ Caught(r) \/ GetClient(r) \/ PromptFails(r)
      BY <3>2 DEF RecycleSession, Caught, GetClient, PromptFails, CloseMapped, Busy, Phases
    <3>3. CASE \/ Abandon(r) \/ SkipChain(r) \/ Chain(r) \/ GiveUpChain(r) \/ LeaseFails(r)
               \/ AcquireLease(r) \/ AbandonSpawn(r) \/ ReturnLease(r)
      BY <3>3 DEF Abandon, SkipChain, Chain, GiveUpChain, LeaseFails, AcquireLease, AbandonSpawn,
         ReturnLease, Go, Busy, Phases
    <3>4. CASE SpawnChild(r) \/ Register(r) \/ Started(r) \/ StartFails(r) \/ Answered(r) \/ ChildEnds(r)
      BY <3>4 DEF SpawnChild, Register, Started, StartFails, Answered, ChildEnds, Go, Busy, Phases
    <3>. QED  BY <1>2, <3>1, <3>2, <3>3, <3>4 DEF Steps, GivesUp
  <2>. QED  BY <2>1, <2>2 DEF OtherStep, slotVars, TypeOK
<1>3. ASSUME NEW x \in Closers, Closes(x) PROVE OtherStep
  <2>1. CASE EndInput(x)
    BY <2>1 DEF EndInput, OtherStep, slotVars
  <2>2. CASE Retire(x) \/ RetireFails(x) \/ CloseFails(x)
    <3>1. PICK failed \in BOOLEAN : closer[x].at # "idle" /\ CloseEnds(x, failed) /\ UNCHANGED slotVars
      BY <2>2, CloseEnding
    <3>2. \A r \in Requests :
            pc'[r] = pc[r] \/ (pc[r] \in WaitsForClose /\ pc'[r] \in {"prepared", "leasing", "failed", "finished"})
      BY <3>1, CloseEnded
    <3>3. \A p \in Pools : stop'[p] = stop[p] \/ (stop[p] = "clients" /\ stop'[p] = "failed")
      BY <3>1, CloseEnded
    <3>. QED  BY <3>1, <3>2, <3>3 DEF OtherStep, WaitsForClose, Busy, Phases
  <2>. QED  BY <1>3, <2>1, <2>2 DEF Closes
<1>4. ASSUME NEW p \in Pools, ReleaseJob(p) \/ Stops(p) \/ Crash(p), ~StopEnds(p) PROVE OtherStep
  <2>1. CASE ReleaseJob(p) \/ Crash(p)
    BY <2>1 DEF ReleaseJob, Crash, OtherStep, slotVars
  <2>2. CASE Stop(p)
    BY <2>2 DEF Stop, OtherStep, slotVars, TypeOK
  <2>3. CASE StopClients(p)
    BY <2>3 DEF StopClients, OtherStep, slotVars, TypeOK
  <2>. QED  BY <1>4, <2>1, <2>2, <2>3 DEF Stops
<1>. QED  BY <1>1, <1>2, <1>3, <1>4 DEF Next

\* Every step keeps the waiting queues to requests that wait.
LEMMA QueueStep == TypeOK /\ CloserInv /\ StopInv /\ QueueInv /\ [Next]_vars => QueueInv'
<1>. SUFFICES ASSUME TypeOK, CloserInv, StopInv, QueueInv, [Next]_vars PROVE QueueInv'
  OBVIOUS
<1>. USE PoolAssumption
<1>0. \A p \in Pools : queue[p] \in Seq(Requests) /\ Len(queue[p]) \in Nat
                       /\ DOMAIN queue[p] = 1 .. Len(queue[p])
                       /\ \A i \in DOMAIN queue[p] : queue[p][i] \in Requests
  BY LenProperties, ElementOfSeq DEF TypeOK
<1>1. CASE OtherStep
  <2>1. \A r \in Requests : pc[r] = "queued" => pc'[r] = "queued"
    BY <1>1 DEF OtherStep, Busy
  <2>. QED  BY <1>0, <1>1, <2>1 DEF OtherStep, slotVars, QueueInv
<1>2. ASSUME NEW r \in Requests, Acquire(r) PROVE QueueInv'
  <2>1. CASE UNCHANGED queue /\ pc' = [pc EXCEPT ![r] = "granted"] /\ pc[r] = "new"
    BY <1>0, <2>1 DEF QueueInv, TypeOK
  <2>2. CASE /\ queue' = [queue EXCEPT ![PoolOf[r]] = Append(@, r)]
             /\ pc' = [pc EXCEPT ![r] = "queued"] /\ pc[r] = "new"
    <3>1. SUFFICES ASSUME NEW p \in Pools
                   PROVE  /\ \A i \in DOMAIN queue'[p] : PoolOf[queue'[p][i]] = p /\ pc'[queue'[p][i]] = "queued"
                          /\ \A i, j \in DOMAIN queue'[p] : queue'[p][i] = queue'[p][j] => i = j
      BY DEF QueueInv
    <3>2. CASE p # PoolOf[r]
      BY <1>0, <2>2, <3>2 DEF QueueInv, TypeOK
    <3>3. CASE p = PoolOf[r]
      <4>1. queue'[p] = Append(queue[p], r)
        BY <2>2, <3>3 DEF TypeOK
      <4>2. /\ DOMAIN queue'[p] = 1 .. Len(queue[p]) + 1
            /\ \A i \in 1 .. Len(queue[p]) : queue'[p][i] = queue[p][i]
            /\ queue'[p][Len(queue[p]) + 1] = r
        BY <1>0, <4>1, AppendProperties, LenProperties
      <4>3. \A i \in 1 .. Len(queue[p]) : queue[p][i] # r
        BY <1>0, <2>2 DEF QueueInv
      <4>. QED  BY <1>0, <2>2, <3>3, <4>2, <4>3 DEF QueueInv, TypeOK
    <3>. QED  BY <3>2, <3>3
  <2>. QED  BY <1>2, <2>1, <2>2 DEF Acquire, Go
<1>3. ASSUME NEW r \in Requests, GiveUpSlot(r) PROVE QueueInv'
  <2>1. PICK i \in DOMAIN queue[PoolOf[r]] :
          /\ queue[PoolOf[r]][i] = r
          /\ queue' = [queue EXCEPT ![PoolOf[r]] = Spliced(@, i)]
    BY <1>3 DEF GiveUpSlot
  <2>2. pc' = [pc EXCEPT ![r] = "done"]
    BY <1>3 DEF GiveUpSlot, Go
  <2>3. SUFFICES ASSUME NEW p \in Pools
                 PROVE  /\ \A k \in DOMAIN queue'[p] : PoolOf[queue'[p][k]] = p /\ pc'[queue'[p][k]] = "queued"
                        /\ \A k, l \in DOMAIN queue'[p] : queue'[p][k] = queue'[p][l] => k = l
    BY DEF QueueInv
  <2>4. CASE p # PoolOf[r]
    BY <1>0, <2>1, <2>2, <2>4 DEF QueueInv, TypeOK
  <2>5. CASE p = PoolOf[r]
    <3>1. queue'[p] = Spliced(queue[p], i) /\ i \in DOMAIN queue[p] /\ queue[p][i] = r
      BY <2>1, <2>5 DEF TypeOK
    <3>. DEFINE old(k) == IF k < i THEN k ELSE k + 1
    <3>2. /\ Spliced(queue[p], i) \in Seq(Requests) /\ Len(Spliced(queue[p], i)) = Len(queue[p]) - 1
          /\ \A k \in DOMAIN Spliced(queue[p], i) :
               old(k) \in DOMAIN queue[p] /\ Spliced(queue[p], i)[k] = queue[p][old(k)]
      BY <1>0, <3>1, SplicedType
    <3>3. DOMAIN queue'[p] = 1 .. Len(queue[p]) - 1 /\ i \in 1 .. Len(queue[p]) /\ Len(queue[p]) \in Nat
      BY <1>0, <3>1, <3>2, LenProperties
    <3>4. \A k \in DOMAIN queue'[p] : queue'[p][k] = queue[p][old(k)] /\ old(k) \in DOMAIN queue[p]
      BY <3>1, <3>2
    <3>5. /\ \A k \in DOMAIN queue'[p] : old(k) # i
          /\ \A k, l \in DOMAIN queue'[p] : old(k) = old(l) => k = l
      BY <3>3
    <3>. HIDE DEF old
    <3>6. \A k \in DOMAIN queue'[p] : queue'[p][k] # r /\ queue'[p][k] \in Requests
      BY <1>0, <3>1, <3>4, <3>5 DEF QueueInv
    <3>7. \A k \in DOMAIN queue'[p] : PoolOf[queue'[p][k]] = p /\ pc[queue'[p][k]] = "queued"
      BY <3>4 DEF QueueInv
    <3>8. \A k \in DOMAIN queue'[p] : pc'[queue'[p][k]] = "queued"
      BY <2>2, <3>6, <3>7 DEF TypeOK
    <3>9. \A k, l \in DOMAIN queue'[p] : queue'[p][k] = queue'[p][l] => k = l
      BY <3>4, <3>5 DEF QueueInv
    <3>. QED  BY <3>7, <3>8, <3>9
  <2>. QED  BY <2>4, <2>5
<1>4. ASSUME NEW r \in Requests, Release(r) PROVE QueueInv'
  <2>1. CASE queue[PoolOf[r]] = <<>>
    <3>1. UNCHANGED queue /\ pc' = [pc EXCEPT ![r] = "done"] /\ pc[r] = "finished"
      BY <1>4, <2>1 DEF Release
    <3>. QED  BY <1>0, <3>1 DEF QueueInv, TypeOK
  <2>2. CASE queue[PoolOf[r]] # <<>>
    <3>. DEFINE h == Head(queue[PoolOf[r]])
    <3>1. /\ queue' = [queue EXCEPT ![PoolOf[r]] = Tail(@)]
          /\ pc' = [pc EXCEPT ![r] = "done", ![h] = "granted"] /\ pc[r] = "finished"
      BY <1>4, <2>2 DEF Release
    <3>2. h = queue[PoolOf[r]][1] /\ 1 \in DOMAIN queue[PoolOf[r]] /\ h \in Requests
      BY <1>0, <2>2, HeadTailProperties, EmptySeq
    <3>3. PoolOf[h] = PoolOf[r] /\ pc[h] = "queued"
      BY <3>2 DEF QueueInv
    <3>4. SUFFICES ASSUME NEW p \in Pools
                   PROVE  /\ \A i \in DOMAIN queue'[p] : PoolOf[queue'[p][i]] = p /\ pc'[queue'[p][i]] = "queued"
                          /\ \A i, j \in DOMAIN queue'[p] : queue'[p][i] = queue'[p][j] => i = j
      BY DEF QueueInv
    <3>. HIDE DEF h
    <3>5. CASE p # PoolOf[r]
      BY <1>0, <3>1, <3>2, <3>3, <3>5 DEF QueueInv, TypeOK
    <3>6. CASE p = PoolOf[r]
      <4>1. queue'[p] = Tail(queue[p])
        BY <3>1, <3>6 DEF TypeOK
      <4>2. /\ DOMAIN queue'[p] = 1 .. Len(queue[p]) - 1
            /\ \A i \in DOMAIN queue'[p] : queue'[p][i] = queue[p][i + 1] /\ i + 1 \in DOMAIN queue[p]
        BY <1>0, <2>2, <3>6, <4>1, HeadTailProperties, LenProperties
      <4>3. \A i \in DOMAIN queue'[p] : queue'[p][i] \in Requests /\ queue'[p][i] # h /\ queue'[p][i] # r
        BY <1>0, <3>1, <3>2, <3>6, <4>2 DEF QueueInv
      <4>4. \A i \in DOMAIN queue'[p] : PoolOf[queue'[p][i]] = p /\ pc[queue'[p][i]] = "queued"
        BY <4>2 DEF QueueInv
      <4>5. \A i \in DOMAIN queue'[p] : pc'[queue'[p][i]] = "queued"
        BY <3>1, <4>3, <4>4 DEF TypeOK
      <4>6. \A i, j \in DOMAIN queue'[p] : i + 1 = j + 1 => i = j
        BY <1>0, <4>2
      <4>7. \A i, j \in DOMAIN queue'[p] : queue'[p][i] = queue'[p][j] => i = j
        BY <4>2, <4>6 DEF QueueInv
      <4>. QED  BY <4>4, <4>5, <4>7
    <3>. QED  BY <3>5, <3>6
  <2>. QED  BY <2>1, <2>2
<1>5. ASSUME NEW p \in Pools, StopEnds(p) PROVE QueueInv'
  <2>1. /\ queue' = [queue EXCEPT ![p] = <<>>]
        /\ \A r \in Requests : PoolOf[r] # p => pc'[r] = pc[r]
    BY <1>5 DEF StopEnds, TypeOK
  <2>2. \A q \in Pools : IF q = p THEN queue'[q] = <<>> ELSE queue'[q] = queue[q]
    BY <2>1 DEF TypeOK
  <2>3. DOMAIN <<>> = {}
    OBVIOUS
  <2>. QED  BY <1>0, <2>1, <2>2, <2>3 DEF QueueInv
<1>. QED  BY <1>1, <1>2, <1>3, <1>4, <1>5, OtherSteps

-------------------------------------------------------------------------------
(* The account of the slots.                                                 *)

\* Every step keeps the count of slots exact, while the pool is open.
LEMMA SlotsStep ==
  TypeOK /\ TypeOK' /\ CloserInv /\ StopInv /\ QueueInv /\ SlotsExact /\ [Next]_vars => SlotsExact'
<1>. SUFFICES ASSUME TypeOK, TypeOK', CloserInv, StopInv, QueueInv, SlotsExact, [Next]_vars,
                     NEW p \in Pools, stop'[p] # "done"
              PROVE  /\ live'[p] = {r \in Requests : PoolOf[r] = p /\ HasSlot(r)'}
                     /\ slots'[p] = Cardinality(live'[p]) /\ slots'[p] <= Limit
                     /\ queue'[p] # <<>> => slots'[p] = Limit
  BY DEF SlotsExact
<1>. USE PoolAssumption
<1>0. /\ IsFiniteSet(live[p]) /\ live[p] \subseteq Requests /\ slots[p] \in Nat
      /\ queue[p] \in Seq(Requests)
  BY FS_Subset DEF TypeOK
<1>1. CASE OtherStep
  <2>1. stop[p] # "done"
    BY <1>1 DEF OtherStep
  <2>2. \A r \in Requests : HasSlot(r)' <=> HasSlot(r)
    BY <1>1 DEF OtherStep, HasSlot, Busy
  <2>. QED  BY <1>1, <2>1, <2>2 DEF SlotsExact, OtherStep, slotVars
<1>2. ASSUME NEW r \in Requests, Acquire(r)
      PROVE  /\ live'[p] = {c \in Requests : PoolOf[c] = p /\ HasSlot(c)'}
             /\ slots'[p] = Cardinality(live'[p]) /\ slots'[p] <= Limit
             /\ queue'[p] # <<>> => slots'[p] = Limit
  <2>1. stop[p] # "done" /\ pc[r] = "new"
    BY <1>2 DEF Acquire, Go
  <2>2. CASE p # PoolOf[r]
    <3>1. UNCHANGED <<slots[p], live[p], queue[p]>> /\ \A c \in Requests : c # r => pc'[c] = pc[c]
      BY <1>2, <2>2 DEF Acquire, Go, TypeOK
    <3>. QED  BY <2>1, <2>2, <3>1 DEF SlotsExact, HasSlot
  <2>3. CASE /\ p = PoolOf[r] /\ slots[p] < Limit /\ UNCHANGED queue
             /\ pc' = [pc EXCEPT ![r] = "granted"]
             /\ slots' = [slots EXCEPT ![p] = @ + 1] /\ live' = [live EXCEPT ![p] = @ \cup {r}]
    <3>1. r \notin live[p]
      BY <2>1 DEF SlotsExact, HasSlot
    <3>2. live'[p] = live[p] \cup {r} /\ slots'[p] = slots[p] + 1
      BY <2>3 DEF TypeOK
    <3>3. Cardinality(live'[p]) = Cardinality(live[p]) + 1
      BY <1>0, <3>1, <3>2, FS_AddElement
    <3>4. live'[p] = {c \in Requests : PoolOf[c] = p /\ HasSlot(c)'}
      BY <2>1, <2>3, <3>2 DEF SlotsExact, HasSlot, TypeOK
    <3>5. queue[p] = <<>>
      BY <1>0, <2>1, <2>3 DEF SlotsExact
    <3>. QED  BY <1>0, <2>1, <2>3, <3>2, <3>3, <3>4, <3>5 DEF SlotsExact
  <2>4. CASE /\ p = PoolOf[r] /\ slots[p] >= Limit /\ UNCHANGED <<slots, live>>
             /\ pc' = [pc EXCEPT ![r] = "queued"]
    <3>1. \A c \in Requests : HasSlot(c)' <=> HasSlot(c)
      BY <2>1, <2>4 DEF HasSlot, TypeOK
    <3>2. slots[p] = Limit
      BY <1>0, <2>1, <2>4 DEF SlotsExact
    <3>. QED  BY <2>1, <2>4, <3>1, <3>2 DEF SlotsExact
  <2>. QED  BY <1>2, <2>2, <2>3, <2>4 DEF Acquire, Go
<1>3. ASSUME NEW r \in Requests, GiveUpSlot(r)
      PROVE  /\ live'[p] = {c \in Requests : PoolOf[c] = p /\ HasSlot(c)'}
             /\ slots'[p] = Cardinality(live'[p]) /\ slots'[p] <= Limit
             /\ queue'[p] # <<>> => slots'[p] = Limit
  <2>1. /\ pc[r] = "queued" /\ pc' = [pc EXCEPT ![r] = "done"] /\ UNCHANGED <<slots, live, stop>>
        /\ p # PoolOf[r] => queue'[p] = queue[p]
        /\ p = PoolOf[r] => DOMAIN queue[p] # {}
    BY <1>3 DEF GiveUpSlot, Go, TypeOK
  <2>2. \A c \in Requests : HasSlot(c)' <=> HasSlot(c)
    BY <2>1 DEF HasSlot, TypeOK
  <2>3. p = PoolOf[r] => queue[p] # <<>>
    BY <2>1
  <2>. QED  BY <2>1, <2>2, <2>3 DEF SlotsExact
<1>4. ASSUME NEW r \in Requests, Release(r)
      PROVE  /\ live'[p] = {c \in Requests : PoolOf[c] = p /\ HasSlot(c)'}
             /\ slots'[p] = Cardinality(live'[p]) /\ slots'[p] <= Limit
             /\ queue'[p] # <<>> => slots'[p] = Limit
  <2>1. stop[p] # "done" /\ pc[r] = "finished" /\ HasSlot(r)
    BY <1>4 DEF Release, HasSlot
  <2>2. CASE p # PoolOf[r]
    <3>1. UNCHANGED <<slots[p], live[p], queue[p]>>
      BY <1>4, <2>2 DEF Release, TypeOK
    <3>2. \A c \in Requests : PoolOf[c] # PoolOf[r] => pc'[c] = pc[c]
      <4>1. CASE queue[PoolOf[r]] = <<>>
        BY <1>4, <4>1 DEF Release, TypeOK
      <4>2. CASE queue[PoolOf[r]] # <<>>
        <5>1. queue[PoolOf[r]] \in Seq(Requests)
          BY DEF TypeOK
        <5>2. Head(queue[PoolOf[r]]) = queue[PoolOf[r]][1] /\ 1 \in DOMAIN queue[PoolOf[r]]
          BY <4>2, <5>1, HeadTailProperties, EmptySeq, LenProperties
        <5>3. PoolOf[Head(queue[PoolOf[r]])] = PoolOf[r]
          BY <5>2 DEF QueueInv
        <5>. QED  BY <1>4, <4>2, <5>3 DEF Release, TypeOK
      <4>. QED  BY <4>1, <4>2
    <3>. QED  BY <2>1, <2>2, <3>1, <3>2 DEF SlotsExact, HasSlot
  <2>3. ASSUME p = PoolOf[r]
        PROVE  /\ r \in live[p] /\ slots[p] = Cardinality(live[p]) /\ slots[p] > 0
               /\ IsFiniteSet(live[p] \ {r}) /\ Cardinality(live[p] \ {r}) = slots[p] - 1
    <3>1. r \in live[p] /\ slots[p] = Cardinality(live[p])
      BY <2>1, <2>3 DEF SlotsExact
    <3>2. IsFiniteSet(live[p] \ {r}) /\ Cardinality(live[p] \ {r}) = Cardinality(live[p]) - 1
      BY <1>0, <3>1, FS_RemoveElement
    <3>3. Cardinality(live[p] \ {r}) \in Nat
      BY <3>2, FS_CardinalityType
    <3>. QED  BY <1>0, <3>1, <3>2, <3>3
  <2>4. CASE p = PoolOf[r] /\ queue[p] = <<>>
    <3>1. /\ queue'[p] = <<>> /\ pc' = [pc EXCEPT ![r] = "done"]
          /\ slots'[p] = Freed(slots[p]) /\ live'[p] = live[p] \ {r}
      BY <1>4, <2>4 DEF Release, TypeOK
    <3>2. slots'[p] = slots[p] - 1
      BY <2>3, <2>4, <3>1 DEF Freed
    <3>3. live'[p] = {c \in Requests : PoolOf[c] = p /\ HasSlot(c)'}
      BY <2>1, <3>1 DEF SlotsExact, HasSlot, TypeOK
    <3>4. slots'[p] <= Limit
      BY <1>0, <2>1, <3>2 DEF SlotsExact
    <3>. QED  BY <2>3, <2>4, <3>1, <3>2, <3>3, <3>4
  <2>5. CASE p = PoolOf[r] /\ queue[p] # <<>>
    <3>. DEFINE h == Head(queue[p])
    <3>1. /\ pc' = [pc EXCEPT ![r] = "done", ![h] = "granted"]
          /\ slots'[p] = Freed(slots[p]) + 1 /\ live'[p] = (live[p] \ {r}) \cup {h}
      BY <1>4, <2>5 DEF Release, TypeOK
    <3>2. h = queue[p][1] /\ 1 \in DOMAIN queue[p] /\ h \in Requests
      BY <1>0, <2>5, HeadTailProperties, EmptySeq, LenProperties
    <3>3. PoolOf[h] = p /\ pc[h] = "queued"
      BY <3>2 DEF QueueInv
    <3>. HIDE DEF h
    <3>4. slots'[p] = slots[p] /\ slots[p] = Limit
      BY <1>0, <2>1, <2>3, <2>5, <3>1 DEF Freed, SlotsExact
    <3>5. h \notin live[p] \ {r}
      BY <2>1, <3>3 DEF SlotsExact, HasSlot
    <3>6. Cardinality(live'[p]) = Cardinality(live[p] \ {r}) + 1
      <4>1. IsFiniteSet(live[p] \ {r})
        BY <2>3, <2>5
      <4>2. Cardinality((live[p] \ {r}) \cup {h}) = Cardinality(live[p] \ {r}) + 1
        BY <3>5, <4>1, FS_AddElement
      <4>. QED  BY <3>1, <4>2
    <3>7. live'[p] = {c \in Requests : PoolOf[c] = p /\ HasSlot(c)'}
      <4>1. live[p] = {c \in Requests : PoolOf[c] = p /\ HasSlot(c)}
        BY <2>1 DEF SlotsExact
      <4>2. \A c \in Requests : HasSlot(c)' <=> (c = h \/ (c # r /\ HasSlot(c)))
        BY <2>1, <3>1, <3>2, <3>3 DEF HasSlot, TypeOK
      <4>. QED  BY <3>1, <3>2, <3>3, <4>1, <4>2
    <3>. QED  BY <1>0, <2>3, <2>5, <3>4, <3>6, <3>7
  <2>. QED  BY <2>2, <2>4, <2>5
<1>5. ASSUME NEW q \in Pools, StopEnds(q)
      PROVE  /\ live'[p] = {c \in Requests : PoolOf[c] = p /\ HasSlot(c)'}
             /\ slots'[p] = Cardinality(live'[p]) /\ slots'[p] <= Limit
             /\ queue'[p] # <<>> => slots'[p] = Limit
  <2>1. p # q /\ stop[p] # "done"
    BY <1>5 DEF StopEnds, TypeOK
  <2>2. UNCHANGED <<slots[p], live[p], queue[p]>>
    BY <1>5, <2>1 DEF StopEnds, TypeOK
  <2>3. \A c \in Requests : PoolOf[c] = p => pc'[c] = pc[c]
    BY <1>5, <2>1 DEF StopEnds
  <2>. QED  BY <2>1, <2>2, <2>3 DEF SlotsExact, HasSlot
<1>. QED  BY <1>1, <1>2, <1>3, <1>4, <1>5, OtherSteps

-------------------------------------------------------------------------------
(* Who closes waits, and who has not spawned yet has no process.             *)

\* Every step keeps closers with the clients they close.
LEMMA CloserStep == TypeOK /\ QueueInv /\ CloserInv /\ StopInv /\ [Next]_vars => CloserInv'
<1>. SUFFICES ASSUME TypeOK, QueueInv, CloserInv, StopInv, [Next]_vars PROVE CloserInv'
  OBVIOUS
<1>. USE PoolAssumption
<1>1. CASE UNCHANGED <<pc, closer>>
  BY <1>1 DEF CloserInv
<1>2. ASSUME UNCHANGED closer,
             \A r \in Requests : pc[r] \in WaitsForClose => pc'[r] = pc[r]
      PROVE  CloserInv'
  BY <1>2 DEF CloserInv, Closers
<1>3. ASSUME NEW r \in Requests, NEW c \in Requests, NEW w \in WaitsForClose,
             closer' = [closer EXCEPT ![<<"request", r>>] = [client |-> c, at |-> "begin"]],
             pc' = [pc EXCEPT ![r] = w]
      PROVE  CloserInv'
  <2>1. \A x \in Closers : x # <<"request", r>> => closer'[x] = closer[x]
    BY <1>3 DEF TypeOK
  <2>2. /\ closer'[<<"request", r>>].client = c
        /\ pc'[r] = w
        /\ <<"request", r>>[1] = "request" /\ <<"request", r>>[2] = r
    BY <1>3 DEF TypeOK, Closers
  <2>3. \A x \in Closers : x # <<"request", r>> /\ x[1] = "request" =>
          x[2] \in Requests /\ (x[2] = r => FALSE)
    BY DEF Closers
  <2>4. SUFFICES ASSUME NEW x \in Closers, closer'[x].at # "idle"
                 PROVE  closer'[x].client \in Requests /\ (x[1] = "request" => pc'[x[2]] \in WaitsForClose)
    BY DEF CloserInv
  <2>5. CASE x = <<"request", r>>
    BY <1>3, <2>2, <2>5
  <2>6. CASE x # <<"request", r>>
    <3>1. closer[x].client \in Requests /\ (x[1] = "request" => pc[x[2]] \in WaitsForClose)
      BY <2>1, <2>4, <2>6 DEF CloserInv
    <3>. QED  BY <1>3, <2>1, <2>3, <2>6, <3>1 DEF TypeOK
  <2>. QED  BY <2>5, <2>6
<1>4. ASSUME NEW r \in Requests, Steps(r) \/ GivesUp(r) \/ Boot(r) \/ ProcessGone(r) PROVE CloserInv'
  <2>0. PoolOf[r] \in Pools /\ mapped[PoolOf[r]] \in Requests \cup {None}
    BY DEF TypeOK
  <2>1. CASE Boot(r) \/ ProcessGone(r)
    BY <1>1, <2>1 DEF Boot, ProcessGone
  <2>2. CASE Acquire(r) \/ GiveUpSlot(r)
    <3>1. UNCHANGED closer /\ pc[r] \notin WaitsForClose /\ \E w \in Phases : pc' = [pc EXCEPT ![r] = w]
      BY <2>2 DEF Acquire, GiveUpSlot, Go, clientVars, WaitsForClose, Phases
    <3>. QED  BY <1>2, <3>1 DEF TypeOK
  <2>3. CASE Release(r)
    <3>1. UNCHANGED closer /\ pc[r] \notin WaitsForClose
      BY <2>3 DEF Release, clientVars, WaitsForClose
    <3>2. CASE queue[PoolOf[r]] = <<>>
      <4>1. pc' = [pc EXCEPT ![r] = "done"]
        BY <2>3, <3>2 DEF Release
      <4>. QED  BY <1>2, <3>1, <4>1 DEF TypeOK
    <3>3. CASE queue[PoolOf[r]] # <<>>
      <4>. DEFINE h == Head(queue[PoolOf[r]])
      <4>1. pc' = [pc EXCEPT ![r] = "done", ![h] = "granted"]
        BY <2>3, <3>3 DEF Release
      <4>2. queue[PoolOf[r]] \in Seq(Requests)
        BY <2>0 DEF TypeOK
      <4>3. h = queue[PoolOf[r]][1] /\ 1 \in DOMAIN queue[PoolOf[r]] /\ h \in Requests
        BY <3>3, <4>2, HeadTailProperties, EmptySeq, LenProperties
      <4>4. pc[h] \notin WaitsForClose
        BY <2>0, <4>3 DEF QueueInv, WaitsForClose
      <4>. HIDE DEF h
      <4>5. \A c \in Requests : pc[c] \in WaitsForClose => pc'[c] = pc[c]
        BY <3>1, <4>1, <4>3, <4>4 DEF TypeOK
      <4>. QED  BY <1>2, <3>1, <4>5
    <3>. QED  BY <3>2, <3>3
  <2>4. CASE \/ Abandon(r) \/ SkipChain(r) \/ Chain(r) \/ GiveUpChain(r) \/ LeaseFails(r)
             \/ AcquireLease(r) \/ AbandonSpawn(r) \/ ReturnLease(r)
    <3>1. UNCHANGED closer /\ pc[r] \notin WaitsForClose /\ \E w \in Phases : pc' = [pc EXCEPT ![r] = w]
      BY <2>4 DEF Abandon, SkipChain, Chain, GiveUpChain, LeaseFails, AcquireLease, AbandonSpawn,
         ReturnLease, Go, clientVars, WaitsForClose, Phases
    <3>. QED  BY <1>2, <3>1 DEF TypeOK
  <2>5. CASE SpawnChild(r) \/ Register(r) \/ Started(r) \/ Answered(r) \/ ChildEnds(r)
    <3>1. UNCHANGED closer /\ pc[r] \notin WaitsForClose /\ \E w \in Phases : pc' = [pc EXCEPT ![r] = w]
      BY <2>5 DEF SpawnChild, Register, Started, Answered, ChildEnds, Go, clientVars, WaitsForClose, Phases
    <3>. QED  BY <1>2, <3>1 DEF TypeOK
  <2>6. CASE StartFails(r)
    BY <1>3, <2>6 DEF StartFails, Closing, Go, WaitsForClose
  <2>7. CASE RecycleSession(r) \/ Caught(r) \/ GetClient(r) \/ PromptFails(r)
    <3>1. /\ pc[r] \notin WaitsForClose
          /\ \/ UNCHANGED closer /\ \E w \in Phases : pc' = [pc EXCEPT ![r] = w]
             \/ /\ mapped[PoolOf[r]] # None
                /\ \E w \in WaitsForClose : pc' = [pc EXCEPT ![r] = w]
                /\ Closing(<<"request", r>>, mapped[PoolOf[r]])
      BY <2>7 DEF RecycleSession, Caught, GetClient, PromptFails, CloseMapped, WaitsForClose, Phases
    <3>2. CASE UNCHANGED closer /\ \E w \in Phases : pc' = [pc EXCEPT ![r] = w]
      BY <1>2, <3>1, <3>2 DEF TypeOK
    <3>3. CASE /\ mapped[PoolOf[r]] # None
               /\ \E w \in WaitsForClose : pc' = [pc EXCEPT ![r] = w]
               /\ Closing(<<"request", r>>, mapped[PoolOf[r]])
      BY <1>3, <2>0, <3>3 DEF Closing
    <3>. QED  BY <3>1, <3>2, <3>3
  <2>. QED
    BY <1>4, <2>1, <2>2, <2>3, <2>4, <2>5, <2>6, <2>7 DEF Steps, GivesUp
<1>5. ASSUME NEW x \in Closers, Closes(x) PROVE CloserInv'
  <2>1. CASE EndInput(x)
    <3>1. /\ pc' = pc /\ \A y \in Closers : y # x => closer'[y] = closer[y]
          /\ closer'[x].client = closer[x].client /\ closer[x].at = "begin"
      BY <2>1 DEF EndInput, Reached, TypeOK
    <3>. QED  BY <3>1 DEF CloserInv
  <2>2. CASE Retire(x) \/ RetireFails(x) \/ CloseFails(x)
    <3>1. /\ closer'[x].at = "idle" /\ \A y \in Closers : y # x => closer'[y] = closer[y]
          /\ \A r \in Requests : x # <<"request", r>> => pc'[r] = pc[r]
      BY <2>2, CloseEnding, CloseEnded
    <3>. QED  BY <3>1 DEF CloserInv, Closers
  <2>. QED  BY <1>5, <2>1, <2>2 DEF Closes
<1>6. ASSUME NEW p \in Pools, ReleaseJob(p) \/ Stops(p) \/ Crash(p) PROVE CloserInv'
  <2>1. CASE Stop(p) \/ Crash(p)
    BY <1>1, <2>1 DEF Stop, Crash, clientVars
  <2>2. CASE ReleaseJob(p) \/ StopClients(p)
    <3>1. /\ pc' = pc
          /\ \/ UNCHANGED closer
             \/ /\ mapped[p] \in Requests
                /\ \E x \in {<<"job", p>>, <<"stop", p>>} : Closing(x, mapped[p])
      BY <2>2 DEF ReleaseJob, StopClients, TypeOK
    <3>2. \A x \in {<<"job", p>>, <<"stop", p>>} : x \in Closers /\ x[1] # "request"
      BY DEF Closers
    <3>3. CASE UNCHANGED closer
      BY <1>1, <3>1, <3>3
    <3>4. ASSUME mapped[p] \in Requests, NEW x \in {<<"job", p>>, <<"stop", p>>}, Closing(x, mapped[p])
          PROVE  CloserInv'
      <4>1. \A y \in Closers : IF y = x THEN closer'[y].client = mapped[p] ELSE closer'[y] = closer[y]
        BY <3>4 DEF Closing, TypeOK
      <4>. QED  BY <3>1, <3>2, <3>4, <4>1 DEF CloserInv
    <3>. QED  BY <3>1, <3>3, <3>4
  <2>3. CASE StopEnds(p)
    <3>1. UNCHANGED closer /\ \A r \in Requests : pc[r] \in WaitsForClose => pc'[r] = pc[r]
      BY <2>3 DEF StopEnds, clientVars, WaitsForClose
    <3>. QED  BY <1>2, <3>1
  <2>. QED  BY <1>6, <2>1, <2>2, <2>3 DEF Stops
<1>. QED  BY <1>1, <1>4, <1>5, <1>6 DEF Next, vars

\* Every step keeps stop waiting for the close it has begun.
LEMMA StopStep == TypeOK /\ CloserInv /\ StopInv /\ [Next]_vars => StopInv'
<1>. SUFFICES ASSUME TypeOK, CloserInv, StopInv, [Next]_vars PROVE StopInv'
  OBVIOUS
<1>. USE PoolAssumption
<1>0. \A p \in Pools : <<"stop", p>> \in Closers
  BY DEF Closers
<1>1. CASE \A p \in Pools : /\ closer'[<<"stop", p>>] = closer[<<"stop", p>>]
                            /\ stop[p] = "clients" => stop'[p] = "clients"
  BY <1>1 DEF StopInv
<1>2. CASE UNCHANGED vars
  BY <1>1, <1>2 DEF vars
<1>3. ASSUME NEW r \in Requests, Steps(r) \/ GivesUp(r) \/ Boot(r) \/ ProcessGone(r) PROVE StopInv'
  <2>1. UNCHANGED stop
    BY <1>3 DEF Steps, GivesUp, ProcessGone, Acquire, GiveUpSlot, Release, Abandon, SkipChain,
       RecycleSession, Caught, Chain, GetClient, GiveUpChain, AcquireLease, LeaseFails, SpawnChild,
       Register, Boot, AbandonSpawn, ReturnLease, Started, StartFails, Answered, PromptFails, ChildEnds
  <2>2. UNCHANGED closer \/ \E c \in Requests \cup {None} : Closing(<<"request", r>>, c)
    <3>1. mapped[PoolOf[r]] \in Requests \cup {None}
      BY DEF TypeOK
    <3>2. CASE RecycleSession(r) \/ Caught(r) \/ GetClient(r) \/ PromptFails(r) \/ StartFails(r)
      BY <3>1, <3>2 DEF RecycleSession, Caught, GetClient, PromptFails, StartFails, CloseMapped
    <3>3. CASE ~(RecycleSession(r) \/ Caught(r) \/ GetClient(r) \/ PromptFails(r) \/ StartFails(r))
      BY <1>3, <3>3 DEF Steps, GivesUp, ProcessGone, Acquire, GiveUpSlot, Release, Abandon, SkipChain,
         Chain, GiveUpChain, AcquireLease, LeaseFails, SpawnChild, Register, Boot, AbandonSpawn,
         ReturnLease, Started, Answered, ChildEnds, clientVars
    <3>. QED  BY <3>2, <3>3
  <2>3. \A p \in Pools : closer'[<<"stop", p>>] = closer[<<"stop", p>>]
    BY <1>0, <2>2 DEF Closing, TypeOK
  <2>. QED  BY <1>1, <2>1, <2>3
<1>4. ASSUME NEW x \in Closers, Closes(x) PROVE StopInv'
  <2>1. CASE EndInput(x)
    <3>1. /\ UNCHANGED stop /\ \A y \in Closers : y # x => closer'[y] = closer[y]
          /\ closer[x].at = "begin"
      BY <2>1 DEF EndInput, Reached, TypeOK
    <3>. QED  BY <1>0, <3>1 DEF StopInv
  <2>2. CASE Retire(x) \/ RetireFails(x) \/ CloseFails(x)
    <3>1. /\ closer'[x].at = "idle" /\ \A y \in Closers : y # x => closer'[y] = closer[y]
          /\ \A p \in Pools : x # <<"stop", p>> => stop'[p] = stop[p]
      BY <2>2, CloseEnding, CloseEnded
    <3>. QED  BY <1>0, <3>1 DEF StopInv
  <2>. QED  BY <1>4, <2>1, <2>2 DEF Closes
<1>5. ASSUME NEW p \in Pools, ReleaseJob(p) \/ Stops(p) \/ Crash(p) PROVE StopInv'
  <2>1. CASE ReleaseJob(p)
    <3>1. UNCHANGED stop /\ Closing(<<"job", p>>, mapped[p])
      BY <2>1 DEF ReleaseJob
    <3>2. \A q \in Pools : closer'[<<"stop", q>>] = closer[<<"stop", q>>]
      BY <1>0, <3>1 DEF Closing, TypeOK
    <3>. QED  BY <1>1, <3>1, <3>2
  <2>2. CASE Stop(p) \/ Crash(p)
    <3>1. /\ UNCHANGED closer
          /\ UNCHANGED stop \/ (stop[p] = "no" /\ stop' = [stop EXCEPT ![p] = "children"])
      BY <2>2 DEF Stop, Crash, clientVars
    <3>. QED  BY <1>1, <3>1 DEF TypeOK
  <2>3. CASE StopClients(p)
    <3>1. /\ stop' = [stop EXCEPT ![p] = "clients"]
          /\ UNCHANGED closer \/ Closing(<<"stop", p>>, mapped[p])
      BY <2>3 DEF StopClients
    <3>2. \A q \in Pools : q # p => closer'[<<"stop", q>>] = closer[<<"stop", q>>]
      BY <1>0, <3>1 DEF Closing, TypeOK
    <3>. QED  BY <3>1, <3>2 DEF StopInv, TypeOK
  <2>4. CASE StopEnds(p)
    <3>1. /\ UNCHANGED closer /\ closer[<<"stop", p>>].at = "idle"
          /\ \A q \in Pools : q # p => stop'[q] = stop[q]
      BY <2>4 DEF StopEnds, clientVars, Idle, TypeOK
    <3>. QED  BY <3>1 DEF StopInv
  <2>. QED  BY <1>5, <2>1, <2>2, <2>3, <2>4 DEF Stops
<1>. QED  BY <1>2, <1>3, <1>4, <1>5 DEF Next

-------------------------------------------------------------------------------
(* The lease of a client, from before it is spawned until it is gone.        *)

\* What a call of #closePersistentClient may be after a step that leaves the
\* processes alone.
Kept(x) == \/ closer'[x] = closer[x] \/ closer'[x].at = "idle"
           \/ /\ closer'[x].at \in {"begin", "waiting"} /\ closer'[x].client \in Requests
              /\ proc[closer'[x].client] # "none"

\* A close that begins takes a client.
LEMMA BeginKept ==
  ASSUME TypeOK, NEW y \in Closers, NEW c \in Requests, proc[c] # "none", Closing(y, c)
  PROVE  \A x \in Closers : Kept(x)
<1>1. closer'[y] = [client |-> c, at |-> "begin"] /\ \A x \in Closers : x # y => closer'[x] = closer[x]
  BY DEF Closing, TypeOK
<1>. QED  BY <1>1 DEF Kept

\* Every step keeps what is under a key or being closed a client, and its close
\* without a child before the child or after it.
LEMMA ClientStep ==
  TypeOK /\ CloserInv /\ StopInv /\ LeaseInv /\ MappedInv /\ ClosedInv /\ [Next]_vars
    => MappedInv' /\ ClosedInv'
<1>. SUFFICES ASSUME TypeOK, CloserInv, StopInv, LeaseInv, MappedInv, ClosedInv, [Next]_vars
              PROVE  MappedInv' /\ ClosedInv'
  OBVIOUS
<1>. USE PoolAssumption
<1>1. ASSUME \A c \in Requests : /\ proc[c] # "none" => proc'[c] # "none"
                                 /\ proc[c] = "gone" => proc'[c] = "gone",
             early \subseteq early',
             \A p \in Pools : mapped'[p] \in {mapped[p], None},
             \A x \in Closers : Kept(x)
      PROVE  MappedInv' /\ ClosedInv'
  <2>1. MappedInv'
    BY <1>1 DEF MappedInv, TypeOK
  <2>2. ClosedInv'
    BY <1>1 DEF ClosedInv, CloserInv, Kept
  <2>. QED  BY <2>1, <2>2
<1>2. CASE UNCHANGED vars
  BY <1>2 DEF vars, MappedInv, ClosedInv
<1>3. ASSUME NEW r \in Requests, Steps(r) \/ GivesUp(r) \/ Boot(r) \/ ProcessGone(r)
      PROVE  MappedInv' /\ ClosedInv'
  <2>0. <<"request", r>> \in Closers /\ PoolOf[r] \in Pools /\ mapped[PoolOf[r]] \in Requests \cup {None}
    BY DEF Closers, TypeOK
  <2>1. CASE \/ Acquire(r) \/ GiveUpSlot(r) \/ Release(r) \/ Abandon(r) \/ SkipChain(r) \/ Chain(r)
             \/ GiveUpChain(r) \/ AcquireLease(r) \/ LeaseFails(r) \/ AbandonSpawn(r) \/ ReturnLease(r)
             \/ Answered(r)
    <3>1. UNCHANGED <<mapped, proc, closer, early>>
      BY <2>1 DEF Acquire, GiveUpSlot, Release, Abandon, SkipChain, Chain, GiveUpChain, AcquireLease,
         LeaseFails, AbandonSpawn, ReturnLease, Answered, clientVars
    <3>. QED  BY <1>1, <3>1 DEF Kept
  <2>2. CASE RecycleSession(r) \/ Caught(r) \/ GetClient(r) \/ PromptFails(r)
    <3>1. /\ UNCHANGED <<mapped, proc, early>>
          /\ UNCHANGED closer \/ (mapped[PoolOf[r]] # None /\ Closing(<<"request", r>>, mapped[PoolOf[r]]))
      BY <2>2 DEF RecycleSession, Caught, GetClient, PromptFails, CloseMapped
    <3>2. \A x \in Closers : Kept(x)
      <4>1. CASE UNCHANGED closer
        BY <4>1 DEF Kept
      <4>2. CASE mapped[PoolOf[r]] # None /\ Closing(<<"request", r>>, mapped[PoolOf[r]])
        <5>1. mapped[PoolOf[r]] \in Requests /\ proc[mapped[PoolOf[r]]] # "none"
          BY <2>0, <4>2 DEF MappedInv
        <5>. QED  BY <2>0, <4>2, <5>1, BeginKept
      <4>. QED  BY <3>1, <4>1, <4>2
    <3>. QED  BY <1>1, <3>1, <3>2
  <2>3. CASE StartFails(r)
    <3>1. UNCHANGED <<mapped, proc, early>> /\ pc[r] = "starting" /\ Closing(<<"request", r>>, r)
      BY <2>3 DEF StartFails, Go
    <3>2. \A x \in Closers : Kept(x)
      <4>1. proc[r] # "none"
        BY <3>1 DEF LeaseInv
      <4>. QED  BY <2>0, <3>1, <4>1, BeginKept
    <3>. QED  BY <1>1, <3>1, <3>2
  <2>4. CASE SpawnChild(r) \/ Boot(r) \/ Started(r) \/ ChildEnds(r) \/ ProcessGone(r)
    <3>1. /\ UNCHANGED <<mapped, closer, early>>
          /\ \E w \in {"starting", "running", "closing", "gone"} : proc' = [proc EXCEPT ![r] = w]
          /\ proc[r] = "gone" => proc' = proc
      <4>1. CASE SpawnChild(r)
        BY <4>1 DEF SpawnChild, Go, LeaseInv, BeforeSpawn
      <4>2. CASE ChildEnds(r)
        BY <4>2 DEF ChildEnds, TypeOK
      <4>3. CASE Boot(r) \/ Started(r) \/ ProcessGone(r)
        BY <4>3 DEF Boot, Started, ProcessGone
      <4>. QED  BY <2>4, <4>1, <4>2, <4>3
    <3>. QED  BY <1>1, <3>1 DEF Kept, TypeOK
  <2>5. CASE Register(r)
    <3>1. /\ UNCHANGED <<closer, early>> /\ proc[r] = "none"
          /\ proc' = [proc EXCEPT ![r] = "booting"] /\ mapped' = [mapped EXCEPT ![PoolOf[r]] = r]
      BY <2>5 DEF Register, Go, LeaseInv, BeforeSpawn
    <3>2. MappedInv'
      BY <3>1 DEF MappedInv, TypeOK
    <3>3. ClosedInv'
      BY <3>1 DEF ClosedInv, CloserInv, TypeOK
    <3>. QED  BY <3>2, <3>3
  <2>. QED  BY <1>3, <2>1, <2>2, <2>3, <2>4, <2>5 DEF Steps, GivesUp
<1>4. ASSUME NEW x \in Closers, Closes(x) PROVE MappedInv' /\ ClosedInv'
  <2>1. CASE EndInput(x)
    <3>. DEFINE c == closer[x].client
    <3>1. c \in Requests /\ proc[c] # "none" /\ closer[x].at = "begin" /\ UNCHANGED mapped
      BY <2>1 DEF EndInput, Reached, CloserInv, ClosedInv
    <3>2. CASE proc[c] \in {"booting", "gone"}
      <4>1. /\ UNCHANGED proc /\ early \subseteq early' /\ (c \in early' \/ proc[c] = "gone")
            /\ closer' = [closer EXCEPT ![x].at = "childless"]
        BY <2>1, <3>2 DEF EndInput
      <4>2. closer'[x].client = c /\ \A y \in Closers : y # x => closer'[y] = closer[y]
        BY <4>1 DEF TypeOK
      <4>3. closer'[x].at = "childless"
        BY <4>1 DEF TypeOK
      <4>4. MappedInv'
        BY <3>1, <4>1 DEF MappedInv
      <4>5. ClosedInv'
        BY <3>1, <4>1, <4>2, <4>3 DEF ClosedInv
      <4>. QED  BY <4>4, <4>5
    <3>3. CASE proc[c] \notin {"booting", "gone"}
      <4>1. /\ UNCHANGED early /\ proc' = [proc EXCEPT ![c] = "closing"]
            /\ closer' = [closer EXCEPT ![x].at = "waiting"]
        BY <2>1, <3>3 DEF EndInput
      <4>2. \A y \in Closers : Kept(y)
        <5>1. /\ closer'[x].at = "waiting" /\ closer'[x].client = c
              /\ \A y \in Closers : y # x => closer'[y] = closer[y]
          BY <4>1 DEF TypeOK
        <5>. QED  BY <3>1, <5>1 DEF Kept
      <4>. QED  BY <1>1, <3>1, <3>3, <4>1, <4>2 DEF TypeOK
    <3>. QED  BY <3>2, <3>3
  <2>2. CASE Retire(x) \/ RetireFails(x) \/ CloseFails(x)
    <3>1. /\ closer'[x].at = "idle" /\ \A y \in Closers : y # x => closer'[y] = closer[y]
          /\ UNCHANGED <<proc, early>>
          /\ UNCHANGED mapped \/ mapped' = [mapped EXCEPT ![PoolOfCloser(x)] = None]
      BY <2>2, CloseEnding, CloseEnded
    <3>2. \A p \in Pools : mapped'[p] \in {mapped[p], None}
      BY <3>1 DEF TypeOK
    <3>3. \A y \in Closers : Kept(y)
      BY <3>1 DEF Kept
    <3>. QED  BY <1>1, <3>1, <3>2, <3>3
  <2>. QED  BY <1>4, <2>1, <2>2 DEF Closes
<1>5. ASSUME NEW p \in Pools, ReleaseJob(p) \/ Stops(p) \/ Crash(p) PROVE MappedInv' /\ ClosedInv'
  <2>0. <<"job", p>> \in Closers /\ <<"stop", p>> \in Closers
    BY DEF Closers
  <2>1. CASE ReleaseJob(p) \/ StopClients(p)
    <3>1. /\ UNCHANGED <<mapped, proc, early>>
          /\ \/ UNCHANGED closer
             \/ mapped[p] # None /\ \E w \in {"job", "stop"} : Closing(<<w, p>>, mapped[p])
      BY <2>1 DEF ReleaseJob, StopClients
    <3>2. \A x \in Closers : Kept(x)
      <4>1. CASE UNCHANGED closer
        BY <4>1 DEF Kept
      <4>2. ASSUME NEW w \in {"job", "stop"}, mapped[p] # None, Closing(<<w, p>>, mapped[p])
            PROVE  \A x \in Closers : Kept(x)
        <5>1. mapped[p] \in Requests /\ proc[mapped[p]] # "none"
          BY <4>2 DEF MappedInv, TypeOK
        <5>. QED  BY <2>0, <4>2, <5>1, BeginKept
      <4>. QED  BY <3>1, <4>1, <4>2
    <3>. QED  BY <1>1, <3>1, <3>2
  <2>2. CASE Stop(p)
    <3>1. /\ UNCHANGED <<mapped, closer, early>>
          /\ \A c \in Requests : proc'[c] = proc[c] \/ (Running(c) /\ proc'[c] = "closing")
      BY <2>2 DEF Stop
    <3>. QED  BY <1>1, <3>1 DEF Running, Kept
  <2>3. CASE StopEnds(p) \/ Crash(p)
    <3>1. UNCHANGED <<mapped, proc, closer, early>>
      BY <2>3 DEF StopEnds, Crash, clientVars
    <3>. QED  BY <1>1, <3>1 DEF Kept
  <2>. QED  BY <1>5, <2>1, <2>2, <2>3 DEF Stops
<1>. QED  BY <1>2, <1>3, <1>4, <1>5 DEF Next

\* Every step keeps the leases with their clients.
LEMMA LeaseStep ==
  TypeOK /\ QueueInv /\ CloserInv /\ StopInv /\ LeaseInv /\ ClosedInv /\ ClientsLeased
    /\ [Next]_vars => LeaseInv' /\ ClientsLeased'
<1>. SUFFICES ASSUME TypeOK, QueueInv, CloserInv, StopInv, LeaseInv, ClosedInv, ClientsLeased,
                     [Next]_vars
              PROVE  LeaseInv' /\ ClientsLeased'
  OBVIOUS
<1>. USE PoolAssumption
\* an action that spawns nothing and takes no lease of what lives on
<1>1. ASSUME \A c \in Requests : \/ proc'[c] = proc[c]
                                 \/ proc[c] \notin {"none", "gone"} /\ proc'[c] # "none",
             early \subseteq early',
             \A c \in Requests : Alive(c)' => Alive(c),
             \A c \in leases : \/ Alive(c)' => c \in leases'
                               \/ proc[c] # "none" /\ (c \in early' \/ proc'[c] = "gone"),
             \A c \in Requests : /\ pc'[c] \in BeforeSpawn => pc[c] \in BeforeSpawn
                                 /\ pc'[c] \in {"leased", "starting"} => pc[c] = pc'[c]
                                 /\ pc'[c] = "returning" /\ Persistent(c) => pc[c] \in {"leased", "returning"}
      PROVE  LeaseInv' /\ ClientsLeased'
  <2>1. ASSUME NEW c \in Requests, pc'[c] \in BeforeSpawn PROVE proc'[c] = "none"
    BY <1>1, <2>1 DEF LeaseInv
  <2>2. ASSUME NEW c \in Requests, pc'[c] = "leased", Alive(c)' PROVE c \in leases'
    <3>1. pc[c] = "leased" /\ Alive(c)
      BY <1>1, <2>2
    <3>2. c \in leases /\ proc[c] = "none"
      BY <3>1 DEF LeaseInv, BeforeSpawn
    <3>. QED  BY <1>1, <2>2, <3>2
  <2>3. ASSUME NEW c \in Requests, pc'[c] = "returning", Persistent(c) PROVE proc'[c] = "none"
    <3>1. proc[c] = "none"
      BY <1>1, <2>3 DEF LeaseInv, BeforeSpawn
    <3>. QED  BY <1>1, <3>1
  <2>4. ASSUME NEW c \in Requests, pc'[c] = "starting" PROVE proc'[c] # "none"
    <3>1. proc[c] # "none"
      BY <1>1, <2>4 DEF LeaseInv
    <3>. QED  BY <1>1, <3>1
  <2>5. LeaseInv'
    BY <2>1, <2>2, <2>3, <2>4 DEF LeaseInv, Persistent
  <2>6. ClientsLeased'
    <3>1. SUFFICES ASSUME NEW c \in Requests, Persistent(c), Alive(c)', c \notin early',
                          proc'[c] \in {"booting", "starting", "running", "closing"}
                   PROVE  c \in leases'
      BY DEF ClientsLeased, Persistent
    <3>2. proc[c] \in {"booting", "starting", "running", "closing"} /\ c \notin early /\ Alive(c)
      BY <1>1, <3>1 DEF TypeOK
    <3>3. c \in leases
      BY <3>1, <3>2 DEF ClientsLeased
    <3>. QED  BY <1>1, <3>1, <3>3
  <2>. QED  BY <2>5, <2>6
<1>2. CASE UNCHANGED vars
  BY <1>2 DEF vars, LeaseInv, ClientsLeased, Alive
<1>3. ASSUME NEW r \in Requests, Steps(r) \/ GivesUp(r) \/ Boot(r) \/ ProcessGone(r)
      PROVE  LeaseInv' /\ ClientsLeased'
  <2>1. CASE Acquire(r) \/ GiveUpSlot(r)
    <3>1. /\ UNCHANGED <<proc, leases, early, crashed>>
          /\ \E w \in {"granted", "queued", "done"} : pc' = [pc EXCEPT ![r] = w]
          /\ pc[r] \in {"new", "queued"}
      BY <2>1 DEF Acquire, GiveUpSlot, Go, clientVars
    <3>. QED  BY <1>1, <3>1 DEF Alive, BeforeSpawn, TypeOK
  <2>2. CASE Release(r)
    <3>1. UNCHANGED <<proc, leases, early, crashed>>
      BY <2>2 DEF Release, clientVars
    <3>2. CASE queue[PoolOf[r]] = <<>>
      <4>1. pc' = [pc EXCEPT ![r] = "done"]
        BY <2>2, <3>2 DEF Release
      <4>. QED  BY <1>1, <3>1, <4>1 DEF Alive, BeforeSpawn, TypeOK
    <3>3. CASE queue[PoolOf[r]] # <<>>
      <4>. DEFINE h == Head(queue[PoolOf[r]])
      <4>1. pc' = [pc EXCEPT ![r] = "done", ![h] = "granted"]
        BY <2>2, <3>3 DEF Release
      <4>2. queue[PoolOf[r]] \in Seq(Requests) /\ PoolOf[r] \in Pools
        BY DEF TypeOK
      <4>3. h = queue[PoolOf[r]][1] /\ 1 \in DOMAIN queue[PoolOf[r]] /\ h \in Requests
        BY <3>3, <4>2, HeadTailProperties, EmptySeq, LenProperties
      <4>4. pc[h] \in BeforeSpawn
        BY <4>2, <4>3 DEF QueueInv, BeforeSpawn
      <4>. HIDE DEF h
      <4>5. \A c \in Requests : /\ pc'[c] \in BeforeSpawn => pc[c] \in BeforeSpawn
                                /\ pc'[c] \in {"leased", "returning", "starting"} => pc'[c] = pc[c]
        BY <4>1, <4>3, <4>4 DEF BeforeSpawn, TypeOK
      <4>. QED  BY <1>1, <3>1, <4>5 DEF Alive
    <3>. QED  BY <3>2, <3>3
  <2>3. CASE Abandon(r) \/ SkipChain(r) \/ Chain(r) \/ GiveUpChain(r) \/ LeaseFails(r)
    <3>1. /\ UNCHANGED <<proc, leases, early, crashed>> /\ pc[r] \in BeforeSpawn
          /\ \E w \in {"finished", "leasing", "chained", "failed"} : pc' = [pc EXCEPT ![r] = w]
      BY <2>3 DEF Abandon, SkipChain, Chain, GiveUpChain, LeaseFails, Go, clientVars, BeforeSpawn
    <3>. QED  BY <1>1, <3>1 DEF Alive, BeforeSpawn, TypeOK
  <2>4. CASE RecycleSession(r) \/ Caught(r) \/ GetClient(r) \/ PromptFails(r)
    <3>1. /\ UNCHANGED <<proc, leases, early, crashed>>
          /\ \E w \in Phases : /\ pc' = [pc EXCEPT ![r] = w]
                               /\ w \notin {"leased", "returning", "starting"}
                               /\ w \in BeforeSpawn => pc[r] \in BeforeSpawn
      BY <2>4 DEF RecycleSession, Caught, GetClient, PromptFails, CloseMapped, Phases, BeforeSpawn
    <3>. QED  BY <1>1, <3>1 DEF Alive, TypeOK
  <2>5. CASE AcquireLease(r)
    <3>1. /\ UNCHANGED <<proc, early, crashed>>
          /\ pc[r] = "leasing" /\ pc' = [pc EXCEPT ![r] = "leased"]
          /\ leases' = LiveLeases \cup {r}
      BY <2>5 DEF AcquireLease, Go
    <3>. QED  BY <3>1 DEF LeaseInv, ClientsLeased, LiveLeases, Alive, Persistent, BeforeSpawn, TypeOK
  <2>6. CASE SpawnChild(r) \/ Register(r)
    <3>1. /\ UNCHANGED <<leases, early, crashed>> /\ pc[r] = "leased" /\ Alive(r)
          /\ \E w \in {"starting", "prompting"} : pc' = [pc EXCEPT ![r] = w]
          /\ \E w \in {"booting", "running"} : proc' = [proc EXCEPT ![r] = w]
      BY <2>6 DEF SpawnChild, Register, Go
    <3>2. r \in leases
      BY <3>1 DEF LeaseInv
    <3>. QED  BY <3>1, <3>2 DEF LeaseInv, ClientsLeased, Alive, Persistent, BeforeSpawn, TypeOK
  <2>7. CASE AbandonSpawn(r)
    <3>1. /\ UNCHANGED <<proc, leases, early, crashed>>
          /\ pc[r] = "leased" /\ pc' = [pc EXCEPT ![r] = "returning"]
      BY <2>7 DEF AbandonSpawn, Go, clientVars
    <3>. QED  BY <1>1, <3>1 DEF Alive, BeforeSpawn, TypeOK
  <2>8. CASE ReturnLease(r)
    <3>1. /\ UNCHANGED <<proc, early, crashed>> /\ leases' \in {leases, leases \ {r}}
          /\ pc[r] = "returning" /\ pc' = [pc EXCEPT ![r] = "failed"]
      BY <2>8 DEF ReturnLease, Go
    <3>2. Persistent(r) => proc[r] = "none"
      BY <3>1 DEF LeaseInv
    <3>3. LeaseInv'
      BY <3>1 DEF LeaseInv, Alive, Persistent, BeforeSpawn, TypeOK
    <3>4. ClientsLeased'
      BY <3>1, <3>2 DEF ClientsLeased, Alive, Persistent
    <3>. QED  BY <3>3, <3>4
  <2>9. CASE Started(r) \/ StartFails(r) \/ Answered(r)
    <3>1. /\ UNCHANGED <<leases, early, crashed>>
          /\ \E w \in {"prompting", "abandoning", "finished"} : pc' = [pc EXCEPT ![r] = w]
          /\ \/ UNCHANGED proc
             \/ proc[r] = "starting" /\ proc' = [proc EXCEPT ![r] = "running"]
      BY <2>9 DEF Started, StartFails, Answered, Go
    <3>. QED  BY <1>1, <3>1 DEF Alive, BeforeSpawn, TypeOK
  <2>10. CASE ChildEnds(r)
    <3>1. /\ UNCHANGED <<leases, early, crashed>> /\ ~Persistent(r)
          /\ pc[r] = "prompting" /\ pc' = [pc EXCEPT ![r] = "returning"]
          /\ \A c \in Requests : c # r => proc'[c] = proc[c]
      BY <2>10 DEF ChildEnds, Go, TypeOK
    <3>. QED  BY <3>1 DEF LeaseInv, ClientsLeased, Alive, Persistent, BeforeSpawn, TypeOK
  <2>11. CASE Boot(r) \/ ProcessGone(r)
    <3>1. /\ UNCHANGED <<pc, leases, early, crashed>> /\ proc[r] \notin {"none", "gone"}
          /\ \E w \in {"starting", "gone"} : proc' = [proc EXCEPT ![r] = w]
      BY <2>11 DEF Boot, ProcessGone
    <3>. QED  BY <1>1, <3>1 DEF Alive, TypeOK
  <2>. QED
    BY <1>3, <2>1, <2>2, <2>3, <2>4, <2>5, <2>6, <2>7, <2>8, <2>9, <2>10, <2>11 DEF Steps, GivesUp
<1>4. ASSUME NEW x \in Closers, Closes(x) PROVE LeaseInv' /\ ClientsLeased'
  <2>1. CASE EndInput(x)
    <3>1. /\ UNCHANGED <<pc, leases, crashed>> /\ early \subseteq early'
          /\ closer[x].at = "begin"
          /\ \/ UNCHANGED proc
             \/ /\ proc[closer[x].client] # "gone"
                /\ proc' = [proc EXCEPT ![closer[x].client] = "closing"]
      BY <2>1 DEF EndInput, Reached
    <3>2. proc[closer[x].client] # "none"
      BY <3>1 DEF ClosedInv
    <3>3. \A c \in Requests : \/ proc'[c] = proc[c]
                              \/ proc[c] \notin {"none", "gone"} /\ proc'[c] # "none"
      BY <3>1, <3>2 DEF TypeOK
    <3>. QED  BY <1>1, <3>1, <3>3 DEF Alive
  <2>2. CASE Retire(x) \/ RetireFails(x) \/ CloseFails(x)
    <3>1. closer[x].at # "idle" /\ UNCHANGED <<proc, early, crashed>>
      BY <2>2, CloseEnding
    <3>2. \A c \in leases : c \in leases' \/ (proc[c] # "none" /\ (c \in early' \/ proc'[c] = "gone"))
      BY <2>2, <3>1, CloseEnding DEF ClosedInv
    <3>3. \A c \in Requests : /\ pc'[c] \in BeforeSpawn => pc[c] \in BeforeSpawn
                              /\ pc'[c] \in {"leased", "returning", "starting"} => pc'[c] = pc[c]
      <4>1. \A c \in Requests :
              \/ pc'[c] = pc[c]
              \/ /\ pc'[c] \in {"prepared", "leasing", "failed", "finished"}
                 /\ pc'[c] \in {"prepared", "leasing"} => pc[c] \in {"recycling", "replacing"}
        BY <2>2, CloseEnding, CloseEnded
      <4>. QED  BY <4>1 DEF BeforeSpawn
    <3>. QED  BY <1>1, <3>1, <3>2, <3>3 DEF Alive
  <2>. QED  BY <1>4, <2>1, <2>2 DEF Closes
<1>5. ASSUME NEW p \in Pools, ReleaseJob(p) \/ Stops(p) \/ Crash(p) PROVE LeaseInv' /\ ClientsLeased'
  <2>1. CASE ReleaseJob(p) \/ StopClients(p)
    <3>1. UNCHANGED <<pc, proc, leases, early, crashed>>
      BY <2>1 DEF ReleaseJob, StopClients
    <3>. QED  BY <1>1, <3>1 DEF Alive
  <2>2. CASE Stop(p)
    <3>1. UNCHANGED <<pc, leases, early, crashed>>
      BY <2>2 DEF Stop
    <3>2. \A c \in Requests : proc'[c] = proc[c] \/ (proc[c] \in {"starting", "running"} /\ proc'[c] = "closing")
      BY <2>2 DEF Stop, Running
    <3>. QED  BY <1>1, <3>1, <3>2 DEF Alive
  <2>3. CASE StopEnds(p)
    <3>1. UNCHANGED <<proc, leases, early, crashed>> /\ \A c \in Requests : pc'[c] = pc[c] \/ pc'[c] = "done"
      BY <2>3 DEF StopEnds, clientVars
    <3>. QED  BY <1>1, <3>1 DEF Alive, BeforeSpawn
  <2>4. CASE Crash(p)
    <3>1. UNCHANGED <<pc, proc, leases, early>> /\ \A c \in Requests : Alive(c)' => Alive(c)
      BY <2>4 DEF Crash, clientVars, Alive, TypeOK
    <3>. QED  BY <1>1, <3>1
  <2>. QED  BY <1>5, <2>1, <2>2, <2>3, <2>4 DEF Stops
<1>. QED  BY <1>2, <1>3, <1>4, <1>5 DEF Next

-------------------------------------------------------------------------------
(* The theorems.                                                             *)

Inv == /\ TypeOK /\ QueueInv /\ CloserInv /\ StopInv /\ LeaseInv /\ MappedInv /\ ClosedInv
       /\ ClientsLeased /\ SlotsExact

\* The invariant holds in empty pools.
LEMMA InitInv == Init => Inv
<1>. SUFFICES ASSUME Init PROVE Inv
  OBVIOUS
<1>. USE PoolAssumption DEF Init
<1>1. TypeOK
  BY InitType
<1>2. QueueInv /\ CloserInv /\ LeaseInv /\ MappedInv /\ ClosedInv /\ ClientsLeased
  BY DEF QueueInv, CloserInv, LeaseInv, MappedInv, ClosedInv, ClientsLeased, Idle, BeforeSpawn
<1>3. StopInv
  BY DEF StopInv, Idle, Closers
<1>4. SlotsExact
  BY FS_EmptySet DEF SlotsExact, HasSlot
<1>. QED  BY <1>1, <1>2, <1>3, <1>4 DEF Inv

\* Every step keeps the invariant.
LEMMA InvStep == Inv /\ [Next]_vars => Inv'
BY TypeStep, QueueStep, CloserStep, StopStep, ClientStep, LeaseStep, SlotsStep DEF Inv

\* The invariant holds throughout every behaviour.
LEMMA Invariant == Spec => []Inv
BY InitInv, InvStep, PTL DEF Spec

\* Type correctness of the pools and their leases, for any processes, requests
\* and limit: no release, give-up or stop makes the slot count negative.
THEOREM TypeCorrect == Spec => []TypeOK
<1>1. Inv => TypeOK
  BY DEF Inv
<1>. QED  BY <1>1, Invariant, PTL

\* The slots of a pool are taken by exactly the requests that run, never more
\* than providerConnectionLimit, and none is free while a request waits: release
\* hands its slot over, acquire, give-up and stop leave the account exact.
THEOREM SlotsCorrect == Spec => []SlotsExact
<1>1. Inv => SlotsExact
  BY DEF Inv
<1>. QED  BY <1>1, Invariant, PTL

\* Of however many closes of a client race and fail, none returns its lease
\* before the process is gone, unless it came before the process was spawned;
\* and the sweep of dead owners takes no living client's lease.
THEOREM LeasesCover == Spec => []ClientsLeased
<1>1. Inv => ClientsLeased
  BY DEF Inv
<1>. QED  BY <1>1, Invariant, PTL
===============================================================================
