------------------------ MODULE FinalizerJournalProofs ------------------------
(***************************************************************************)
(* Proofs about the finalizer's journal, for every number of attempts.     *)
(*                                                                         *)
(* The argument: only the holder of the claim works (OwnerInv), it knows   *)
(* the journal as it is (SeenInv), and where it may be at a stage says     *)
(* what it has made sure of there (WorkInv); so the world holds at each    *)
(* stage what EffectInv spells out.                                        *)
(***************************************************************************)
EXTENDS FinalizerJournal, FiniteSetTheorems, TLAPS

\* A finalizer and its possible records.
Kinds == {"live", "readonly", "mutate"}
Places == Resting \cup {"read", "claim", "observe", "append", "send", "verify",
                        "look", "event", "readEvent", "merge", "report", "publish"}
Answers == {"yes", "no", "unknown"}
Finalizers == [kind : Kinds, pc : Places, seen : Journals, obs : Answers, cursor : Nat,
               takes : Attempts \cup {NoAttempt}]
Remotes == [head : {"base", "ours", "other"}, landed : BOOLEAN, closed : BOOLEAN, prs : 0 .. 1]
Requests == {"push.intent", "close.intent", "create.intent"}

\* Where a finalizer works: it is about to write, or to read back under its claim.
Mutating == {"append", "send", "verify", "look", "event", "readEvent", "merge"}
Works(r) == r.pc \in Mutating \/ (r.pc = "observe" /\ r.kind = "mutate")

\* The journal is at a stage of the chain of its mode, and somebody holds it.
RemoteStages == {"claimed", "push.intent", "push.receipt", "close.intent", "close.receipt",
                 "remote.complete", "local.complete"}
PrStages == {"claimed", "push.intent", "push.receipt", "create.intent", "create.receipt",
             "event.intent", "event.receipt", "event.complete"}
StagesOf(m) == IF m = "remote" THEN RemoteStages ELSE PrStages
StageInv ==
  \/ journal = NoJournal
  \/ journal.owner \in Attempts /\ journal.stage \in StagesOf(mode) /\ journal.len > 0

\* What a finalizer has read of the journal is out of date, or is the journal.
SeenInv ==
  \A p \in Attempts :
    /\ proc[p].seen.len <= journal.len
    /\ proc[p].seen.len = journal.len => proc[p].seen = journal

\* A finalizer claims a journal that nobody has, or the claim of an attempt
\* that has handed it over for good.
Claims(r) ==
  /\ r.obs = "unknown"
  /\ \/ r.kind = "live" /\ r.seen = NoJournal
     \/ r.kind = "mutate" /\ r.seen # NoJournal /\ r.seen.owner = r.takes
ClaimInv ==
  \A p \in Attempts :
    /\ proc[p].kind = "mutate" => proc[p].takes \in Attempts /\ HandedOver(proc[p].takes)
    /\ proc[p].pc \in {"off", "read"} => proc[p].seen = NoJournal /\ proc[p].obs = "unknown"
    /\ proc[p].pc = "claim" => Claims(proc[p])
    /\ p > active => proc[p] = Idle

\* Whoever works holds the claim and knows the journal as it is.
Holds(p, r) == journal.owner = p /\ r.seen = journal /\ r.kind # "readonly"
OwnerInv == \A p \in Attempts : Works(proc[p]) => Holds(p, proc[p])

\* Where a finalizer may be at a stage, and what it has made sure of there.
SureIn(r, s, world, requests, head, events) ==
  /\ s \notin {"none", "local.complete", "event.complete"}
  /\ r.pc \in {"send", "verify"} => s \in Requests
  /\ (r.pc = "send" /\ s = "create.intent") => (world.prs = 0 /\ s \notin requests)
  /\ r.pc = "look" => s \in {"close.intent", "create.intent", "event.intent"}
  /\ r.pc \in {"event", "readEvent"} => s = "event.intent"
  /\ r.pc = "event" => events = {}
  /\ r.pc = "readEvent" => events # {}
  /\ r.pc = "merge" => s = "remote.complete"
  /\ r.pc = "append" =>
       /\ s = "push.intent" => world.landed
       /\ s = "close.intent" => world.closed
       /\ s = "create.intent" => world.prs = 1
       /\ s = "event.intent" => events # {}
       /\ s = "remote.complete" => head # "base"
  /\ (r.kind = "mutate" /\ r.obs = "yes") => world.landed
Sure(r, s) == SureIn(r, s, remote, flying, source, Opened)
WorkInv == \A p \in Attempts : Works(proc[p]) => Sure(proc[p], journal.stage)

\* What the world holds at each stage, the stages spelled out.
Effects(s) ==
  /\ (remote.landed \/ "push.intent" \in flying) => s \notin {"none", "claimed"}
  /\ (remote.closed \/ "close.intent" \in flying) =>
       s \in {"close.intent", "close.receipt", "remote.complete", "local.complete"}
  /\ (remote.prs = 1 \/ "create.intent" \in flying) =>
       s \in {"create.intent", "create.receipt", "event.intent", "event.receipt", "event.complete"}
  /\ Opened # {} => s \in {"event.intent", "event.receipt", "event.complete"}
  /\ source = "ours" => s \in {"remote.complete", "local.complete"}
Receipts(s) ==
  /\ s \notin {"none", "claimed", "push.intent"} => remote.landed
  /\ s \in {"close.receipt", "remote.complete", "local.complete"} => remote.closed
  /\ s \in {"create.receipt", "event.intent", "event.receipt", "event.complete"} => remote.prs = 1
  /\ s \in {"event.receipt", "event.complete"} => Opened # {}
  /\ s = "local.complete" => source # "base"
Single ==
  /\ remote.head = "ours" => remote.landed
  /\ "create.intent" \in flying => remote.prs = 0
  /\ \A i, j \in Opened : i = j
EffectInv == Effects(journal.stage) /\ Receipts(journal.stage) /\ Single

IInv == /\ TypeOK /\ StageInv /\ SeenInv /\ ClaimInv /\ OwnerInv /\ WorkInv /\ EffectInv

-----------------------------------------------------------------------------
(* The chain of stages *)

\* The last stage of each chain, and the stage after each.
LEMMA RemoteChain ==
  ASSUME mode = "remote"
  PROVE  /\ Final = "local.complete"
         /\ Following("claimed") = "push.intent"
         /\ Following("push.intent") = "push.receipt"
         /\ Following("push.receipt") = "close.intent"
         /\ Following("close.intent") = "close.receipt"
         /\ Following("close.receipt") = "remote.complete"
         /\ Following("remote.complete") = "local.complete"
         /\ Chain = <<"claimed", "push.intent", "push.receipt", "close.intent",
                      "close.receipt", "remote.complete", "local.complete">>
         /\ Rank("claimed") = 1 /\ Rank("push.intent") = 2 /\ Rank("push.receipt") = 3
         /\ Rank("close.intent") = 4 /\ Rank("close.receipt") = 5
         /\ Rank("remote.complete") = 6 /\ Rank("local.complete") = 7
<1>1. Chain = <<"claimed", "push.intent", "push.receipt", "close.intent",
                "close.receipt", "remote.complete", "local.complete">>
  BY DEF Chain
<1>2. /\ Len(Chain) = 7
      /\ Chain[1] = "claimed" /\ Chain[2] = "push.intent" /\ Chain[3] = "push.receipt"
      /\ Chain[4] = "close.intent" /\ Chain[5] = "close.receipt"
      /\ Chain[6] = "remote.complete" /\ Chain[7] = "local.complete"
  BY <1>1
<1>3. /\ Rank("claimed") = 1 /\ Rank("push.intent") = 2 /\ Rank("push.receipt") = 3
      /\ Rank("close.intent") = 4 /\ Rank("close.receipt") = 5
      /\ Rank("remote.complete") = 6 /\ Rank("local.complete") = 7
  BY <1>2 DEF Rank
<1>4. QED  BY <1>1, <1>2, <1>3 DEF Final, Following

\* Without a remote push the chain of stages is that of a pull request.
LEMMA PrChain ==
  ASSUME mode # "remote"
  PROVE  /\ Final = "event.complete"
         /\ Following("claimed") = "push.intent"
         /\ Following("push.intent") = "push.receipt"
         /\ Following("push.receipt") = "create.intent"
         /\ Following("create.intent") = "create.receipt"
         /\ Following("create.receipt") = "event.intent"
         /\ Following("event.intent") = "event.receipt"
         /\ Following("event.receipt") = "event.complete"
         /\ Chain = <<"claimed", "push.intent", "push.receipt", "create.intent",
                      "create.receipt", "event.intent", "event.receipt", "event.complete">>
         /\ Rank("claimed") = 1 /\ Rank("push.intent") = 2 /\ Rank("push.receipt") = 3
         /\ Rank("create.intent") = 4 /\ Rank("create.receipt") = 5
         /\ Rank("event.intent") = 6 /\ Rank("event.receipt") = 7 /\ Rank("event.complete") = 8
<1>1. Chain = <<"claimed", "push.intent", "push.receipt", "create.intent",
                "create.receipt", "event.intent", "event.receipt", "event.complete">>
  BY DEF Chain
<1>2. /\ Len(Chain) = 8
      /\ Chain[1] = "claimed" /\ Chain[2] = "push.intent" /\ Chain[3] = "push.receipt"
      /\ Chain[4] = "create.intent" /\ Chain[5] = "create.receipt"
      /\ Chain[6] = "event.intent" /\ Chain[7] = "event.receipt" /\ Chain[8] = "event.complete"
  BY <1>1
<1>3. /\ Rank("claimed") = 1 /\ Rank("push.intent") = 2 /\ Rank("push.receipt") = 3
      /\ Rank("create.intent") = 4 /\ Rank("create.receipt") = 5
      /\ Rank("event.intent") = 6 /\ Rank("event.receipt") = 7 /\ Rank("event.complete") = 8
  BY <1>2 DEF Rank
<1>4. QED  BY <1>1, <1>2, <1>3 DEF Final, Following

\* What the world holds at a stage is what the properties say of every stage reached.
LEMMA Reaches ==
  ASSUME StageInv, mode \in {"remote", "pr"}
  PROVE  /\ Reached("push.intent") <=> journal.stage \notin {"none", "claimed"}
         /\ Reached("push.receipt") <=> journal.stage \notin {"none", "claimed", "push.intent"}
         /\ Reached("close.intent") <=> journal.stage \in
              {"close.intent", "close.receipt", "remote.complete", "local.complete"}
         /\ Reached("close.receipt") <=> journal.stage \in
              {"close.receipt", "remote.complete", "local.complete"}
         /\ Reached("remote.complete") <=> journal.stage \in {"remote.complete", "local.complete"}
         /\ Reached("local.complete") <=> journal.stage = "local.complete"
         /\ Reached("create.intent") <=> journal.stage \in
              {"create.intent", "create.receipt", "event.intent", "event.receipt", "event.complete"}
         /\ Reached("create.receipt") <=> journal.stage \in
              {"create.receipt", "event.intent", "event.receipt", "event.complete"}
         /\ Reached("event.intent") <=> journal.stage \in
              {"event.intent", "event.receipt", "event.complete"}
         /\ Reached("event.receipt") <=> journal.stage \in {"event.receipt", "event.complete"}
<1>1. CASE journal = NoJournal
  <2>1. journal.stage = "none" /\ Rank(journal.stage) = 0
    BY <1>1 DEF NoJournal, Rank
  <2>2. \A s : ~Reached(s)
    BY <2>1 DEF Reached
  <2>3. QED  BY <2>1, <2>2
<1>2. CASE journal.stage \in StagesOf(mode) /\ mode = "remote"
  <2>1. journal.stage \in RemoteStages
    BY <1>2 DEF StagesOf
  <2>2. QED  BY <1>2, <2>1, RemoteChain DEF RemoteStages, Reached
<1>3. CASE journal.stage \in StagesOf(mode) /\ mode = "pr"
  <2>1. journal.stage \in PrStages
    BY <1>3 DEF StagesOf
  <2>2. QED  BY <1>3, <2>1, PrChain DEF PrStages, Reached
<1>4. QED  BY <1>1, <1>2, <1>3 DEF StageInv

\* Receipts are true when effects come before them.
LEMMA ReceiptsFromEffects ==
  ASSUME TypeOK, StageInv, EffectInv
  PROVE  ReceiptsAreTrue /\ EffectsAreIntended
<1>1. mode \in {"remote", "pr"}
  BY DEF TypeOK
<1>2. ReceiptsAreTrue
  BY <1>1, Reaches DEF EffectInv, Receipts, ReceiptsAreTrue
<1>3. EffectsAreIntended
  BY <1>1, Reaches DEF EffectInv, Effects, EffectsAreIntended
<1>4. QED  BY <1>2, <1>3

\* No effect happens twice when its intent is in flight once.
LEMMA SingleFromEffects ==
  ASSUME TypeOK, EffectInv
  PROVE  NothingTwice
<1>1. remote.prs \in 0 .. 1 /\ ("create.intent" \in flying => remote.prs = 0)
  BY DEF TypeOK, EffectInv, Single
<1>2. Cardinality(flying \cap {"create.intent"}) = IF "create.intent" \in flying THEN 1 ELSE 0
  <2>1. CASE "create.intent" \in flying
    <3>1. flying \cap {"create.intent"} = {"create.intent"}
      BY <2>1
    <3>2. QED  BY <2>1, <3>1, FS_Singleton
  <2>2. CASE "create.intent" \notin flying
    <3>1. flying \cap {"create.intent"} = {}
      BY <2>2
    <3>2. QED  BY <2>2, <3>1, FS_EmptySet
  <2>3. QED  BY <2>1, <2>2
<1>3. Cardinality(Opened) <= 1
  <2>1. CASE Opened = {}
    BY <2>1, FS_EmptySet
  <2>2. CASE Opened # {}
    <3>1. PICK i \in Opened : Opened = {i}
      BY <2>2 DEF EffectInv, Single
    <3>2. Cardinality(Opened) = 1
      BY <3>1, FS_Singleton
    <3>3. QED  BY <3>2
  <2>3. QED  BY <2>1, <2>2
<1>4. QED  BY <1>1, <1>2, <1>3 DEF NothingTwice
-----------------------------------------------------------------------------
(* Where a finalizer goes *)

Control == StageInv /\ SeenInv /\ ClaimInv /\ OwnerInv

\* n is r at another place.
Moved(r, n) ==
  /\ n \in Finalizers /\ n.kind = r.kind /\ n.takes = r.takes /\ n.seen = r.seen
  /\ n.obs = r.obs /\ n.cursor = r.cursor
Quiet == {"report", "publish"}

\* A finalizer that goes on is the same one, elsewhere.
LEMMA MovedTo ==
  ASSUME NEW r \in Finalizers, NEW pc \in Places
  PROVE  Moved(r, To(r, pc)) /\ To(r, pc).pc = pc
BY DEF Moved, To, Finalizers

\* A finalizer that stops does not mutate any more.
LEMMA StopQuiet ==
  ASSUME NEW r \in Finalizers
  PROVE  Moved(r, Stop(r)) /\ Stop(r).pc \in Quiet
<1>1. "report" \in Places /\ "publish" \in Places
  BY DEF Places
<1>2. QED  BY <1>1, MovedTo DEF Stop, Quiet

\* A finalizer under its lease goes on, or stops quietly.
LEMMA LeasedMoves ==
  ASSUME NEW p, NEW r \in Finalizers, NEW pc \in Places
  PROVE  Moved(r, Leased(p, r, pc)) /\ Leased(p, r, pc).pc \in Quiet \cup {pc}
BY MovedTo, StopQuiet DEF Leased

\* Whoever is quiet neither works nor claims.
LEMMA QuietRests ==
  ASSUME NEW r, r.pc \in Quiet
  PROVE  ~Works(r) /\ r.pc \notin {"off", "read", "claim"}
BY DEF Works, Quiet, Mutating

\* What a finalizer must have made sure of to go on from a stage.
Ready(r, s, takeover) ==
  /\ (r.kind = "mutate" /\ r.obs = "yes") => remote.landed
  /\ (s = "create.intent" /\ ~takeover) => (remote.prs = 0 /\ s \notin flying)
  /\ (s = "event.intent" /\ r.kind = "live") => Opened = {}

\* A finalizer that proceeds is sure of its stage.
LEMMA ProceedIsSure ==
  ASSUME NEW p, NEW r \in Finalizers, NEW takeover,
         mode \in {"remote", "pr"}, r.kind # "readonly",
         r.seen.stage \in StagesOf(mode), Ready(r, r.seen.stage, takeover)
  PROVE  LET n == Proceed(p, r, takeover) IN
         /\ Moved(r, n) /\ n.pc \in Quiet \cup {"append", "send", "look", "event", "merge"}
         /\ Works(n) => Sure(n, r.seen.stage)
<1> DEFINE s == r.seen.stage
           n == Proceed(p, r, takeover)
<1> HIDE DEF s, n
<1>1. r.kind \in {"live", "mutate"} /\ r.obs \in Answers
  BY DEF Finalizers, Kinds
<1>2. {"append", "send", "look", "event", "merge"} \subseteq Places
  BY DEF Places
<1>3. \A pc \in {"append", "send", "look", "event", "merge"} :
        /\ Moved(r, Leased(p, r, pc)) /\ Leased(p, r, pc).pc \in Quiet \cup {pc}
        /\ Moved(r, To(r, pc)) /\ To(r, pc).pc = pc
  BY <1>2, LeasedMoves, MovedTo
<1>4. Moved(r, Stop(r)) /\ Stop(r).pc \in Quiet
  BY StopQuiet
<1>5. s \in StagesOf(mode) /\ Ready(r, s, takeover)
  BY DEF s
<1>6. Final \in {"local.complete", "event.complete"}
  BY RemoteChain, PrChain
<1>7. CASE s = Final
  <2>1. n = Stop(r)
    BY <1>6, <1>7 DEF n, s, Proceed
  <2>2. Moved(r, n) /\ n.pc \in Quiet
    BY <1>4, <2>1
  <2>3. ~Works(n)
    BY <2>2, QuietRests
  <2>4. QED  BY <2>2, <2>3 DEF n, s
<1>8. CASE s # Final /\ s = "push.intent"
  <2>1. n = AtPushIntent(p, r)
    BY <1>8 DEF n, s, Proceed
  <2>2. CASE r.kind = "live" \/ r.obs = "no"
    <3>1. n = Leased(p, r, "send")
      BY <2>1, <2>2 DEF AtPushIntent
    <3>2. Moved(r, n) /\ n.pc \in Quiet \cup {"send"}
      BY <1>3, <3>1
    <3>3. Works(n) => (n.pc = "send" /\ Sure(n, s))
      BY <3>2, <1>5, <1>8, QuietRests DEF Sure, SureIn, Ready, Moved, Requests
    <3>4. QED  BY <3>2, <3>3 DEF n, s
  <2>3. CASE r.kind # "live" /\ r.obs = "yes"
    <3>1. n = Leased(p, r, "append")
      BY <2>1, <2>3 DEF AtPushIntent
    <3>2. Moved(r, n) /\ n.pc \in Quiet \cup {"append"}
      BY <1>3, <3>1
    <3>3. Works(n) => (n.pc = "append" /\ Sure(n, s))
      BY <3>2, <1>1, <1>5, <1>8, <2>3, QuietRests DEF Sure, SureIn, Ready, Moved
    <3>4. QED  BY <3>2, <3>3 DEF n, s
  <2>4. CASE r.kind # "live" /\ r.obs \notin {"yes", "no"}
    <3>1. n = Stop(r)
      BY <2>1, <2>4 DEF AtPushIntent
    <3>2. QED  BY <1>4, <3>1, QuietRests DEF n, s
  <2>5. QED  BY <2>2, <2>3, <2>4
<1>9. CASE s # Final /\ s = "push.receipt"
  <2>1. n = AtPushReceipt(p, r)
    BY <1>9 DEF n, s, Proceed
  <2>2. n = Stop(r) \/ n = Leased(p, r, "append")
    BY <2>1 DEF AtPushReceipt
  <2>3. Moved(r, n) /\ n.pc \in Quiet \cup {"append"}
    BY <1>3, <1>4, <2>2
  <2>4. Works(n) => (n.pc = "append" /\ Sure(n, s))
    BY <2>3, <1>5, <1>9, QuietRests DEF Sure, SureIn, Ready, Moved
  <2>5. QED  BY <2>3, <2>4 DEF n, s
<1>10. CASE s # Final /\ s = "close.intent"
  <2>1. n = Leased(p, r, "send") \/ n = To(r, "look")
    BY <1>10 DEF n, s, Proceed
  <2>2. Moved(r, n) /\ n.pc \in Quiet \cup {"send", "look"}
    BY <1>3, <2>1
  <2>3. Works(n) => Sure(n, s)
    BY <2>2, <1>5, <1>10, QuietRests DEF Sure, SureIn, Ready, Moved, Requests
  <2>4. QED  BY <2>2, <2>3 DEF n, s
<1>11. CASE s # Final /\ s = "create.intent"
  <2>1. n = IF takeover THEN To(r, "look") ELSE Leased(p, r, "send")
    BY <1>11 DEF n, s, Proceed
  <2>2. Moved(r, n) /\ n.pc \in Quiet \cup (IF takeover THEN {"look"} ELSE {"send"})
    BY <1>3, <2>1
  <2>3. Works(n) => Sure(n, s)
    BY <2>2, <1>5, <1>11, QuietRests DEF Sure, SureIn, Ready, Moved, Requests
  <2>4. QED  BY <2>2, <2>3 DEF n, s
<1>12. CASE s # Final /\ s = "event.intent"
  <2>1. n = IF r.kind = "live" THEN Leased(p, r, "event") ELSE To(r, "look")
    BY <1>12 DEF n, s, Proceed
  <2>2. Moved(r, n) /\ n.pc \in Quiet \cup (IF r.kind = "live" THEN {"event"} ELSE {"look"})
    BY <1>3, <2>1
  <2>3. Works(n) => Sure(n, s)
    BY <2>2, <1>5, <1>12, QuietRests DEF Sure, SureIn, Ready, Moved
  <2>4. QED  BY <2>2, <2>3 DEF n, s
<1>13. CASE s # Final /\ s = "remote.complete"
  <2>1. n = Leased(p, r, "merge")
    BY <1>13 DEF n, s, Proceed
  <2>2. Moved(r, n) /\ n.pc \in Quiet \cup {"merge"}
    BY <1>3, <2>1
  <2>3. Works(n) => Sure(n, s)
    BY <2>2, <1>5, <1>13, QuietRests DEF Sure, SureIn, Ready, Moved
  <2>4. QED  BY <2>2, <2>3 DEF n, s
<1>14. CASE s \in {"claimed", "close.receipt", "create.receipt", "event.receipt"}
  <2>1. Final \in {"local.complete", "event.complete"}
    BY RemoteChain, PrChain
  <2>2. n = Leased(p, r, "append")
    BY <1>14, <2>1 DEF n, s, Proceed
  <2>3. Moved(r, n) /\ n.pc \in Quiet \cup {"append"}
    BY <1>3, <2>2
  <2>4. Works(n) => Sure(n, s)
    BY <2>3, <1>5, <1>14, QuietRests DEF Sure, SureIn, Ready, Moved
  <2>5. QED  BY <2>3, <2>4 DEF n, s
<1>15. \/ s \in {"claimed", "close.receipt", "create.receipt", "event.receipt"}
       \/ s \in {"push.intent", "push.receipt", "close.intent", "create.intent", "event.intent",
                 "remote.complete"}
       \/ s = Final
  <2>1. CASE mode = "remote"
    BY <1>5, <2>1, RemoteChain DEF StagesOf, RemoteStages
  <2>2. CASE mode # "remote"
    BY <1>5, <2>2, PrChain DEF StagesOf, PrStages
  <2>3. QED  BY <2>1, <2>2
<1>16. QED  BY <1>7, <1>8, <1>9, <1>10, <1>11, <1>12, <1>13, <1>14, <1>15
-----------------------------------------------------------------------------
(* One attempt moves *)

\* The attempt p, which had not come to rest, becomes n.
Moves(p, n) ==
  /\ proc[p].pc \notin Resting /\ n \in Finalizers /\ n.pc \notin {"off", "read"}
  /\ n.kind = proc[p].kind /\ n.takes = proc[p].takes
  /\ proc' = [proc EXCEPT ![p] = n]

\* A step of one finalizer leaves the others alone.
LEMMA ProcMoves ==
  ASSUME TypeOK, NEW p \in Attempts, NEW n, Moves(p, n)
  PROVE  /\ proc' \in [Attempts -> Finalizers] /\ proc'[p] = n
         /\ \A q \in Attempts : q # p => proc'[q] = proc[q]
         /\ \A q \in Attempts : HandedOver(q) => proc'[q] = proc[q]
<1>1. proc \in [Attempts -> Finalizers]
  BY DEF TypeOK, Finalizers, Kinds, Places, Answers
<1>2. \A q \in Attempts : HandedOver(q) => q # p
  BY DEF HandedOver, Moves, Resting
<1>3. QED  BY <1>1, <1>2 DEF Moves

\* Claims change with the active attempt only.
LEMMA ClaimsKept ==
  ASSUME TypeOK, ClaimInv, NEW p \in Attempts, NEW n, Moves(p, n), active' = active,
         n.pc = "claim" => Claims(n)
  PROVE  ClaimInv'
<1>1. /\ proc'[p] = n
      /\ \A q \in Attempts : q # p => proc'[q] = proc[q]
      /\ \A q \in Attempts : HandedOver(q) => proc'[q] = proc[q]
  BY ProcMoves
<1>2. SUFFICES ASSUME NEW q \in Attempts
               PROVE  /\ proc'[q].kind = "mutate" =>
                           (proc'[q].takes \in Attempts /\ proc'[proc'[q].takes].pc \in {"ended", "dead"})
                      /\ proc'[q].pc \in {"off", "read"} =>
                           (proc'[q].seen = NoJournal /\ proc'[q].obs = "unknown")
                      /\ proc'[q].pc = "claim" => Claims(proc'[q])
                      /\ q > active' => proc'[q] = Idle
  BY DEF ClaimInv, Claims, HandedOver
<1>3. proc'[q].kind = proc[q].kind /\ proc'[q].takes = proc[q].takes
  BY <1>1 DEF Moves
<1>4. \A t \in Attempts : HandedOver(t) => proc'[t].pc \in {"ended", "dead"}
  BY <1>1 DEF HandedOver
<1>5. proc'[q].kind = "mutate" =>
        (proc'[q].takes \in Attempts /\ proc'[proc'[q].takes].pc \in {"ended", "dead"})
  BY <1>3, <1>4 DEF ClaimInv
<1>6. proc'[q].pc \in {"off", "read"} => (proc'[q].seen = NoJournal /\ proc'[q].obs = "unknown")
  BY <1>1 DEF ClaimInv, Moves
<1>7. proc'[q].pc = "claim" => Claims(proc'[q])
  BY <1>1 DEF ClaimInv
<1>8. proc[p].pc # "off"
  BY DEF Moves, Resting
<1>9. q > active' => proc'[q] = Idle
  BY <1>1, <1>8 DEF ClaimInv, Idle
<1>10. QED  BY <1>5, <1>6, <1>7, <1>9

\* An attempt moves while the journal stays as it is.
LEMMA ControlWhenStill ==
  ASSUME TypeOK, Control, NEW p \in Attempts, NEW n, Moves(p, n),
         UNCHANGED <<mode, journal, active>>,
         n.seen = proc[p].seen \/ n.seen = journal,
         n.pc = "claim" => Claims(n),
         Works(n) => Holds(p, n)
  PROVE  Control'
<1>1. /\ proc' \in [Attempts -> Finalizers] /\ proc'[p] = n
      /\ \A q \in Attempts : q # p => proc'[q] = proc[q]
      /\ \A q \in Attempts : HandedOver(q) => proc'[q] = proc[q]
  BY ProcMoves
<1>2. StageInv'
  BY DEF Control, StageInv
<1>3. SeenInv'
  <2>1. journal.len \in Nat
    BY DEF TypeOK, Journals
  <2>2. QED  BY <1>1, <2>1 DEF Control, SeenInv
<1>4. ClaimInv'
  BY ClaimsKept DEF Control
<1>5. OwnerInv'
  <2>1. \A q \in Attempts : Works(proc'[q]) => Holds(q, proc'[q])
    BY <1>1 DEF Control, OwnerInv
  <2>2. QED  BY <2>1 DEF OwnerInv, Works, Holds
<1>6. QED  BY <1>2, <1>3, <1>4, <1>5 DEF Control

\* An attempt writes the journal; nobody else works.
LEMMA ControlWhenWritten ==
  ASSUME TypeOK, Control, NEW p \in Attempts, NEW n, Moves(p, n),
         mode' = mode, active' = active, journal' \in Journals,
         journal'.len = journal.len + 1, journal'.owner = p,
         journal'.stage \in StagesOf(mode),
         n.seen = proc[p].seen \/ n.seen = journal',
         n.pc # "claim",
         Works(n) => (n.seen = journal' /\ n.kind # "readonly"),
         \A q \in Attempts : q # p => ~Works(proc[q])
  PROVE  Control'
<1>1. /\ proc' \in [Attempts -> Finalizers] /\ proc'[p] = n
      /\ \A q \in Attempts : q # p => proc'[q] = proc[q]
      /\ \A q \in Attempts : HandedOver(q) => proc'[q] = proc[q]
  BY ProcMoves
<1>2. journal.len \in Nat /\ \A q \in Attempts : proc[q].seen.len \in Nat
  BY DEF TypeOK, Journals
<1>3. StageInv'
  BY <1>2 DEF StageInv, StagesOf
<1>4. SeenInv'
  BY <1>1, <1>2 DEF Control, SeenInv
<1>5. ClaimInv'
  BY ClaimsKept DEF Control
<1>6. OwnerInv'
  <2>1. \A q \in Attempts : Works(proc'[q]) =>
          (journal'.owner = q /\ proc'[q].seen = journal' /\ proc'[q].kind # "readonly")
    BY <1>1
  <2>2. QED  BY <2>1 DEF OwnerInv, Works, Holds
<1>7. QED  BY <1>3, <1>4, <1>5, <1>6 DEF Control

\* While one attempt works, or claims a journal it knows as it is, no other works.
LEMMA Alone ==
  ASSUME Control, TypeOK, NEW p \in Attempts, NEW q \in Attempts, q # p,
         \/ Works(proc[p])
         \/ proc[p].pc = "claim" /\ proc[p].seen.len = journal.len
  PROVE  ~Works(proc[q])
<1>1. CASE Works(proc[p])
  BY <1>1 DEF Control, OwnerInv, Holds
<1>2. CASE proc[p].pc = "claim" /\ proc[p].seen.len = journal.len
  <2>1. proc[p].seen = journal /\ Claims(proc[p])
    BY <1>2 DEF Control, SeenInv, ClaimInv
  <2>2. CASE journal = NoJournal
    <3>1. journal.owner \notin Attempts
      BY <2>2 DEF NoJournal, NoAttempt, Attempts
    <3>2. QED  BY <3>1 DEF Control, OwnerInv, Holds
  <2>3. CASE proc[p].kind = "mutate" /\ journal.owner = proc[p].takes
    <3>1. HandedOver(journal.owner)
      BY <2>3 DEF Control, ClaimInv
    <3>2. proc[journal.owner].pc \in {"ended", "dead"}
      BY <3>1 DEF HandedOver
    <3>3. ~Works(proc[journal.owner])
      BY <3>2 DEF Works, Mutating
    <3>4. QED  BY <3>3 DEF Control, OwnerInv, Holds
  <2>4. QED  BY <2>1, <2>2, <2>3 DEF Claims
<1>3. QED  BY <1>1, <1>2
-----------------------------------------------------------------------------
(* What changes with a move *)

\* The pr_opened events of the stream, by their cursor.
LEMMA OpenedIn ==
  ASSUME TypeOK, NEW i
  PROVE  i \in Opened <=> (i \in Nat /\ i >= 1 /\ i <= Len(stream) /\ stream[i] = "pr_opened")
<1>1. Len(stream) \in Nat
  BY DEF TypeOK
<1>2. QED  BY <1>1 DEF Opened

\* The result of a finalizer is not a pr_opened event.
LEMMA ReportOpensNothing ==
  ASSUME TypeOK, \/ stream' = stream
                 \/ stream' = Append(stream, "finalizer_result")
  PROVE  Opened' = Opened /\ stream' \in Seq({"pr_opened", "finalizer_result"})
<1>1. stream \in Seq({"pr_opened", "finalizer_result"})
  BY DEF TypeOK
<1>2. CASE stream' = stream
  BY <1>1, <1>2 DEF Opened
<1>3. CASE stream' = Append(stream, "finalizer_result")
  <2>1. /\ Len(stream') = Len(stream) + 1 /\ stream'[Len(stream) + 1] = "finalizer_result"
        /\ \A i \in 1 .. Len(stream) : stream'[i] = stream[i]
        /\ Len(stream) \in Nat
    BY <1>1, <1>3
  <2>2. \A i : i \in Opened' <=> i \in Opened
    BY <2>1 DEF Opened
  <2>3. Opened' = Opened
    BY <2>2 DEF Opened
  <2>4. QED  BY <1>1, <1>3, <2>3
<1>4. QED  BY <1>2, <1>3

\* Appending pr_opened to a stream without one opens exactly one.
LEMMA EventOpensOne ==
  ASSUME TypeOK, Opened = {}, stream' = Append(stream, "pr_opened")
  PROVE  Opened' = {Len(stream) + 1} /\ stream' \in Seq({"pr_opened", "finalizer_result"})
<1>1. stream \in Seq({"pr_opened", "finalizer_result"})
  BY DEF TypeOK
<1>2. /\ Len(stream') = Len(stream) + 1 /\ stream'[Len(stream) + 1] = "pr_opened"
      /\ \A i \in 1 .. Len(stream) : stream'[i] = stream[i]
      /\ Len(stream) \in Nat
  BY <1>1
<1>3. \A i : i \in Opened' <=> i = Len(stream) + 1
  BY <1>2 DEF Opened
<1>4. QED  BY <1>1, <1>3

\* A typed finalizer that moves keeps the types.
LEMMA TypeWhenMoved ==
  ASSUME TypeOK, NEW p \in Attempts, NEW n, Moves(p, n),
         mode' = mode, active' = active, journal' \in Journals,
         stream' \in Seq({"pr_opened", "finalizer_result"}), remote' \in Remotes,
         flying' \subseteq Requests, source' \in {"base", "ours", "other"}
  PROVE  TypeOK'
<1>1. proc' \in [Attempts -> Finalizers]
  BY ProcMoves
<1>2. proc' \in [Attempts ->
       [kind : {"live", "readonly", "mutate"},
        pc : Resting \cup {"read", "claim", "observe", "append", "send", "verify",
                           "look", "event", "readEvent", "merge", "report", "publish"},
        seen : Journals, obs : {"yes", "no", "unknown"}, cursor : Nat,
        takes : Attempts \cup {NoAttempt}]]
  BY <1>1 DEF Finalizers, Kinds, Places, Answers
<1>3. mode' \in {"remote", "pr"} /\ active' \in Attempts \cup {NoAttempt}
  BY DEF TypeOK
<1>4. QED  BY <1>2, <1>3 DEF TypeOK, Remotes, Requests, Journals, Resting

\* A move that leaves the world as it is keeps what the others have made sure of.
LEMMA WorkWhenSame ==
  ASSUME TypeOK, WorkInv, NEW p \in Attempts, NEW n, Moves(p, n), journal' = journal,
         remote' = remote, flying' = flying, source' = source, Opened' = Opened,
         Works(n) => Sure(n, journal.stage)
  PROVE  WorkInv'
<1>1. /\ proc'[p] = n /\ \A q \in Attempts : q # p => proc'[q] = proc[q]
  BY ProcMoves
<1>2. \A q \in Attempts : Works(proc'[q]) => Sure(proc'[q], journal.stage)
  BY <1>1 DEF WorkInv
<1>3. QED  BY <1>2 DEF WorkInv, Sure, SureIn, Works

\* Nobody else works when the holder of the claim changes the world.
LEMMA WorkWhenAlone ==
  ASSUME TypeOK, NEW p \in Attempts, NEW n, Moves(p, n), journal' = journal,
         \A q \in Attempts : q # p => ~Works(proc[q]),
         Works(n) => SureIn(n, journal.stage, remote', flying', source', Opened')
  PROVE  WorkInv'
<1>1. /\ proc'[p] = n /\ \A q \in Attempts : q # p => proc'[q] = proc[q]
  BY ProcMoves
<1>2. SUFFICES ASSUME NEW q \in Attempts, Works(proc'[q])
               PROVE  Sure(proc[q], journal.stage)'
  BY DEF WorkInv, Works
<1>3. q = p
  BY <1>1, <1>2
<1>4. QED  BY <1>1, <1>2, <1>3 DEF Sure, SureIn

\* A step that changes one finalizer, or what the events do not say.
LEMMA StillStep ==
  ASSUME IInv, NEW p \in Attempts, NEW n, Moves(p, n),
         UNCHANGED <<mode, journal, remote, flying, source, active>>,
         stream' = stream \/ stream' = Append(stream, "finalizer_result"),
         n.seen = proc[p].seen \/ n.seen = journal,
         n.pc = "claim" => Claims(n),
         Works(n) => (Holds(p, n) /\ Sure(n, journal.stage))
  PROVE  IInv'
<1>1. Opened' = Opened /\ stream' \in Seq({"pr_opened", "finalizer_result"})
  BY ReportOpensNothing DEF IInv
<1>2. TypeOK'
  BY <1>1, TypeWhenMoved DEF IInv, TypeOK, Remotes, Requests
<1>3. Control'
  BY ControlWhenStill DEF IInv, Control
<1>4. WorkInv'
  BY <1>1, WorkWhenSame DEF IInv
<1>5. EffectInv'
  BY <1>1 DEF IInv, EffectInv, Effects, Receipts, Single
<1>6. QED  BY <1>2, <1>3, <1>4, <1>5 DEF IInv, Control

\* A finalizer that stops keeps the invariant.
LEMMA StopStep ==
  ASSUME IInv, NEW p \in Attempts, NEW r \in Finalizers, proc[p].pc \notin Resting,
         r.kind = proc[p].kind, r.takes = proc[p].takes,
         r.seen = proc[p].seen \/ r.seen = journal,
         Become(p, Stop(r)),
         UNCHANGED <<mode, journal, stream, remote, flying, source, active>>
  PROVE  IInv'
<1> DEFINE n == Stop(r)
<1>1. Moved(r, n) /\ n.pc \in Quiet
  BY StopQuiet
<1>2. ~Works(n) /\ n.pc \notin {"off", "read", "claim"}
  BY <1>1, QuietRests
<1>3. Moves(p, n)
  BY <1>1, <1>2 DEF Moves, Moved, Become
<1>4. n.seen = proc[p].seen \/ n.seen = journal
  BY <1>1 DEF Moved
<1> HIDE DEF n
<1>5. QED  BY <1>2, <1>3, <1>4, StillStep

\* What a readback says is so.
LEMMA ReadbackIsTrue ==
  ASSUME TypeOK, Single, NEW s, NEW v \in Readback(s)
  PROVE  /\ v \in Answers
         /\ (v = "yes" /\ s = "close.intent") => remote.closed
         /\ (v = "yes" /\ s = "create.intent") => remote.prs = 1
         /\ (v = "yes" /\ s = "event.intent") => Opened # {}
         /\ (v = "yes" /\ s \notin {"close.intent", "create.intent", "event.intent"}) => remote.landed
         /\ (v = "no" /\ s = "event.intent") => Opened = {}
<1>1. CASE s = "close.intent"
  BY <1>1 DEF Readback, Answers
<1>2. CASE s = "create.intent"
  BY <1>2 DEF Readback, Answers
<1>3. CASE s = "event.intent"
  BY <1>3 DEF Readback, Answers
<1>4. CASE s \notin {"close.intent", "create.intent", "event.intent"}
  BY <1>4 DEF Readback, Answers, Single
<1>5. QED  BY <1>1, <1>2, <1>3, <1>4

\* Whoever holds the claim is at a stage of the chain.
LEMMA HolderAtStage ==
  ASSUME TypeOK, StageInv, journal.owner \in Attempts
  PROVE  journal.stage \in StagesOf(mode) /\ journal.len > 0 /\ journal # NoJournal
BY DEF StageInv, NoJournal, NoAttempt, Attempts
-----------------------------------------------------------------------------
(* The steps of an attempt *)

\* What is typed about one finalizer.
LEMMA Typed ==
  ASSUME TypeOK, NEW p \in Attempts
  PROVE  /\ proc[p] \in Finalizers /\ journal \in Journals /\ mode \in {"remote", "pr"}
         /\ \A j \in Journals : [proc[p] EXCEPT !.seen = j] \in Finalizers
         /\ \A v \in Answers : [proc[p] EXCEPT !.obs = v] \in Finalizers
         /\ \A c \in Nat : [proc[p] EXCEPT !.cursor = c] \in Finalizers
<1>1. proc[p] \in Finalizers /\ journal \in Journals /\ mode \in {"remote", "pr"}
  BY DEF TypeOK, Finalizers, Kinds, Places, Answers
<1>2. QED  BY <1>1 DEF Finalizers

\* Reading the journal keeps the invariant.
LEMMA ReadStep ==
  ASSUME IInv, NEW p \in Attempts, Read(p)
  PROVE  IInv'
<1> DEFINE r == proc[p]
           n == [r EXCEPT !.seen = journal]
           legible == journal # NoJournal /\ Readable(journal)
<1>1. /\ r \in Finalizers /\ n \in Finalizers
      /\ n.kind = r.kind /\ n.takes = r.takes /\ n.seen = journal /\ n.pc = r.pc /\ n.obs = r.obs
  BY Typed DEF IInv, Finalizers
<1>2. r.pc = "read" /\ r.pc \notin Resting /\ r.seen = NoJournal /\ r.obs = "unknown"
  BY DEF IInv, ClaimInv, Read, At, Resting
<1>3. UNCHANGED <<mode, journal, stream, remote, flying, source, active>>
  BY DEF Read
<1>4. ASSUME NEW m \in {r, n}, Become(p, Stop(m))
      PROVE  IInv'
  BY <1>1, <1>2, <1>3, <1>4, StopStep
<1>5. ASSUME NEW m \in {r, n}, NEW pc \in {"claim", "observe"}, Become(p, To(m, pc)),
             pc = "claim" => Claims(m), pc = "observe" => m.kind # "mutate"
      PROVE  IInv'
  <2> DEFINE k == To(m, pc)
  <2>1. pc \in Places
    BY DEF Places
  <2>2. Moved(m, k) /\ k.pc = pc
    BY <1>1, <2>1, MovedTo
  <2> HIDE DEF k
  <2>3. ~Works(k)
    BY <1>5, <2>2 DEF Works, Mutating, Moved
  <2>4. k.pc = "claim" => Claims(k)
    BY <1>5, <2>2 DEF Claims, Moved
  <2>5. Moves(p, k)
    BY <1>1, <1>2, <1>5, <2>2 DEF Moves, Moved, Become, k
  <2>6. k.seen = r.seen \/ k.seen = journal
    BY <1>1, <2>2 DEF Moved
  <2>7. QED  BY <1>3, <2>3, <2>4, <2>5, <2>6, StillStep
<1>6. ASSUME NEW m \in {r, n}, Become(p, Leased(p, m, "claim")), Claims(m)
      PROVE  IInv'
  BY <1>4, <1>5, <1>6 DEF Leased
<1>7. \/ r.kind = "live" /\ journal = NoJournal /\ Become(p, Leased(p, r, "claim"))
      \/ r.kind = "live" /\ journal # NoJournal /\ Become(p, Stop(r))
      \/ r.kind # "live" /\ ~legible /\ Become(p, Stop(r))
      \/ r.kind = "mutate" /\ legible /\ journal.owner = r.takes /\ Become(p, Leased(p, n, "claim"))
      \/ r.kind = "mutate" /\ legible /\ journal.owner # r.takes /\ Become(p, Stop(n))
      \/ r.kind \notin {"live", "mutate"} /\ legible /\ Become(p, Stop(n))
      \/ r.kind \notin {"live", "mutate"} /\ legible /\ Become(p, To(n, "observe"))
  BY DEF Read
<1>8. CASE r.kind = "live" /\ journal = NoJournal /\ Become(p, Leased(p, r, "claim"))
  BY <1>2, <1>6, <1>8 DEF Claims
<1>9. CASE \/ r.kind = "live" /\ journal # NoJournal /\ Become(p, Stop(r))
           \/ r.kind # "live" /\ ~legible /\ Become(p, Stop(r))
           \/ r.kind = "mutate" /\ legible /\ journal.owner # r.takes /\ Become(p, Stop(n))
           \/ r.kind \notin {"live", "mutate"} /\ legible /\ Become(p, Stop(n))
  BY <1>4, <1>9
<1>10. CASE r.kind = "mutate" /\ legible /\ journal.owner = r.takes /\ Become(p, Leased(p, n, "claim"))
  <2>1. Claims(n)
    BY <1>1, <1>2, <1>10 DEF Claims
  <2>2. QED  BY <1>6, <1>10, <2>1
<1>11. CASE r.kind \notin {"live", "mutate"} /\ legible /\ Become(p, To(n, "observe"))
  BY <1>1, <1>5, <1>11
<1>12. QED  BY <1>7, <1>8, <1>9, <1>10, <1>11

\* A worker's place, journal and what it has made sure of.
LEMMA AtWork ==
  ASSUME IInv, NEW p \in Attempts, Works(proc[p])
  PROVE  /\ proc[p] \in Finalizers /\ proc[p].pc \notin Resting
         /\ Holds(p, proc[p]) /\ Sure(proc[p], journal.stage)
         /\ proc[p].seen = journal /\ journal.stage \in StagesOf(mode) /\ journal # NoJournal
         /\ \A q \in Attempts : q # p => ~Works(proc[q])
<1>1. proc[p] \in Finalizers /\ Holds(p, proc[p]) /\ Sure(proc[p], journal.stage)
  BY Typed DEF IInv, OwnerInv, WorkInv
<1>2. proc[p].pc \notin Resting
  BY DEF Works, Mutating, Resting
<1>3. \A q \in Attempts : q # p => ~Works(proc[q])
  BY Alone DEF IInv, Control
<1>4. journal.owner \in Attempts
  BY <1>1 DEF Holds
<1>5. QED  BY <1>1, <1>2, <1>3, <1>4, HolderAtStage DEF Holds, IInv

\* A worker goes on under its lease, the world unchanged.
LEMMA WorkOn ==
  ASSUME IInv, NEW p \in Attempts, Works(proc[p]), NEW r \in Finalizers, NEW pc \in Mutating,
         r.kind = proc[p].kind, r.takes = proc[p].takes, r.seen = proc[p].seen,
         Become(p, Leased(p, r, pc)) \/ Become(p, To(r, pc)),
         UNCHANGED <<mode, journal, stream, remote, flying, source, active>>,
         Sure(To(r, pc), journal.stage)
  PROVE  IInv'
<1>1. Holds(p, proc[p]) /\ proc[p].pc \notin Resting
  BY AtWork
<1>2. CASE Become(p, Stop(r))
  BY <1>1, <1>2, StopStep
<1>3. CASE Become(p, To(r, pc))
  <2> DEFINE k == To(r, pc)
  <2>1. pc \in Places
    BY DEF Places, Mutating
  <2>2. Moved(r, k) /\ k.pc = pc
    BY <2>1, MovedTo
  <2> HIDE DEF k
  <2>3. Moves(p, k)
    BY <1>1, <1>3, <2>2 DEF Moves, Moved, Become, k, Mutating
  <2>4. Holds(p, k) /\ k.seen = proc[p].seen
    BY <1>1, <2>2 DEF Holds, Moved
  <2>5. Sure(k, journal.stage) /\ k.pc # "claim"
    BY <2>2 DEF k, Mutating
  <2>6. QED  BY <2>3, <2>4, <2>5, StillStep
<1>4. QED  BY <1>2, <1>3 DEF Leased

\* The first readback of a recovery keeps the invariant.
LEMMA ObserveStep ==
  ASSUME IInv, NEW p \in Attempts, Observe(p)
  PROVE  IInv'
<1>1. PICK v \in Readback(Asked(proc[p])) :
        LET n == [proc[p] EXCEPT !.obs = v] IN
        Become(p, IF n.kind = "mutate" THEN Proceed(p, n, TRUE) ELSE Stop(n))
  BY DEF Observe
<1> DEFINE r == proc[p]
           n == [r EXCEPT !.obs = v]
           takeover == TRUE
           k == Proceed(p, n, takeover)
<1>2. r.pc = "observe" /\ r.pc \notin Resting
  BY DEF Observe, At, Resting
<1>3. v \in Answers
  BY ReadbackIsTrue DEF IInv, EffectInv
<1>4. /\ n \in Finalizers
      /\ n.kind = r.kind /\ n.takes = r.takes /\ n.seen = r.seen /\ n.obs = v
  BY <1>3, Typed DEF IInv, Finalizers
<1>5. UNCHANGED <<mode, journal, stream, remote, flying, source, active>>
  BY DEF Observe
<1>6. CASE r.kind # "mutate"
  <2>1. Become(p, Stop(n))
    BY <1>1, <1>4, <1>6
  <2>2. QED  BY <1>2, <1>4, <1>5, <2>1, StopStep
<1>7. CASE r.kind = "mutate"
  <2>1. Works(r)
    BY <1>2, <1>7 DEF Works
  <2>2. /\ Holds(p, r) /\ Sure(r, journal.stage)
        /\ r.seen = journal /\ journal.stage \in StagesOf(mode)
    BY <2>1, AtWork
  <2>3. v = "yes" => remote.landed
    <3>1. Asked(r) = "push.intent"
      BY <1>7 DEF Asked
    <3>2. TypeOK /\ Single
      BY DEF IInv, EffectInv
    <3>3. QED  BY <1>1, <3>1, <3>2, ReadbackIsTrue
  <2>4. Ready(n, n.seen.stage, takeover)
    BY <1>4, <1>7, <2>3 DEF Ready
  <2>5. /\ Moved(n, k) /\ k.pc \in Quiet \cup {"append", "send", "look", "event", "merge"}
        /\ Works(k) => Sure(k, n.seen.stage)
    <3>1. mode \in {"remote", "pr"} /\ TypeOK
      BY Typed DEF IInv
    <3>2. n.kind # "readonly" /\ n.seen.stage \in StagesOf(mode)
      BY <1>4, <1>7, <2>2
    <3> HIDE DEF n, takeover
    <3>3. QED  BY <1>4, <2>4, <3>1, <3>2, ProceedIsSure
  <2>6. Become(p, k)
    BY <1>1, <1>4, <1>7
  <2> HIDE DEF k
  <2>7. k.pc \notin {"off", "read", "claim"}
    BY <2>5 DEF Quiet
  <2>8. Moves(p, k)
    BY <1>2, <1>4, <2>5, <2>6, <2>7 DEF Moves, Moved, Become
  <2>9. k.seen = r.seen /\ Holds(p, k)
    BY <1>4, <1>7, <2>2, <2>5 DEF Moved, Holds
  <2>10. Works(k) => Sure(k, journal.stage)
    BY <1>4, <2>2, <2>5
  <2>11. QED  BY <1>5, <2>7, <2>8, <2>9, <2>10, StillStep
<1>8. QED  BY <1>6, <1>7

\* The readback after a request keeps the invariant.
LEMMA VerifyStep ==
  ASSUME IInv, NEW p \in Attempts, Verify(p)
  PROVE  IInv'
<1> DEFINE r == proc[p]
<1>1. r.pc = "verify" /\ Works(r)
  BY DEF Verify, At, Works, Mutating
<1>2. /\ r \in Finalizers /\ r.pc \notin Resting /\ Holds(p, r) /\ Sure(r, journal.stage)
      /\ r.seen = journal
  BY <1>1, AtWork
<1>3. PICK v \in Readback(journal.stage) :
        Become(p, IF Confirmed(v) THEN Leased(p, r, "append") ELSE Stop(r))
  BY <1>2 DEF Verify
<1>4. UNCHANGED <<mode, journal, stream, remote, flying, source, active>>
  BY DEF Verify
<1>5. CASE ~Confirmed(v)
  BY <1>2, <1>3, <1>4, <1>5, StopStep
<1>6. CASE v = "yes"
  <2>1. Become(p, Leased(p, r, "append"))
    BY <1>3, <1>6 DEF Confirmed
  <2>2. journal.stage \in Requests
    BY <1>1, <1>2 DEF Sure, SureIn
  <2>3. /\ journal.stage = "close.intent" => remote.closed
        /\ journal.stage = "create.intent" => remote.prs = 1
        /\ journal.stage = "push.intent" => remote.landed
    BY <1>6, ReadbackIsTrue DEF IInv, EffectInv
  <2>4. "append" \in Places /\ "append" \in Mutating
    BY DEF Places, Mutating
  <2>5. Sure(To(r, "append"), journal.stage)
    <3>1. Moved(r, To(r, "append")) /\ To(r, "append").pc = "append"
      BY <1>2, <2>4, MovedTo
    <3>2. QED  BY <3>1, <1>2, <2>2, <2>3 DEF Sure, SureIn, Moved, Requests
  <2>6. QED  BY <1>1, <1>2, <1>4, <2>1, <2>4, <2>5, WorkOn
<1>7. QED  BY <1>5, <1>6 DEF Confirmed

\* Reading back before a resend keeps the invariant.
LEMMA LookStep ==
  ASSUME IInv, NEW p \in Attempts, Look(p)
  PROVE  IInv'
<1> DEFINE r == proc[p]
           s == journal.stage
           c == [r EXCEPT !.cursor = Len(stream)]
<1>1. r.pc = "look" /\ Works(r)
  BY DEF Look, At, Works, Mutating
<1>2. /\ r \in Finalizers /\ r.pc \notin Resting /\ Holds(p, r) /\ Sure(r, s)
      /\ r.seen = journal
  BY <1>1, AtWork
<1>3. PICK v \in Readback(s) :
        Become(p,
         CASE v = "yes" -> Leased(p, c, "append")
           [] v # "yes" /\ MayResend(s, v) -> Leased(p, r, IF s = "event.intent" THEN "event" ELSE "send")
           [] OTHER -> Stop(r))
  BY <1>2 DEF Look
<1>4. UNCHANGED <<mode, journal, stream, remote, flying, source, active>>
  BY DEF Look
<1>5. s \in {"close.intent", "create.intent", "event.intent"}
  BY <1>1, <1>2 DEF Sure, SureIn
<1>6. /\ (v = "yes" /\ s = "close.intent") => remote.closed
      /\ (v = "yes" /\ s = "create.intent") => remote.prs = 1
      /\ (v = "yes" /\ s = "event.intent") => Opened # {}
      /\ (v = "no" /\ s = "event.intent") => Opened = {}
  BY ReadbackIsTrue DEF IInv, EffectInv
<1>7. {"append", "send", "event"} \subseteq Places /\ {"append", "send", "event"} \subseteq Mutating
  BY DEF Places, Mutating
<1>8. CASE v = "yes"
  <2>1. Become(p, Leased(p, c, "append"))
    BY <1>3, <1>8
  <2>2. Len(stream) \in Nat
    BY DEF IInv, TypeOK
  <2>3. c \in Finalizers /\ c.kind = r.kind /\ c.takes = r.takes /\ c.seen = r.seen /\ c.obs = r.obs
    BY <1>2, <2>2 DEF Finalizers
  <2>4. Sure(To(c, "append"), s)
    <3>1. Moved(c, To(c, "append")) /\ To(c, "append").pc = "append"
      BY <1>7, <2>3, MovedTo
    <3>2. QED  BY <3>1, <2>3, <1>2, <1>5, <1>6, <1>8 DEF Sure, SureIn, Moved
  <2> HIDE DEF c
  <2>5. QED  BY <1>1, <1>2, <1>4, <1>7, <2>1, <2>3, <2>4, WorkOn
<1>9. CASE v # "yes" /\ MayResend(s, v) /\ s = "event.intent"
  <2>1. Become(p, Leased(p, r, "event"))
    BY <1>3, <1>9
  <2>2. Sure(To(r, "event"), s)
    <3>1. Moved(r, To(r, "event")) /\ To(r, "event").pc = "event"
      BY <1>2, <1>7, MovedTo
    <3>2. QED  BY <3>1, <1>2, <1>6, <1>9 DEF Sure, SureIn, Moved, MayResend
  <2>3. QED  BY <1>1, <1>2, <1>4, <1>7, <2>1, <2>2, WorkOn
<1>10. CASE v # "yes" /\ MayResend(s, v) /\ s # "event.intent"
  <2>1. Become(p, Leased(p, r, "send")) /\ s = "close.intent"
    BY <1>3, <1>10 DEF MayResend
  <2>2. Sure(To(r, "send"), s)
    <3>1. Moved(r, To(r, "send")) /\ To(r, "send").pc = "send"
      BY <1>2, <1>7, MovedTo
    <3>2. QED  BY <3>1, <1>2, <2>1 DEF Sure, SureIn, Moved, Requests
  <2>3. QED  BY <1>1, <1>2, <1>4, <1>7, <2>1, <2>2, WorkOn
<1>11. CASE v # "yes" /\ ~MayResend(s, v)
  <2>1. Become(p, Stop(r))
    BY <1>3, <1>11
  <2>2. QED  BY <1>2, <1>4, <2>1, StopStep
<1>12. QED  BY <1>8, <1>9, <1>10, <1>11

\* Reading the cursor of the stream keeps the invariant.
LEMMA ReadEventStep ==
  ASSUME IInv, NEW p \in Attempts, ReadEvent(p)
  PROVE  IInv'
<1> DEFINE r == proc[p]
           c == [r EXCEPT !.cursor = Len(stream)]
<1>1. r.pc = "readEvent" /\ Works(r)
  BY DEF ReadEvent, At, Works, Mutating
<1>2. /\ r \in Finalizers /\ Holds(p, r) /\ Sure(r, journal.stage) /\ r.seen = journal
  BY <1>1, AtWork
<1>3. /\ Become(p, Leased(p, c, "append"))
      /\ UNCHANGED <<mode, journal, stream, remote, flying, source, active>>
  BY DEF ReadEvent
<1>4. Len(stream) \in Nat
  BY DEF IInv, TypeOK
<1>5. c \in Finalizers /\ c.kind = r.kind /\ c.takes = r.takes /\ c.seen = r.seen /\ c.obs = r.obs
  BY <1>2, <1>4 DEF Finalizers
<1>6. "append" \in Places /\ "append" \in Mutating
  BY DEF Places, Mutating
<1>7. journal.stage = "event.intent" /\ Opened # {}
  BY <1>1, <1>2 DEF Sure, SureIn
<1>8. Sure(To(c, "append"), journal.stage)
  <2>1. Moved(c, To(c, "append")) /\ To(c, "append").pc = "append"
    BY <1>5, <1>6, MovedTo
  <2>2. QED  BY <2>1, <1>2, <1>5, <1>7 DEF Sure, SureIn, Moved
<1> HIDE DEF c
<1>9. QED  BY <1>1, <1>3, <1>5, <1>6, <1>8, WorkOn

\* A failing call keeps the invariant.
LEMMA FailStep ==
  ASSUME IInv, NEW p \in Attempts, Fail(p)
  PROVE  IInv'
<1>1. proc[p] \in Finalizers
  BY Typed DEF IInv
<1>2. QED  BY <1>1, StopStep DEF Fail, Acting

\* A finalizer reports, publishes its result or dies.
LEMMA RestStep ==
  ASSUME IInv, NEW p \in Attempts, proc[p].pc \notin Resting,
         NEW pc \in {"publish", "ended", "gone", "dead"}, Become(p, To(proc[p], pc)),
         UNCHANGED <<mode, journal, remote, flying, source, active>>,
         stream' = stream \/ stream' = Append(stream, "finalizer_result")
  PROVE  IInv'
<1> DEFINE k == To(proc[p], pc)
<1>1. proc[p] \in Finalizers /\ pc \in Places
  BY Typed DEF IInv, Places, Resting
<1>2. Moved(proc[p], k) /\ k.pc = pc
  BY <1>1, MovedTo
<1> HIDE DEF k
<1>3. ~Works(k) /\ k.pc \notin {"off", "read", "claim"}
  BY <1>2 DEF Works, Mutating
<1>4. Moves(p, k)
  BY <1>2, <1>3 DEF Moves, Moved, Become, k
<1>5. k.seen = proc[p].seen
  BY <1>2 DEF Moved
<1>6. QED  BY <1>3, <1>4, <1>5, StillStep

\* Recording the result in the stream keeps the invariant.
LEMMA ReportStep ==
  ASSUME IInv, NEW p \in Attempts, Report(p)
  PROVE  IInv'
<1>1. proc[p].pc \notin Resting
  BY DEF Report, At, Resting
<1>2. QED  BY <1>1, RestStep DEF Report

\* Publishing the result keeps the invariant.
LEMMA PublishStep ==
  ASSUME IInv, NEW p \in Attempts, Publish(p)
  PROVE  IInv'
<1>1. proc[p].pc \notin Resting
  BY DEF Publish, At, Resting
<1>2. QED  BY <1>1, RestStep DEF Publish

\* A crash keeps the invariant.
LEMMA DieStep ==
  ASSUME IInv, NEW p \in Attempts, Die(p)
  PROVE  IInv'
BY RestStep DEF Die, Acting

\* An append to the journal, its outcome known to the writer or not.
LEMMA WriteStep ==
  ASSUME IInv, NEW p \in Attempts, NEW k, Moves(p, k),
         UNCHANGED <<mode, stream, remote, flying, source, active>>,
         journal' \in Journals, journal'.len = journal.len + 1, journal'.owner = p,
         journal'.stage \in StagesOf(mode), Effects(journal'.stage), Receipts(journal'.stage),
         k.seen = proc[p].seen \/ k.seen = journal', k.pc # "claim",
         Works(k) => (k.seen = journal' /\ k.kind # "readonly" /\ Sure(k, journal'.stage)),
         \A q \in Attempts : q # p => ~Works(proc[q])
  PROVE  IInv'
<1>1. Opened' = Opened
  BY DEF Opened
<1>2. TypeOK'
  BY TypeWhenMoved DEF IInv, TypeOK, Remotes, Requests
<1>3. Control'
  BY ControlWhenWritten DEF IInv, Control
<1>4. WorkInv'
  <2>1. /\ proc'[p] = k /\ \A q \in Attempts : q # p => proc'[q] = proc[q]
    BY ProcMoves DEF IInv
  <2>2. \A q \in Attempts : Works(proc'[q]) => Sure(proc'[q], journal'.stage)
    BY <2>1
  <2>3. QED  BY <1>1, <2>2 DEF WorkInv, Sure, SureIn, Works
<1>5. EffectInv'
  BY <1>1 DEF IInv, EffectInv, Effects, Receipts, Single
<1>6. QED  BY <1>2, <1>3, <1>4, <1>5 DEF IInv, Control

\* The stage behind a finished one is entered with its effects and receipts.
LEMMA NextStage ==
  ASSUME TypeOK, NEW s \in StagesOf(mode), s # Final, Effects(s), Receipts(s),
         /\ s = "push.intent" => remote.landed
         /\ s = "close.intent" => remote.closed
         /\ s = "create.intent" => remote.prs = 1
         /\ s = "event.intent" => Opened # {}
         /\ s = "remote.complete" => source # "base"
  PROVE  LET t == Following(s) IN
         /\ t \in StagesOf(mode) /\ t \in Stages /\ Effects(t) /\ Receipts(t)
         /\ t = "create.intent" => (remote.prs = 0 /\ t \notin flying)
         /\ t = "event.intent" => Opened = {}
<1>1. remote.prs \in 0 .. 1
  BY DEF TypeOK
<1> DEFINE t == Following(s)
<1>2. CASE mode = "remote"
  <2>1. s \in RemoteStages \ {"local.complete"}
    BY <1>2, RemoteChain DEF StagesOf
  <2>2. \/ s = "claimed" /\ t = "push.intent"
        \/ s = "push.intent" /\ t = "push.receipt"
        \/ s = "push.receipt" /\ t = "close.intent"
        \/ s = "close.intent" /\ t = "close.receipt"
        \/ s = "close.receipt" /\ t = "remote.complete"
        \/ s = "remote.complete" /\ t = "local.complete"
    BY <1>2, <2>1, RemoteChain DEF RemoteStages
  <2> HIDE DEF t
  <2>3. t \in StagesOf(mode) /\ t \in Stages /\ t \notin {"create.intent", "event.intent"}
    BY <1>2, <2>2 DEF StagesOf, RemoteStages, Stages
  <2>4. Effects(t)
    BY <2>2 DEF Effects
  <2>5. Receipts(t)
    BY <2>2 DEF Receipts
  <2>6. QED  BY <2>3, <2>4, <2>5 DEF t
<1>3. CASE mode # "remote"
  <2>1. s \in PrStages \ {"event.complete"}
    BY <1>3, PrChain DEF StagesOf
  <2>2. \/ s = "claimed" /\ t = "push.intent"
        \/ s = "push.intent" /\ t = "push.receipt"
        \/ s = "push.receipt" /\ t = "create.intent"
        \/ s = "create.intent" /\ t = "create.receipt"
        \/ s = "create.receipt" /\ t = "event.intent"
        \/ s = "event.intent" /\ t = "event.receipt"
        \/ s = "event.receipt" /\ t = "event.complete"
    BY <1>3, <2>1, PrChain DEF PrStages
  <2> HIDE DEF t
  <2>3. t \in StagesOf(mode) /\ t \in Stages
    BY <1>3, <2>2 DEF StagesOf, PrStages, Stages
  <2>4. Effects(t)
    BY <2>2 DEF Effects
  <2>5. Receipts(t)
    BY <2>2 DEF Receipts
  <2>6. t = "create.intent" => (remote.prs = 0 /\ t \notin flying)
    BY <1>1, <2>2 DEF Effects
  <2>7. t = "event.intent" => Opened = {}
    BY <2>2 DEF Effects
  <2>8. QED  BY <2>3, <2>4, <2>5, <2>6, <2>7 DEF t
<1>4. QED  BY <1>2, <1>3

\* Advancing the journal keeps the invariant.
LEMMA AdvanceStep ==
  ASSUME IInv, NEW p \in Attempts, Advance(p)
  PROVE  IInv'
<1> DEFINE r == proc[p]
           s == journal.stage
           t == Following(s)
           c == IF t = "event.receipt" THEN r.cursor ELSE journal.cursor
           new == [journal EXCEPT !.stage = t, !.len = @ + 1, !.cursor = c]
           n == [r EXCEPT !.seen = new]
           again == FALSE
           m == Proceed(p, n, again)
<1>1. r.pc = "append" /\ Works(r)
  BY DEF Advance, At, Works, Mutating
<1>2. /\ r \in Finalizers /\ r.pc \notin Resting /\ Holds(p, r) /\ Sure(r, s)
      /\ r.seen = journal /\ s \in StagesOf(mode) /\ journal # NoJournal
      /\ \A q \in Attempts : q # p => ~Works(proc[q])
  BY <1>1, AtWork
<1>3. /\ SameCursor(r) /\ journal' = new
      /\ Become(p, m) \/ Become(p, Stop(r))
      /\ UNCHANGED <<mode, stream, remote, flying, source, active>>
  <2>1. SameCursor(r) /\ r.seen = journal
    BY <1>2 DEF SameCursor
  <2>2. Write(p, new, m)
    BY <1>2 DEF Advance
  <2>3. UNCHANGED <<mode, stream, remote, flying, source, active>>
    BY DEF Advance
  <2> HIDE DEF new, m
  <2>4. QED  BY <2>1, <2>2, <2>3 DEF Write
<1>4. s # Final
  BY <1>2, RemoteChain, PrChain DEF Sure, SureIn
<1>5. /\ t \in StagesOf(mode) /\ t \in Stages /\ Effects(t) /\ Receipts(t)
      /\ t = "create.intent" => (remote.prs = 0 /\ t \notin flying)
      /\ t = "event.intent" => Opened = {}
  <2>1. /\ s = "push.intent" => remote.landed
        /\ s = "close.intent" => remote.closed
        /\ s = "create.intent" => remote.prs = 1
        /\ s = "event.intent" => Opened # {}
        /\ s = "remote.complete" => source # "base"
    BY <1>1, <1>2 DEF Sure, SureIn
  <2>2. TypeOK /\ Effects(s) /\ Receipts(s)
    BY DEF IInv, EffectInv
  <2>3. QED  BY <1>2, <1>4, <2>1, <2>2, NextStage
<1> HIDE DEF t
<1>6. journal \in Journals /\ TypeOK /\ mode \in {"remote", "pr"}
  BY Typed DEF IInv
<1>7. /\ new \in Journals /\ new.len = journal.len + 1 /\ new.owner = p /\ new.stage = t
  <2>1. r.cursor \in Nat /\ journal.cursor \in Nat /\ journal.owner = p
    BY <1>2, <1>6 DEF Finalizers, Holds, Journals
  <2>2. c \in Nat
    BY <2>1
  <2> HIDE DEF c
  <2>3. journal.len + 1 \in Nat
    BY <1>6 DEF Journals
  <2>4. new \in Journals
    BY <1>5, <1>6, <2>2, <2>3 DEF Journals
  <2>5. QED  BY <1>6, <2>1, <2>4 DEF Journals
<1> HIDE DEF new
<1>8. n \in Finalizers /\ n.kind = r.kind /\ n.takes = r.takes /\ n.seen = new /\ n.obs = r.obs
  BY <1>2, <1>7 DEF Finalizers
<1> HIDE DEF n
<1>9. CASE Become(p, Stop(r))
  <2> DEFINE k == Stop(r)
  <2>1. Moved(r, k) /\ k.pc \in Quiet
    BY <1>2, StopQuiet
  <2> HIDE DEF k
  <2>2. ~Works(k) /\ k.pc \notin {"off", "read", "claim"}
    BY <2>1, QuietRests
  <2>3. Moves(p, k)
    BY <1>2, <1>9, <2>1, <2>2 DEF Moves, Moved, Become, k
  <2>4. k.seen = proc[p].seen
    BY <2>1 DEF Moved
  <2>5. QED  BY <1>2, <1>3, <1>5, <1>7, <2>2, <2>3, <2>4, WriteStep
<1>10. CASE Become(p, m)
  <2>1. Ready(n, n.seen.stage, again)
    BY <1>2, <1>5, <1>7, <1>8 DEF Ready, Sure, SureIn
  <2>2. n.kind # "readonly" /\ n.seen.stage = t
    BY <1>2, <1>7, <1>8 DEF Holds
  <2> HIDE DEF again
  <2>3. /\ Moved(n, m) /\ m.pc \in Quiet \cup {"append", "send", "look", "event", "merge"}
        /\ Works(m) => Sure(m, t)
    BY <1>5, <1>6, <1>8, <2>1, <2>2, ProceedIsSure
  <2> HIDE DEF m
  <2>4. m.pc \notin {"off", "read", "claim"}
    BY <2>3 DEF Quiet
  <2>5. Moves(p, m)
    BY <1>2, <1>8, <1>10, <2>3, <2>4 DEF Moves, Moved, Become
  <2>6. m.seen = journal' /\ m.kind # "readonly"
    BY <1>3, <1>8, <2>2, <2>3 DEF Moved
  <2>7. QED  BY <1>2, <1>3, <1>5, <1>7, <2>3, <2>4, <2>5, <2>6, WriteStep
<1>11. QED  BY <1>3, <1>9, <1>10

\* Claiming the journal keeps the invariant.
LEMMA ClaimStep ==
  ASSUME IInv, NEW p \in Attempts, Claim(p)
  PROVE  IInv'
<1> DEFINE r == proc[p]
           new == Taken(p, journal)
           n == [r EXCEPT !.seen = new]
           again == FALSE
           m == IF r.kind = "live" THEN Proceed(p, n, again)
                ELSE IF new.stage = Final THEN Stop(n) ELSE To(n, "observe")
<1>1. r.pc = "claim" /\ Claims(r) /\ r.pc \notin Resting
  BY DEF Claim, At, IInv, ClaimInv, Resting
<1>2. /\ r \in Finalizers /\ journal \in Journals /\ mode \in {"remote", "pr"} /\ TypeOK
      /\ UNCHANGED <<mode, stream, remote, flying, source, active>>
  BY Typed DEF IInv, Claim
<1>3. CASE ~SameCursor(r)
  <2>1. journal' = journal /\ Become(p, Stop(r))
    BY <1>3 DEF Claim, Write
  <2>2. QED  BY <1>1, <1>2, <2>1, StopStep
<1>4. CASE SameCursor(r)
  <2>1. r.seen = journal
    BY <1>4 DEF SameCursor, IInv, SeenInv
  <2>2. journal' = new /\ (Become(p, m) \/ Become(p, Stop(r)))
    BY <1>4, <2>1 DEF Claim, Write
  <2>3. \A q \in Attempts : q # p => ~Works(proc[q])
    BY <1>1, <1>4, Alone DEF SameCursor, IInv, Control
  <2>4. /\ new \in Journals /\ new.len = journal.len + 1 /\ new.owner = p
        /\ new.stage = IF journal = NoJournal THEN "claimed" ELSE journal.stage
    <3>1. journal.len + 1 \in Nat /\ p \in Attempts \cup {NoAttempt} /\ "claimed" \in Stages
      BY <1>2 DEF Journals, Stages
    <3>2. CASE journal = NoJournal
      <4>1. new = [journal EXCEPT !.stage = "claimed", !.len = 1, !.owner = p, !.origin = p]
        BY <3>2 DEF Taken
      <4>2. journal.len = 0
        BY <3>2 DEF NoJournal
      <4>3. [journal EXCEPT !.stage = "claimed", !.len = 1, !.owner = p, !.origin = p] \in Journals
        BY <1>2, <3>1 DEF Journals
      <4>4. new.stage = "claimed" /\ new.len = 1 /\ new.owner = p
        BY <1>2, <4>1 DEF Journals
      <4>5. QED  BY <3>2, <4>1, <4>2, <4>3, <4>4
    <3>3. CASE journal # NoJournal
      <4>1. new = [journal EXCEPT !.len = @ + 1, !.owner = p]
        BY <3>3 DEF Taken
      <4>2. [journal EXCEPT !.len = @ + 1, !.owner = p] \in Journals
        BY <1>2, <3>1 DEF Journals
      <4>3. QED  BY <1>2, <3>3, <4>1, <4>2 DEF Journals
    <3>4. QED  BY <3>2, <3>3
  <2>5. new.stage \in StagesOf(mode)
    <3>1. journal # NoJournal => journal.stage \in StagesOf(mode)
      BY DEF IInv, StageInv
    <3>2. QED  BY <2>4, <3>1 DEF StagesOf, RemoteStages, PrStages
  <2>6. Effects(new.stage) /\ Receipts(new.stage)
    <3>1. Effects(journal.stage) /\ Receipts(journal.stage)
      BY DEF IInv, EffectInv
    <3>2. journal = NoJournal => journal.stage = "none"
      BY DEF NoJournal
    <3>3. QED  BY <2>4, <3>1, <3>2 DEF Effects, Receipts
  <2> HIDE DEF new
  <2>7. n \in Finalizers /\ n.kind = r.kind /\ n.takes = r.takes /\ n.seen = new /\ n.obs = r.obs
    BY <1>2, <2>4 DEF Finalizers
  <2>8. ASSUME NEW k, Become(p, k), k \in Finalizers, k.kind = r.kind, k.takes = r.takes,
               k.seen = r.seen \/ k.seen = new, k.pc \notin {"off", "read", "claim"},
               Works(k) => (k.seen = new /\ k.kind # "readonly" /\ Sure(k, new.stage))
        PROVE  IInv'
    <3>1. Moves(p, k)
      BY <1>1, <2>8 DEF Moves, Become
    <3>2. QED  BY <1>2, <2>2, <2>3, <2>4, <2>5, <2>6, <2>8, <3>1, WriteStep
  <2> HIDE DEF n
  <2>9. CASE Become(p, Stop(r))
    <3>1. Moved(r, Stop(r)) /\ Stop(r).pc \in Quiet
      BY <1>2, StopQuiet
    <3>2. ~Works(Stop(r)) /\ Stop(r).pc \notin {"off", "read", "claim"}
      BY <3>1, QuietRests
    <3>3. QED  BY <2>8, <2>9, <3>1, <3>2 DEF Moved
  <2>10. CASE Become(p, m) /\ r.kind = "live"
    <3> DEFINE k == Proceed(p, n, again)
    <3>1. Become(p, k)
      BY <2>10
    <3>2. new.stage = "claimed"
      BY <1>1, <2>1, <2>4, <2>10 DEF Claims
    <3>3. Ready(n, n.seen.stage, again) /\ n.kind # "readonly" /\ n.seen.stage = new.stage
      BY <2>7, <2>10, <3>2 DEF Ready
    <3> HIDE DEF again
    <3>4. /\ Moved(n, k) /\ k.pc \in Quiet \cup {"append", "send", "look", "event", "merge"}
          /\ Works(k) => Sure(k, new.stage)
      BY <1>2, <2>5, <2>7, <3>3, ProceedIsSure
    <3> HIDE DEF k
    <3>5. k.pc \notin {"off", "read", "claim"}
      BY <3>4 DEF Quiet
    <3>6. QED  BY <2>7, <2>8, <3>1, <3>3, <3>4, <3>5 DEF Moved
  <2>11. CASE Become(p, m) /\ r.kind # "live" /\ new.stage = Final
    <3>1. Become(p, Stop(n))
      BY <2>11
    <3>2. Moved(n, Stop(n)) /\ Stop(n).pc \in Quiet
      BY <2>7, StopQuiet
    <3>3. ~Works(Stop(n)) /\ Stop(n).pc \notin {"off", "read", "claim"}
      BY <3>2, QuietRests
    <3>4. QED  BY <2>7, <2>8, <3>1, <3>2, <3>3 DEF Moved
  <2>12. CASE Become(p, m) /\ r.kind # "live" /\ new.stage # Final
    <3> DEFINE k == To(n, "observe")
    <3>1. Become(p, k)
      BY <2>12
    <3>2. Moved(n, k) /\ k.pc = "observe"
      BY <2>7, MovedTo DEF Places
    <3> HIDE DEF k
    <3>3. k.kind = "mutate" /\ k.obs = "unknown"
      BY <1>1, <2>7, <2>12, <3>2 DEF Claims, Moved
    <3>4. new.stage \notin {"none", "local.complete", "event.complete"}
      <4>1. CASE mode = "remote"
        BY <2>5, <2>12, <4>1, RemoteChain DEF StagesOf, RemoteStages
      <4>2. CASE mode # "remote"
        BY <2>5, <2>12, <4>2, PrChain DEF StagesOf, PrStages
      <4>3. QED  BY <4>1, <4>2
    <3>5. Sure(k, new.stage)
      BY <3>2, <3>3, <3>4 DEF Sure, SureIn
    <3>6. QED  BY <2>7, <2>8, <3>1, <3>2, <3>3, <3>5 DEF Moved
  <2>13. QED  BY <2>2, <2>9, <2>10, <2>11, <2>12
<1>5. QED  BY <1>3, <1>4

\* A step of the holder of the claim that changes the world.
LEMMA WorldStep ==
  ASSUME IInv, NEW p \in Attempts, Works(proc[p]), NEW n, Moves(p, n),
         UNCHANGED <<mode, journal, active>>,
         stream' \in Seq({"pr_opened", "finalizer_result"}), remote' \in Remotes,
         flying' \subseteq Requests, source' \in {"base", "ours", "other"},
         n.seen = proc[p].seen, n.pc # "claim",
         Works(n) => SureIn(n, journal.stage, remote', flying', source', Opened'), EffectInv'
  PROVE  IInv'
<1>1. Holds(p, proc[p]) /\ \A q \in Attempts : q # p => ~Works(proc[q])
  BY AtWork
<1>2. TypeOK'
  BY TypeWhenMoved DEF IInv, TypeOK
<1>3. Holds(p, n)
  BY <1>1 DEF Holds, Moves
<1>4. Control'
  BY <1>3, ControlWhenStill DEF IInv, Control
<1>5. WorkInv'
  BY <1>1, WorkWhenAlone DEF IInv, Sure, SureIn
<1>6. QED  BY <1>2, <1>4, <1>5 DEF IInv, Control

\* A request that is intended lands.
LEMMA Landing ==
  ASSUME TypeOK, EffectInv, NEW s \in Requests, remote' = Applied(remote, s),
         flying' \subseteq flying, s = "create.intent" => (remote.prs = 0 /\ s \notin flying'),
         UNCHANGED <<journal, stream, source>>,
         s = "push.intent" => journal.stage \notin {"none", "claimed"},
         s = "close.intent" => journal.stage \in
           {"close.intent", "close.receipt", "remote.complete", "local.complete"},
         s = "create.intent" => journal.stage \in
           {"create.intent", "create.receipt", "event.intent", "event.receipt", "event.complete"}
  PROVE  /\ EffectInv' /\ remote' \in Remotes
         /\ remote.landed => remote'.landed
         /\ remote.closed => remote'.closed
         /\ s # "create.intent" => remote'.prs = remote.prs
         /\ s = "create.intent" => remote'.prs = 1
<1>1. remote \in Remotes
  BY DEF TypeOK, Remotes
<1>2. Opened' = Opened
  BY DEF Opened
<1>3. CASE s = "push.intent"
  <2>1. remote' = Pushed(remote)
    BY <1>3 DEF Applied
  <2>2. /\ remote' \in Remotes /\ remote'.closed = remote.closed /\ remote'.prs = remote.prs
        /\ remote.landed => remote'.landed
        /\ (remote'.head = "ours" /\ remote.head # "ours") => remote'.landed
        /\ remote.head = "ours" => remote'.head = "ours"
    BY <1>1, <2>1 DEF Pushed, Remotes
  <2>3. remote'.head = "ours" => remote'.landed
    BY <2>2 DEF EffectInv, Single
  <2>4. Single'
    BY <1>2, <2>2, <2>3 DEF EffectInv, Single
  <2>5. Effects(journal.stage)'
    BY <1>2, <1>3, <2>2 DEF EffectInv, Effects
  <2>6. Receipts(journal.stage)'
    BY <1>2, <2>2 DEF EffectInv, Receipts
  <2>7. QED  BY <1>3, <2>2, <2>4, <2>5, <2>6 DEF EffectInv
<1>4. CASE s = "close.intent"
  <2>1. remote' = [remote EXCEPT !.closed = TRUE]
    BY <1>4 DEF Applied
  <2>2. /\ remote' \in Remotes /\ remote'.closed /\ remote'.prs = remote.prs
        /\ remote'.landed = remote.landed /\ remote'.head = remote.head
    BY <1>1, <2>1 DEF Remotes
  <2>3. Single'
    BY <1>2, <2>2 DEF EffectInv, Single
  <2>4. Effects(journal.stage)'
    BY <1>2, <1>4, <2>2 DEF EffectInv, Effects
  <2>5. Receipts(journal.stage)'
    BY <1>2, <2>2 DEF EffectInv, Receipts
  <2>6. QED  BY <1>4, <2>2, <2>3, <2>4, <2>5 DEF EffectInv
<1>5. CASE s = "create.intent"
  <2>1. remote' = [remote EXCEPT !.prs = @ + 1]
    BY <1>5 DEF Applied
  <2>2. /\ remote' \in Remotes /\ remote'.closed = remote.closed /\ remote'.prs = 1
        /\ remote'.landed = remote.landed /\ remote'.head = remote.head
    BY <1>1, <1>5, <2>1 DEF Remotes
  <2>3. Single'
    BY <1>2, <1>5, <2>2 DEF EffectInv, Single
  <2>4. Effects(journal.stage)'
    BY <1>2, <1>5, <2>2 DEF EffectInv, Effects
  <2>5. Receipts(journal.stage)'
    BY <1>2, <2>2 DEF EffectInv, Receipts
  <2>6. QED  BY <1>5, <2>2, <2>3, <2>4, <2>5 DEF EffectInv
<1>6. QED  BY <1>3, <1>4, <1>5 DEF Requests

\* Sending a mutation keeps the invariant.
LEMMA SendStep ==
  ASSUME IInv, NEW p \in Attempts, Send(p)
  PROVE  IInv'
<1> DEFINE r == proc[p]
           s == journal.stage
           k == To(r, "verify")
<1>1. r.pc = "send" /\ Works(r)
  BY DEF Send, At, Works, Mutating
<1>2. r \in Finalizers /\ r.pc \notin Resting /\ Sure(r, s) /\ r.seen = journal
  BY <1>1, AtWork
<1>3. /\ UNCHANGED <<mode, journal, stream, source, active>> /\ Become(p, k)
      /\ \/ remote' = Applied(remote, s) /\ flying' = flying
         \/ UNCHANGED <<remote, flying>>
         \/ flying' = flying \cup {s} /\ remote' = remote
  BY <1>2 DEF Send
<1>4. s \in Requests /\ (s = "create.intent" => (remote.prs = 0 /\ s \notin flying))
  BY <1>1, <1>2 DEF Sure, SureIn
<1>5. Moved(r, k) /\ k.pc = "verify"
  BY <1>2, MovedTo DEF Places
<1> HIDE DEF k
<1>6. Moves(p, k) /\ k.pc # "claim"
  BY <1>2, <1>3, <1>5 DEF Moves, Moved, Become
<1>7. TypeOK /\ EffectInv
  BY DEF IInv
<1>8. ASSUME EffectInv', remote' \in Remotes, flying' \subseteq Requests,
             remote.landed => remote'.landed
      PROVE  IInv'
  <2>1. SureIn(k, journal.stage, remote', flying', source', Opened')
    BY <1>2, <1>3, <1>4, <1>5, <1>8 DEF Sure, SureIn, Moved
  <2>2. /\ stream' \in Seq({"pr_opened", "finalizer_result"})
        /\ source' \in {"base", "ours", "other"}
    BY <1>3, <1>7 DEF TypeOK
  <2>3. k.seen = proc[p].seen
    BY <1>5 DEF Moved
  <2>4. QED  BY <1>1, <1>3, <1>6, <1>8, <2>1, <2>2, <2>3, WorldStep
<1>9. remote \in Remotes /\ flying \subseteq Requests
  BY <1>7 DEF TypeOK, Remotes, Requests
<1>10. CASE remote' = Applied(remote, s) /\ flying' = flying
  <2>1. EffectInv' /\ remote' \in Remotes /\ (remote.landed => remote'.landed)
    BY <1>3, <1>4, <1>7, <1>10, Landing
  <2>2. QED  BY <1>8, <1>9, <1>10, <2>1
<1>11. CASE UNCHANGED <<remote, flying>>
  <2>1. EffectInv'
    BY <1>3, <1>7, <1>11 DEF EffectInv, Effects, Receipts, Single, Opened
  <2>2. QED  BY <1>8, <1>9, <1>11, <2>1
<1>12. CASE flying' = flying \cup {s} /\ remote' = remote
  <2>1. Opened' = Opened /\ journal' = journal /\ source' = source
    BY <1>3 DEF Opened
  <2>2. Single'
    BY <1>4, <1>7, <1>12, <2>1 DEF EffectInv, Single
  <2>3. Effects(journal.stage)'
    BY <1>4, <1>7, <1>12, <2>1 DEF EffectInv, Effects
  <2>4. Receipts(journal.stage)'
    BY <1>7, <1>12, <2>1 DEF EffectInv, Receipts
  <2>5. flying' \subseteq Requests
    BY <1>4, <1>9, <1>12
  <2>6. QED  BY <1>8, <1>9, <1>12, <2>2, <2>3, <2>4, <2>5 DEF EffectInv
<1>13. QED  BY <1>3, <1>10, <1>11, <1>12

\* Appending the event keeps the invariant.
LEMMA AppendEventStep ==
  ASSUME IInv, NEW p \in Attempts, AppendEvent(p)
  PROVE  IInv'
<1> DEFINE r == proc[p]
           s == journal.stage
           k == To(r, "readEvent")
<1>1. r.pc = "event" /\ Works(r)
  BY DEF AppendEvent, At, Works, Mutating
<1>2. r \in Finalizers /\ r.pc \notin Resting /\ Sure(r, s) /\ r.seen = journal
  BY <1>1, AtWork
<1>3. /\ UNCHANGED <<mode, journal, remote, flying, source, active>> /\ Become(p, k)
      /\ stream' = Append(stream, "pr_opened")
  BY DEF AppendEvent
<1>4. s = "event.intent" /\ Opened = {}
  BY <1>1, <1>2 DEF Sure, SureIn
<1>5. Moved(r, k) /\ k.pc = "readEvent"
  BY <1>2, MovedTo DEF Places
<1> HIDE DEF k
<1>6. Moves(p, k) /\ k.pc # "claim" /\ k.seen = proc[p].seen
  BY <1>2, <1>3, <1>5 DEF Moves, Moved, Become
<1>7. TypeOK /\ EffectInv
  BY DEF IInv
<1>8. Opened' = {Len(stream) + 1} /\ stream' \in Seq({"pr_opened", "finalizer_result"})
  BY <1>3, <1>4, <1>7, EventOpensOne
<1>9. SureIn(k, journal.stage, remote', flying', source', Opened')
  BY <1>2, <1>3, <1>4, <1>5, <1>8 DEF Sure, SureIn, Moved
<1>10. EffectInv'
  <2>1. Single'
    BY <1>3, <1>7, <1>8 DEF EffectInv, Single
  <2>2. Effects(journal.stage)'
    BY <1>3, <1>4, <1>7 DEF EffectInv, Effects
  <2>3. Receipts(journal.stage)'
    BY <1>3, <1>4, <1>7 DEF EffectInv, Receipts
  <2>4. QED  BY <2>1, <2>2, <2>3 DEF EffectInv
<1>11. remote' \in Remotes /\ flying' \subseteq Requests /\ source' \in {"base", "ours", "other"}
  BY <1>3, <1>7 DEF TypeOK, Remotes, Requests
<1>12. QED  BY <1>1, <1>3, <1>6, <1>8, <1>9, <1>10, <1>11, WorldStep

\* The merge into the local source keeps the invariant.
LEMMA MergeStep ==
  ASSUME IInv, NEW p \in Attempts, Merge(p)
  PROVE  IInv'
<1> DEFINE r == proc[p]
           s == journal.stage
           k == Leased(p, r, "append")
<1>1. r.pc = "merge" /\ Works(r)
  BY DEF Merge, At, Works, Mutating
<1>2. r \in Finalizers /\ r.pc \notin Resting /\ Sure(r, s) /\ r.seen = journal
  BY <1>1, AtWork
<1>3. /\ UNCHANGED <<mode, journal, stream, remote, flying, active>>
      /\ \/ source' = "ours" /\ Become(p, k)
         \/ source' = source /\ Become(p, Stop(r))
  BY DEF Merge
<1>4. s = "remote.complete"
  BY <1>1, <1>2 DEF Sure, SureIn
<1>5. CASE source' = source /\ Become(p, Stop(r))
  BY <1>2, <1>3, <1>5, StopStep
<1>6. CASE source' = "ours" /\ Become(p, k)
  <2>1. Moved(r, k) /\ k.pc \in Quiet \cup {"append"}
    BY <1>2, LeasedMoves DEF Places
  <2> HIDE DEF k
  <2>2. Moves(p, k) /\ k.pc # "claim" /\ k.seen = proc[p].seen
    BY <1>2, <1>6, <2>1 DEF Moves, Moved, Become, Quiet
  <2>3. TypeOK /\ EffectInv
    BY DEF IInv
  <2>4. Opened' = Opened
    BY <1>3 DEF Opened
  <2>5. Works(k) => SureIn(k, journal.stage, remote', flying', source', Opened')
    <3>1. Works(k) => k.pc = "append"
      BY <2>1, QuietRests
    <3>2. k.pc = "append" => SureIn(k, journal.stage, remote', flying', source', Opened')
      BY <1>2, <1>3, <1>4, <1>6, <2>1, <2>4 DEF Sure, SureIn, Moved
    <3>3. QED  BY <3>1, <3>2
  <2>6. EffectInv'
    <3>1. Single'
      BY <1>3, <2>3, <2>4 DEF EffectInv, Single
    <3>2. Effects(journal.stage)'
      BY <1>3, <1>4, <2>3, <2>4 DEF EffectInv, Effects
    <3>3. Receipts(journal.stage)'
      BY <1>3, <1>4, <2>3, <2>4 DEF EffectInv, Receipts
    <3>4. QED  BY <3>1, <3>2, <3>3 DEF EffectInv
  <2>7. /\ remote' \in Remotes /\ flying' \subseteq Requests /\ source' \in {"base", "ours", "other"}
        /\ stream' \in Seq({"pr_opened", "finalizer_result"})
    BY <1>3, <1>6, <2>3 DEF TypeOK, Remotes, Requests
  <2>8. QED  BY <1>1, <1>3, <2>2, <2>5, <2>6, <2>7, WorldStep
<1>7. QED  BY <1>3, <1>5, <1>6

-----------------------------------------------------------------------------
(* The steps of the world and of the hub *)

\* The journal and the finalizers stay as they are.
LEMMA ControlAside ==
  ASSUME Control, UNCHANGED <<mode, journal, active, proc>>
  PROVE  Control'
<1>1. StageInv'
  BY DEF Control, StageInv
<1>2. SeenInv'
  BY DEF Control, SeenInv
<1>3. ClaimInv'
  BY DEF Control, ClaimInv, HandedOver
<1>4. OwnerInv'
  BY DEF Control, OwnerInv, Works, Holds
<1>5. QED  BY <1>1, <1>2, <1>3, <1>4 DEF Control

\* A request that the transport gave up lands late.
LEMMA LandStep ==
  ASSUME IInv, NEW s \in flying, Land(s)
  PROVE  IInv'
<1>1. TypeOK /\ EffectInv /\ WorkInv /\ Control
  BY DEF IInv, Control
<1>2. /\ flying' = flying \ {s} /\ remote' = Applied(remote, s)
      /\ UNCHANGED <<mode, journal, stream, source, active, proc>>
  BY DEF Land
<1>3. s \in Requests
  BY <1>1 DEF TypeOK, Requests
<1>4. /\ EffectInv' /\ remote' \in Remotes
      /\ remote.landed => remote'.landed
      /\ remote.closed => remote'.closed
      /\ s # "create.intent" => remote'.prs = remote.prs
      /\ s = "create.intent" => remote'.prs = 1
  <2>1. flying' \subseteq flying /\ s \notin flying'
    BY <1>2
  <2>2. /\ s = "create.intent" => remote.prs = 0
        /\ s = "push.intent" => journal.stage \notin {"none", "claimed"}
        /\ s = "close.intent" => journal.stage \in
             {"close.intent", "close.receipt", "remote.complete", "local.complete"}
        /\ s = "create.intent" => journal.stage \in
             {"create.intent", "create.receipt", "event.intent", "event.receipt", "event.complete"}
    BY <1>1 DEF EffectInv, Effects, Single
  <2>3. QED  BY <1>1, <1>2, <1>3, <2>1, <2>2, Landing
<1>5. TypeOK'
  BY <1>1, <1>2, <1>4 DEF TypeOK, Remotes
<1>6. WorkInv'
  <2>1. SUFFICES ASSUME NEW q \in Attempts, Works(proc[q])
                 PROVE  SureIn(proc[q], journal.stage, remote', flying', source', Opened')
    BY <1>2 DEF WorkInv, Works, Sure
  <2>2. SureIn(proc[q], journal.stage, remote, flying, source, Opened)
    BY <1>1, <2>1 DEF WorkInv, Sure
  <2>3. Opened' = Opened /\ source' = source
    BY <1>2 DEF Opened
  <2>4. QED  BY <1>2, <1>4, <2>2, <2>3 DEF SureIn
<1>7. Control'
  BY <1>1, <1>2, ControlAside
<1>8. QED  BY <1>4, <1>5, <1>6, <1>7 DEF IInv, Control

\* Somebody else pushes to the branch or moves the local source.
LEMMA OthersStep ==
  ASSUME IInv, Outsider \/ Developer
  PROVE  IInv'
<1>1. TypeOK /\ EffectInv /\ WorkInv /\ Control
  BY DEF IInv, Control
<1>2. /\ UNCHANGED <<mode, journal, stream, flying, active, proc>>
      /\ \/ remote' = [remote EXCEPT !.head = "other"] /\ source' = source
         \/ remote' = remote /\ source' = "other"
  BY DEF Outsider, Developer
<1>3. /\ remote' \in Remotes /\ remote'.landed = remote.landed /\ remote'.closed = remote.closed
      /\ remote'.prs = remote.prs /\ remote'.head \in {"other", remote.head}
  BY <1>1, <1>2 DEF TypeOK, Remotes
<1>4. source' \in {"other", source} /\ Opened' = Opened
  BY <1>2 DEF Opened
<1>5. TypeOK'
  BY <1>1, <1>2, <1>3, <1>4 DEF TypeOK, Remotes
<1>6. EffectInv'
  <2>1. Single'
    BY <1>1, <1>2, <1>3, <1>4 DEF EffectInv, Single
  <2>2. Effects(journal.stage)'
    BY <1>1, <1>2, <1>3, <1>4 DEF EffectInv, Effects
  <2>3. Receipts(journal.stage)'
    BY <1>1, <1>2, <1>3, <1>4 DEF EffectInv, Receipts
  <2>4. QED  BY <2>1, <2>2, <2>3 DEF EffectInv
<1>7. WorkInv'
  <2>1. SUFFICES ASSUME NEW q \in Attempts, Works(proc[q])
                 PROVE  SureIn(proc[q], journal.stage, remote', flying', source', Opened')
    BY <1>2 DEF WorkInv, Works, Sure
  <2>2. SureIn(proc[q], journal.stage, remote, flying, source, Opened)
    BY <1>1, <2>1 DEF WorkInv, Sure
  <2>3. QED  BY <1>2, <1>3, <1>4, <2>2 DEF SureIn
<1>8. Control'
  BY <1>1, <1>2, ControlAside
<1>9. QED  BY <1>5, <1>6, <1>7, <1>8 DEF IInv, Control

\* The hub starts the next attempt.
LEMMA StartStep ==
  ASSUME IInv, NEW p \in Attempts, Start(p)
  PROVE  IInv'
<1>1. TypeOK /\ EffectInv /\ WorkInv /\ Control
  BY DEF IInv, Control
<1>2. /\ p = active + 1 /\ active' = p
      /\ UNCHANGED <<mode, journal, stream, remote, flying, source>>
  BY DEF Start
<1>3. active \in Nat /\ p \in Nat
  BY <1>1, FinalizerAssumption DEF TypeOK, Attempts, NoAttempt
<1>4. proc[p] = Idle
  BY <1>1, <1>2, <1>3 DEF Control, ClaimInv
<1>5. PICK n \in Finalizers :
        /\ Become(p, n) /\ n.pc = "read" /\ n.seen = NoJournal /\ n.obs = "unknown"
        /\ n.kind = "mutate" => (n.takes \in 1 .. p - 1 /\ HandedOver(n.takes))
  <2>1. NoJournal \in Journals
    BY DEF NoJournal, Journals, Stages, NoAttempt
  <2>2. To(Idle, "read") = [kind |-> "live", pc |-> "read", seen |-> NoJournal,
                            obs |-> "unknown", cursor |-> 0, takes |-> NoAttempt]
    BY DEF To, Idle
  <2>3. \A kind \in Kinds, takes \in Attempts \cup {NoAttempt} :
          [kind |-> kind, pc |-> "read", seen |-> NoJournal,
           obs |-> "unknown", cursor |-> 0, takes |-> takes] \in Finalizers
    BY <2>1 DEF Finalizers, Places, Answers
  <2>4. NoAttempt \in Attempts \cup {NoAttempt} /\ {"live", "readonly", "mutate"} \subseteq Kinds
    BY DEF Kinds
  <2>5. CASE Become(p, To(Idle, "read"))
    BY <2>2, <2>3, <2>4, <2>5
  <2>6. CASE Become(p, [To(Idle, "read") EXCEPT !.kind = "readonly"])
    <3>1. [To(Idle, "read") EXCEPT !.kind = "readonly"] =
            [kind |-> "readonly", pc |-> "read", seen |-> NoJournal,
             obs |-> "unknown", cursor |-> 0, takes |-> NoAttempt]
      BY <2>2
    <3>2. QED  BY <2>3, <2>4, <2>6, <3>1
  <2>7. ASSUME NEW q \in 1 .. p - 1, HandedOver(q),
               Become(p, [To(Idle, "read") EXCEPT !.kind = "mutate", !.takes = q])
        PROVE  \E n \in Finalizers :
                 /\ Become(p, n) /\ n.pc = "read" /\ n.seen = NoJournal /\ n.obs = "unknown"
                 /\ n.kind = "mutate" => (n.takes \in 1 .. p - 1 /\ HandedOver(n.takes))
    <3> DEFINE m == To(Idle, "read")
               n == [m EXCEPT !.kind = "mutate", !.takes = q]
    <3>1. q \in Attempts
      BY <1>3, FinalizerAssumption DEF Attempts
    <3>2. m \in Finalizers /\ m.pc = "read" /\ m.seen = NoJournal /\ m.obs = "unknown"
      BY <2>2, <2>3, <2>4
    <3> HIDE DEF m
    <3>3. n \in Finalizers
      BY <2>4, <3>1, <3>2 DEF Finalizers
    <3>4. /\ n.kind = "mutate" /\ n.pc = "read" /\ n.seen = NoJournal /\ n.obs = "unknown"
          /\ n.takes = q
      BY <3>2 DEF Finalizers
    <3>5. Become(p, n)
      BY <2>7 DEF m
    <3> HIDE DEF n
    <3>6. QED  BY <2>7, <3>3, <3>4, <3>5
  <2>8. QED  BY <2>5, <2>6, <2>7 DEF Start
<1>6. proc \in [Attempts -> Finalizers]
  BY <1>1 DEF TypeOK, Finalizers, Kinds, Places, Answers
<1>7. /\ proc' \in [Attempts -> Finalizers] /\ proc'[p] = n
      /\ \A q \in Attempts : q # p => proc'[q] = proc[q]
  BY <1>5, <1>6 DEF Become
<1>8. ~Works(n) /\ n.pc \notin {"off", "claim"}
  BY <1>5 DEF Works, Mutating
<1>9. TypeOK'
  <2>1. proc' \in [Attempts ->
         [kind : {"live", "readonly", "mutate"},
          pc : Resting \cup {"read", "claim", "observe", "append", "send", "verify",
                             "look", "event", "readEvent", "merge", "report", "publish"},
          seen : Journals, obs : {"yes", "no", "unknown"}, cursor : Nat,
          takes : Attempts \cup {NoAttempt}]]
    BY <1>7 DEF Finalizers, Kinds, Places, Answers
  <2>2. active' \in Attempts \cup {NoAttempt}
    BY <1>2
  <2>3. QED  BY <1>1, <1>2, <2>1, <2>2 DEF TypeOK, Journals, Resting
<1>10. StageInv'
  BY <1>1, <1>2 DEF Control, StageInv
<1>11. SeenInv'
  <2>1. SUFFICES ASSUME NEW q \in Attempts
                 PROVE  /\ proc'[q].seen.len <= journal.len
                        /\ proc'[q].seen.len = journal.len => proc'[q].seen = journal
    BY <1>2 DEF SeenInv
  <2>2. proc'[q].seen = proc[q].seen
    BY <1>4, <1>5, <1>7 DEF Idle
  <2>3. QED  BY <1>1, <2>2 DEF Control, SeenInv
<1>12. ClaimInv'
  <2>1. SUFFICES ASSUME NEW q \in Attempts
                 PROVE  /\ proc'[q].kind = "mutate" =>
                             (proc'[q].takes \in Attempts /\ proc'[proc'[q].takes].pc \in {"ended", "dead"})
                        /\ proc'[q].pc \in {"off", "read"} =>
                             (proc'[q].seen = NoJournal /\ proc'[q].obs = "unknown")
                        /\ proc'[q].pc = "claim" => Claims(proc'[q])
                        /\ q > active' => proc'[q] = Idle
    BY DEF ClaimInv, Claims, HandedOver
  <2>2. \A t \in Attempts : HandedOver(t) => proc'[t].pc \in {"ended", "dead"}
    <3>1. ~HandedOver(p)
      BY <1>4 DEF HandedOver, Idle
    <3>2. QED  BY <1>7, <3>1 DEF HandedOver
  <2>3. proc'[q].kind = "mutate" =>
          (proc'[q].takes \in Attempts /\ proc'[proc'[q].takes].pc \in {"ended", "dead"})
    <3>1. CASE q = p
      <4>1. 1 .. p - 1 \subseteq Attempts
        BY <1>3, FinalizerAssumption DEF Attempts
      <4>2. QED  BY <1>5, <1>7, <2>2, <3>1, <4>1
    <3>2. CASE q # p
      BY <1>1, <1>7, <2>2, <3>2 DEF Control, ClaimInv
    <3>3. QED  BY <3>1, <3>2
  <2>4. proc'[q].pc \in {"off", "read"} => (proc'[q].seen = NoJournal /\ proc'[q].obs = "unknown")
    BY <1>1, <1>5, <1>7 DEF Control, ClaimInv
  <2>5. proc'[q].pc = "claim" => Claims(proc'[q])
    BY <1>1, <1>7, <1>8 DEF Control, ClaimInv
  <2>6. q > active' => proc'[q] = Idle
    <3>1. q \in Nat
      BY DEF Attempts
    <3>2. q > active' => (q > active /\ q # p)
      BY <1>2, <1>3, <3>1
    <3>3. QED  BY <1>1, <1>7, <3>2 DEF Control, ClaimInv
  <2>7. QED  BY <2>3, <2>4, <2>5, <2>6
<1>13. OwnerInv'
  <2>1. \A q \in Attempts : Works(proc'[q]) => (q # p /\ proc'[q] = proc[q])
    BY <1>7, <1>8
  <2>2. QED  BY <1>1, <1>2, <2>1 DEF Control, OwnerInv, Works, Holds
<1>14. WorkInv'
  <2>1. \A q \in Attempts : Works(proc'[q]) => (q # p /\ proc'[q] = proc[q])
    BY <1>7, <1>8
  <2>2. Opened' = Opened
    BY <1>2 DEF Opened
  <2>3. \A q \in Attempts : Works(proc'[q]) =>
          SureIn(proc'[q], journal.stage, remote, flying, source, Opened)
    BY <1>1, <2>1 DEF WorkInv, Sure
  <2>4. QED  BY <1>2, <2>2, <2>3 DEF WorkInv, Works, Sure
<1>15. EffectInv'
  BY <1>1, <1>2 DEF EffectInv, Effects, Receipts, Single, Opened
<1>16. QED  BY <1>9, <1>10, <1>11, <1>12, <1>13, <1>14, <1>15 DEF IInv

-----------------------------------------------------------------------------
(* The theorems *)

\* The invariant holds before anything is finalized.
LEMMA InitIInv ==
  ASSUME Init
  PROVE  IInv
<1>1. /\ mode \in {"remote", "pr"} /\ journal = NoJournal /\ stream = <<>>
      /\ remote = [head |-> "base", landed |-> FALSE, closed |-> FALSE, prs |-> 0]
      /\ flying = {} /\ source = "base" /\ active = NoAttempt
      /\ proc = [p \in Attempts |-> Idle]
  BY DEF Init
<1>2. NoJournal \in Journals
  BY DEF NoJournal, Journals, Stages, NoAttempt
<1>3. Opened = {}
  BY <1>1 DEF Opened
<1>4. TypeOK
  <2>1. Idle \in [kind : {"live", "readonly", "mutate"},
                  pc : Resting \cup {"read", "claim", "observe", "append", "send", "verify",
                                     "look", "event", "readEvent", "merge", "report", "publish"},
                  seen : Journals, obs : {"yes", "no", "unknown"}, cursor : Nat,
                  takes : Attempts \cup {NoAttempt}]
    BY <1>2 DEF Idle, Resting
  <2>2. remote \in [head : {"base", "ours", "other"}, landed : BOOLEAN,
                    closed : BOOLEAN, prs : 0 .. 1]
    BY <1>1
  <2>3. QED  BY <1>1, <1>2, <2>1, <2>2 DEF TypeOK
<1>5. StageInv /\ SeenInv
  BY <1>1 DEF StageInv, SeenInv, Idle, NoJournal
<1>6. ClaimInv /\ OwnerInv /\ WorkInv
  <2>1. \A p \in Attempts : proc[p] = Idle
    BY <1>1
  <2>2. Idle.pc = "off" /\ Idle.kind = "live" /\ Idle.seen = NoJournal /\ Idle.obs = "unknown"
    BY DEF Idle
  <2>3. ~Works(Idle)
    BY <2>2 DEF Works, Mutating
  <2>4. QED  BY <2>1, <2>2, <2>3 DEF ClaimInv, OwnerInv, WorkInv
<1>7. EffectInv
  BY <1>1, <1>3 DEF EffectInv, Effects, Receipts, Single, NoJournal
<1>8. QED  BY <1>4, <1>5, <1>6, <1>7 DEF IInv

\* Every step keeps the invariant.
LEMMA NextIInv ==
  ASSUME IInv, [Next]_vars
  PROVE  IInv'
<1>1. CASE UNCHANGED vars
  <2>1. UNCHANGED <<mode, journal, stream, remote, flying, source, active, proc>>
    BY <1>1 DEF vars
  <2>2. Control'
    BY <2>1, ControlAside DEF IInv, Control
  <2>3. TypeOK'
    BY <2>1 DEF IInv, TypeOK
  <2>4. WorkInv'
    BY <2>1 DEF IInv, WorkInv, Works, Sure, Opened
  <2>5. EffectInv'
    BY <2>1 DEF IInv, EffectInv, Effects, Receipts, Single, Opened
  <2>6. QED  BY <2>2, <2>3, <2>4, <2>5 DEF IInv, Control
<1>2. ASSUME NEW p \in Attempts, Step(p)
      PROVE  IInv'
  BY <1>2, ReadStep, ClaimStep, ObserveStep, AdvanceStep, SendStep, VerifyStep, LookStep,
     AppendEventStep, ReadEventStep, MergeStep, FailStep, ReportStep, PublishStep DEF Step
<1>3. CASE World
  BY <1>3, LandStep, OthersStep DEF World
<1>4. QED  BY <1>1, <1>2, <1>3, StartStep, DieStep DEF Next

\* The invariant holds throughout every behaviour, for any number of attempts.
THEOREM Inductive == Spec => []IInv
<1>1. Init => IInv
  BY InitIInv
<1>2. IInv /\ [Next]_vars => IInv'
  BY NextIInv
<1>3. QED  BY <1>1, <1>2, PTL DEF Spec

\* Every variable keeps the type its name says.
THEOREM TypeCorrect == Spec => []TypeOK
<1>1. IInv => TypeOK
  BY DEF IInv
<1>2. QED  BY <1>1, Inductive, PTL

\* The finalizer (runFinalizerJournal and recoverFinalizerOnly) creates at most one pull
\* request and publishes at most one pr_opened event, whoever stops, dies or takes over.
THEOREM DoneOnce == Spec => []NothingTwice
<1>1. IInv => NothingTwice
  BY SingleFromEffects DEF IInv
<1>2. QED  BY <1>1, Inductive, PTL

\* A receipt that appendFinalizerJournal records is true of the remote, the events and
\* the local source.
THEOREM ReceiptsHold == Spec => []ReceiptsAreTrue
<1>1. IInv => ReceiptsAreTrue
  BY ReceiptsFromEffects DEF IInv
<1>2. QED  BY <1>1, Inductive, PTL

\* Whatever the finalizer does to the world, the journal said before that it would.
THEOREM IntentFirst == Spec => []EffectsAreIntended
<1>1. IInv => EffectsAreIntended
  BY ReceiptsFromEffects DEF IInv
<1>2. QED  BY <1>1, Inductive, PTL

\* Only the holder of the journal's claim is about to write.
THEOREM ClaimIsExclusive == Spec => []SoleMutator
<1>1. IInv => SoleMutator
  BY DEF IInv, OwnerInv, SoleMutator, Works, Mutating, Holds
<1>2. QED  BY <1>1, Inductive, PTL

\* An append of a worker takes the journal to the stage after the one it is at.
LEMMA AdvanceProgresses ==
  ASSUME IInv, NEW p \in Attempts, Advance(p)
  PROVE  journal'.len = journal.len + 1 /\ journal'.origin = journal.origin /\ Progresses
<1> DEFINE s == journal.stage
           c == IF Following(s) = "event.receipt" THEN proc[p].cursor ELSE journal.cursor
<1>1. Works(proc[p])
  BY DEF Advance, At, Works, Mutating
<1>2. proc[p].seen = journal /\ Sure(proc[p], s) /\ journal \in Journals
  BY <1>1, AtWork, Typed DEF IInv
<1>3. SameCursor(proc[p])
  BY <1>2 DEF SameCursor
<1>4. journal' = [journal EXCEPT !.stage = Following(s), !.len = @ + 1, !.cursor = c]
  BY <1>2, <1>3 DEF Advance, Write
<1>5. s \notin {"none", Final}
  BY <1>2, RemoteChain, PrChain DEF Sure, SureIn
<1> HIDE DEF s, c
<1>6. QED  BY <1>2, <1>4, <1>5 DEF Progresses, Journals, s

\* A claim begins the journal or takes it from an attempt that has handed it over;
\* a claim from an old reading writes nothing.
LEMMA ClaimBeginsOrTakes ==
  ASSUME IInv, NEW p \in Attempts, Claim(p), journal' # journal
  PROVE  /\ journal'.len = journal.len + 1
         /\ \/ Begins
            \/ ChangesHands /\ journal # NoJournal /\ journal'.origin = journal.origin
<1> DEFINE r == proc[p]
<1>1. r.pc = "claim" /\ Claims(r) /\ journal \in Journals
  BY Typed DEF Claim, At, IInv, ClaimInv
<1>2. SameCursor(r)
  BY DEF Claim, Write
<1>3. r.seen = journal
  BY <1>2 DEF SameCursor, IInv, SeenInv
<1>4. journal' = Taken(p, journal)
  BY <1>2, <1>3 DEF Claim, Write
<1>5. p # NoAttempt
  BY DEF Attempts, NoAttempt
<1>6. CASE journal = NoJournal
  <2>1. journal' = [journal EXCEPT !.stage = "claimed", !.len = 1, !.owner = p, !.origin = p]
    BY <1>4, <1>6 DEF Taken
  <2>2. journal.len = 0
    BY <1>6 DEF NoJournal
  <2>3. QED  BY <1>1, <1>5, <1>6, <2>1, <2>2 DEF Begins, Journals
<1>7. CASE journal # NoJournal
  <2>1. journal' = [journal EXCEPT !.len = @ + 1, !.owner = p]
    BY <1>4, <1>7 DEF Taken
  <2>2. r.kind = "mutate" /\ journal.owner = r.takes
    BY <1>1, <1>3, <1>7 DEF Claims
  <2>3. journal.owner \in Attempts /\ HandedOver(journal.owner)
    BY <2>2 DEF IInv, ClaimInv
  <2>4. journal.owner # NoAttempt
    BY <2>3 DEF Attempts, NoAttempt
  <2>5. journal.owner # p
    BY <1>1, <2>3 DEF HandedOver
  <2>6. QED  BY <1>1, <1>5, <1>7, <2>1, <2>3, <2>4, <2>5 DEF ChangesHands, Journals
<1>8. QED  BY <1>6, <1>7

\* However late a finalizer wakes up and however many recoveries are given the same
\* claim, appendFinalizerJournal extends the journal by the stage that follows, or
\* hands the claim over as it is, from an attempt that is over.
THEOREM OneLine == Spec => JournalMovesOn
<1> DEFINE MovesOn == journal' # journal =>
             /\ journal'.len = journal.len + 1
             /\ journal # NoJournal => journal'.origin = journal.origin
             /\ Begins \/ Progresses \/ ChangesHands
<1>1. IInv /\ [Next]_vars => [MovesOn]_vars
  <2>1. SUFFICES ASSUME IInv, Next, journal' # journal
                 PROVE  MovesOn
    OBVIOUS
  <2>2. PICK p \in Attempts : Claim(p) \/ Advance(p)
    BY <2>1 DEF Next, World, Step, Start, Die, Read, Observe, Send, Verify, Look, AppendEvent,
                ReadEvent, Merge, Fail, Report, Publish, Land, Outsider, Developer
  <2>3. CASE Claim(p)
    BY <2>1, <2>3, ClaimBeginsOrTakes DEF Begins
  <2>4. CASE Advance(p)
    BY <2>1, <2>4, AdvanceProgresses
  <2>5. QED  BY <2>2, <2>3, <2>4
<1>2. QED  BY <1>1, Inductive, PTL DEF Spec, JournalMovesOn
===============================================================================
