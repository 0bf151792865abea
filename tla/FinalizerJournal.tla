---------------------------- MODULE FinalizerJournal ----------------------------
(***************************************************************************)
(* The finalizer of one queue entry (server/services/auto-finalizer.ts),   *)
(* its journal (finalizer-journal.ts) and the remote it writes to.         *)
(*                                                                         *)
(* A live attempt claims the journal and takes it from stage to stage: it  *)
(* records the intent, checks its lease, sends the request, reads the      *)
(* remote back and records the receipt.  When it stops half way,           *)
(* recoverFinalizerOnly observes the remote without writing, or takes the  *)
(* claim over and continues.  A request without an answer may still take   *)
(* effect, an attempt may die or be superseded while it stalls, and other  *)
(* people push.                                                            *)
(*                                                                         *)
(* Mode "remote" pushes to the source branch, closes the issue and merges  *)
(* into the local source; mode "pr" pushes a branch, creates a pull request *)
(* and publishes the pr_opened event.                                      *)
(*                                                                         *)
(* Spec lets any caller start a recovery under the contract of the API: a  *)
(* claim is taken over from an attempt that ended or died.  ScheduledSpec  *)
(* starts what the reconciler plans and the managed worker admits.         *)
(***************************************************************************)
EXTENDS Integers, Sequences, FiniteSets

CONSTANT MaxAttempts     \* bound on the attempts of the assignment
ASSUME FinalizerAssumption == MaxAttempts \in Nat \ {0}

Attempts == 1 .. MaxAttempts
NoAttempt == 0

VARIABLES
  mode,      \* finalize mode of the entry
  journal,   \* last record of the journal stream, with the stream's length
  stream,    \* pr_opened and finalizer_result events of the origin job
  remote,    \* what the remote holds
  flying,    \* requests whose transport gave up and that may still land
  source,    \* HEAD of the local source repository
  active,    \* attempt that holds the mutation lease
  proc       \* finalizer of each attempt

vars == <<mode, journal, stream, remote, flying, source, active, proc>>

NoJournal == [stage |-> "none", len |-> 0, owner |-> NoAttempt,
              origin |-> NoAttempt, cursor |-> 0]

\* seen: the journal as this finalizer last read it; obs: its last readback;
\* cursor: the event cursor of its readback; takes: whose claim it takes over.
Idle == [kind |-> "live", pc |-> "off", seen |-> NoJournal, obs |-> "unknown",
         cursor |-> 0, takes |-> NoAttempt]

Init ==
  /\ mode \in {"remote", "pr"}
  /\ journal = NoJournal /\ stream = <<>>
  /\ remote = [head |-> "base", landed |-> FALSE, closed |-> FALSE, prs |-> 0]
  /\ flying = {} /\ source = "base" /\ active = NoAttempt
  /\ proc = [p \in Attempts |-> Idle]

Resting == {"off", "ended", "gone", "dead", "refused"}
Acting(p) == proc[p].pc \notin Resting

-----------------------------------------------------------------------------
(* The journal *)

Chain ==
  IF mode = "remote"
  THEN <<"claimed", "push.intent", "push.receipt", "close.intent",
         "close.receipt", "remote.complete", "local.complete">>
  ELSE <<"claimed", "push.intent", "push.receipt", "create.intent",
         "create.receipt", "event.intent", "event.receipt", "event.complete">>

Final == Chain[Len(Chain)]
Rank(s) == IF s = "none" THEN 0 ELSE CHOOSE i \in 1 .. Len(Chain) : Chain[i] = s
Following(s) == Chain[Rank(s) + 1]
Reached(s) == \E i \in 1 .. Rank(journal.stage) : Chain[i] = s

Opened == {i \in 1 .. Len(stream) : stream[i] = "pr_opened"}

\* The readback of a record with a pr_opened receipt: one such event, and the
\* receipt's cursor ends at it.
Readable(j) == j.cursor = 0 \/ Opened = {j.cursor}

AnyCursor(r) == TRUE   \* mutant
SameCursor(r) == journal.len = r.seen.len

-----------------------------------------------------------------------------
(* The remote: a request lands or is refused; a readback says yes, no or unknown *)

\* The push carries --force-with-lease with the baseline that the claim bound to the
\* job, which no later record and no recovery changes.
Pushed(m) == IF m.head = "base" THEN [m EXCEPT !.head = "ours", !.landed = TRUE] ELSE m

Applied(m, s) ==
  CASE s = "push.intent"   -> Pushed(m)
    [] s = "close.intent"  -> [m EXCEPT !.closed = TRUE]
    [] s = "create.intent" -> [m EXCEPT !.prs = @ + 1]

\* A missing branch and a missing pull request are errors of the readback, and
\* an error is "unknown".
Readback(s) ==
  {"unknown"} \cup
  CASE s = "close.intent"  -> {IF remote.closed THEN "yes" ELSE "no"}
    [] s = "create.intent" -> IF remote.prs = 1 THEN {"yes"} ELSE {}
    [] s = "event.intent"  -> {IF Opened # {} THEN "yes" ELSE "no"}
    [] OTHER               -> IF remote.head = "ours" THEN {"yes"}
                              ELSE IF mode = "remote" THEN {"no"} ELSE {}

Trusting(v) == v # "no"   \* mutant
Confirmed(v) == v = "yes"

\* What a recovery may send although its intent was recorded by another attempt.
Resending(s, v) == v # "yes"   \* mutant
MayResend(s, v) == s \in {"close.intent", "event.intent"} /\ v = "no"

-----------------------------------------------------------------------------
(* Where a finalizer goes *)

To(r, pc) == [r EXCEPT !.pc = pc]

\* A live finalizer records its result in the job's events before it returns.
Stop(r) == To(r, IF r.kind = "live" THEN "report" ELSE "publish")

\* The mutation lease is checked, then the step taken.
Leased(p, r, pc) == IF active = p THEN To(r, pc) ELSE Stop(r)

\* A recovery goes by the readback it made before it continued.
AtPushIntent(p, r) ==
  CASE r.kind = "live" \/ r.obs = "no" -> Leased(p, r, "send")
    [] r.kind # "live" /\ r.obs = "yes" -> Leased(p, r, "append")
    [] OTHER -> Stop(r)

AtPushReceipt(p, r) ==
  IF r.kind = "mutate" /\ mode = "remote" /\ r.obs # "yes"
  THEN Stop(r)
  ELSE Leased(p, r, "append")

\* The next step after the record r.seen; a takeover reads back first what
\* another attempt may have done.
Proceed(p, r, takeover) ==
  LET s == r.seen.stage IN
  CASE s = Final             -> Stop(r)
    [] s = "push.intent"     -> AtPushIntent(p, r)
    [] s = "push.receipt"    -> AtPushReceipt(p, r)
    [] s = "close.intent"    -> IF r.kind = "live" THEN Leased(p, r, "send") ELSE To(r, "look")
    [] s = "create.intent"   -> IF takeover THEN To(r, "look") ELSE Leased(p, r, "send")
    [] s = "event.intent"    -> IF r.kind = "live" THEN Leased(p, r, "event") ELSE To(r, "look")
    [] s = "remote.complete" -> Leased(p, r, "merge")
    [] OTHER                 -> Leased(p, r, "append")

At(p, pc) == proc[p].pc = pc
Become(p, r) == proc' = [proc EXCEPT ![p] = r]

\* appendFinalizerJournal: the append is conditional on the cursor, then read back.
\* Its outcome may also be unknown to the writer although the event is stored.
Write(p, new, next) ==
  LET r == proc[p] IN
  IF SameCursor(r)
  THEN /\ journal' = new
       /\ \/ Become(p, IF Readable(new) THEN next ELSE Stop(r))
          \/ Become(p, Stop(r))
  ELSE journal' = journal /\ Become(p, Stop(r))

-----------------------------------------------------------------------------
(* Attempts *)

\* The claim of q may be handed over: q published its result, or is dead.
Superseded(q) == proc[q].pc # "off"   \* mutant
HandedOver(q) == proc[q].pc \in {"ended", "dead"}

\* The hub starts the next attempt; the one before loses its lease, stalled or not.
Start(p) ==
  /\ p = active + 1
  /\ active' = p
  /\ \/ Become(p, To(Idle, "read"))
     \/ p > 1 /\ Become(p, [To(Idle, "read") EXCEPT !.kind = "readonly"])
     \/ \E q \in 1 .. p - 1 :
          /\ HandedOver(q)
          /\ Become(p, [To(Idle, "read") EXCEPT !.kind = "mutate", !.takes = q])
  /\ UNCHANGED <<mode, journal, stream, remote, flying, source>>

\* Another job's journal does not match the binding of a live attempt.
Read(p) ==
  LET r == proc[p]
      n == [r EXCEPT !.seen = journal]
      legible == journal # NoJournal /\ Readable(journal) IN
  /\ At(p, "read")
  /\ Become(p,
       CASE r.kind = "live" -> IF journal = NoJournal THEN Leased(p, r, "claim") ELSE Stop(r)
         [] r.kind # "live" /\ ~legible -> Stop(r)
         [] r.kind = "mutate" /\ legible -> IF journal.owner = r.takes THEN Leased(p, n, "claim") ELSE Stop(n)
         [] OTHER -> IF journal.stage = Final THEN Stop(n) ELSE To(n, "observe"))
  /\ UNCHANGED <<mode, journal, stream, remote, flying, source, active>>

Restarted(p, j) ==   \* mutant: a takeover starts over
  [j EXCEPT !.stage = "claimed", !.len = @ + 1, !.owner = p,
            !.origin = IF j = NoJournal THEN p ELSE @]

\* The initial claim, or the takeover of one: the same stage under a new owner.
Taken(p, j) ==
  IF j = NoJournal
  THEN [j EXCEPT !.stage = "claimed", !.len = 1, !.owner = p, !.origin = p]
  ELSE [j EXCEPT !.len = @ + 1, !.owner = p]

Claim(p) ==
  LET r == proc[p]
      new == Taken(p, r.seen)
      n == [r EXCEPT !.seen = new] IN
  /\ At(p, "claim")
  /\ Write(p, new, IF r.kind = "live" THEN Proceed(p, n, FALSE)
                   ELSE IF new.stage = Final THEN Stop(n) ELSE To(n, "observe"))
  /\ UNCHANGED <<mode, stream, remote, flying, source, active>>

\* What a recovery reads back first: the push if it is to write, and the write
\* that the stage leaves open if it only observes.
Asked(r) == IF r.kind = "mutate" THEN "push.intent" ELSE r.seen.stage

Observe(p) ==
  /\ At(p, "observe")
  /\ \E v \in Readback(Asked(proc[p])) :
       LET n == [proc[p] EXCEPT !.obs = v] IN
       Become(p, IF n.kind = "mutate" THEN Proceed(p, n, TRUE) ELSE Stop(n))
  /\ UNCHANGED <<mode, journal, stream, remote, flying, source, active>>

\* The journal advances to the next stage; the readback's cursor is kept with it.
Advance(p) ==
  LET r == proc[p]
      t == Following(r.seen.stage)
      new == [r.seen EXCEPT !.stage = t, !.len = @ + 1,
                            !.cursor = IF t = "event.receipt" THEN r.cursor ELSE @] IN
  /\ At(p, "append")
  /\ Write(p, new, Proceed(p, [r EXCEPT !.seen = new], FALSE))
  /\ UNCHANGED <<mode, stream, remote, flying, source, active>>

\* The request lands, is refused, or stays without an answer.
Send(p) ==
  LET s == proc[p].seen.stage IN
  /\ At(p, "send")
  /\ \/ remote' = Applied(remote, s) /\ flying' = flying
     \/ UNCHANGED <<remote, flying>>
     \/ flying' = flying \cup {s} /\ remote' = remote
  /\ Become(p, To(proc[p], "verify"))
  /\ UNCHANGED <<mode, journal, stream, source, active>>

Land(s) ==
  /\ s \in flying
  /\ flying' = flying \ {s} /\ remote' = Applied(remote, s)
  /\ UNCHANGED <<mode, journal, stream, source, active, proc>>

\* The readback is authoritative, whatever the transport said.
Verify(p) ==
  LET r == proc[p] IN
  /\ At(p, "verify")
  /\ \E v \in Readback(r.seen.stage) :
       Become(p, IF Confirmed(v) THEN Leased(p, r, "append") ELSE Stop(r))
  /\ UNCHANGED <<mode, journal, stream, remote, flying, source, active>>

\* A recovery reads back before it decides to send.
Look(p) ==
  LET r == proc[p]
      s == r.seen.stage IN
  /\ At(p, "look")
  /\ \E v \in Readback(s) :
       Become(p,
         CASE v = "yes" -> Leased(p, [r EXCEPT !.cursor = Len(stream)], "append")
           [] v # "yes" /\ MayResend(s, v) -> Leased(p, r, IF s = "event.intent" THEN "event" ELSE "send")
           [] OTHER -> Stop(r))
  /\ UNCHANGED <<mode, journal, stream, remote, flying, source, active>>

AppendEvent(p) ==
  /\ At(p, "event")
  /\ stream' = Append(stream, "pr_opened")
  /\ Become(p, To(proc[p], "readEvent"))
  /\ UNCHANGED <<mode, journal, remote, flying, source, active>>

\* The cursor of the whole stream as it is read back.
ReadEvent(p) ==
  /\ At(p, "readEvent")
  /\ Become(p, Leased(p, [proc[p] EXCEPT !.cursor = Len(stream)], "append"))
  /\ UNCHANGED <<mode, journal, stream, remote, flying, source, active>>

\* Fast-forward of the local source; a recovery accepts one that is done.
Merge(p) ==
  LET r == proc[p] IN
  /\ At(p, "merge")
  /\ IF source = "base" \/ (r.kind = "mutate" /\ source = "ours")
     THEN source' = "ours" /\ Become(p, Leased(p, r, "append"))
     ELSE source' = source /\ Become(p, Stop(r))
  /\ UNCHANGED <<mode, journal, stream, remote, flying, active>>

\* Any call may throw.
Fail(p) ==
  /\ Acting(p) /\ proc[p].pc \notin {"report", "publish"}
  /\ Become(p, Stop(proc[p]))
  /\ UNCHANGED <<mode, journal, stream, remote, flying, source, active>>

\* recordFinalizerResult appends to the events of the attempt's own job.
Report(p) ==
  /\ At(p, "report")
  /\ stream' = IF journal.origin = p THEN Append(stream, "finalizer_result") ELSE stream
  /\ Become(p, To(proc[p], "publish"))
  /\ UNCHANGED <<mode, journal, remote, flying, source, active>>

\* The result is published under the lease, with the journal the finalizer last saw.
Publish(p) ==
  /\ At(p, "publish")
  /\ Become(p, To(proc[p], IF active = p THEN "ended" ELSE "gone"))
  /\ UNCHANGED <<mode, journal, stream, remote, flying, source, active>>

Die(p) ==
  /\ Acting(p)
  /\ Become(p, To(proc[p], "dead"))
  /\ UNCHANGED <<mode, journal, stream, remote, flying, source, active>>

Outsider ==
  /\ mode = "remote" /\ remote.head # "other"
  /\ remote' = [remote EXCEPT !.head = "other"]
  /\ UNCHANGED <<mode, journal, stream, flying, source, active, proc>>

Developer ==
  /\ mode = "remote" /\ source # "other" /\ source' = "other"
  /\ UNCHANGED <<mode, journal, stream, remote, flying, active, proc>>

Step(p) ==
  \/ Read(p) \/ Claim(p) \/ Observe(p) \/ Advance(p) \/ Send(p) \/ Verify(p)
  \/ Look(p) \/ AppendEvent(p) \/ ReadEvent(p) \/ Merge(p) \/ Fail(p)
  \/ Report(p) \/ Publish(p)

World ==
  \/ \E s \in flying : Land(s)
  \/ Outsider
  \/ Developer

Next ==
  \/ \E p \in Attempts : Start(p) \/ Step(p) \/ Die(p)
  \/ World

Spec == Init /\ [][Next]_vars

-----------------------------------------------------------------------------
(* What the reconciler schedules after a live attempt and the worker admits *)

\* The proof that a read-only result carries for the stage it stopped at.
Safe(r) ==
  /\ r.kind = "readonly"
  /\ CASE r.seen.stage \in {"push.intent", "close.intent", "event.intent"} -> r.obs # "unknown"
       [] r.seen.stage = "create.intent" -> r.obs = "yes"
       [] OTHER -> r.seen.stage \notin {"none", Final}

\* The plan: write if that is safe, observe otherwise; only a plan that writes
\* names the claim it takes over.
Plan(r) ==
  IF Safe(r)
  THEN [kind |-> "mutate", takes |-> r.seen.owner]
  ELSE [kind |-> "readonly", takes |-> NoAttempt]

\* The worker compares the plan's claim with the claim in the prior result.
Admitted(plan, r) == plan.takes = r.seen.owner

ScheduledStart(p) ==
  /\ p = active + 1
  /\ active' = p
  /\ IF p = 1
     THEN Become(p, To(Idle, "read"))
     ELSE LET r == proc[p - 1]
              plan == Plan(r) IN
          /\ r.pc = "ended" /\ r.seen.owner = p - 1 /\ r.seen.stage # Final
          /\ Become(p, [To(Idle, IF Admitted(plan, r) THEN "read" ELSE "refused")
                          EXCEPT !.kind = plan.kind, !.takes = plan.takes])
  /\ UNCHANGED <<mode, journal, stream, remote, flying, source>>

ScheduledSpec ==
  Init /\ [][(\E p \in Attempts : ScheduledStart(p) \/ Step(p) \/ Die(p)) \/ World]_vars

-----------------------------------------------------------------------------
(* Properties *)

Stages == {"none", "claimed", "push.intent", "push.receipt", "close.intent", "close.receipt",
           "remote.complete", "local.complete", "create.intent", "create.receipt",
           "event.intent", "event.receipt", "event.complete"}
Journals == [stage : Stages, len : Nat, owner : Attempts \cup {NoAttempt},
             origin : Attempts \cup {NoAttempt}, cursor : Nat]

\* Every variable has the type its name says.
TypeOK ==
  /\ mode \in {"remote", "pr"} /\ journal \in Journals
  /\ stream \in Seq({"pr_opened", "finalizer_result"})
  /\ remote \in [head : {"base", "ours", "other"}, landed : BOOLEAN,
                 closed : BOOLEAN, prs : 0 .. 1]
  /\ flying \subseteq {"push.intent", "close.intent", "create.intent"}
  /\ source \in {"base", "ours", "other"} /\ active \in Attempts \cup {NoAttempt}
  /\ proc \in [Attempts ->
       [kind : {"live", "readonly", "mutate"},
        pc : Resting \cup {"read", "claim", "observe", "append", "send", "verify",
                           "look", "event", "readEvent", "merge", "report", "publish"},
        seen : Journals, obs : {"yes", "no", "unknown"}, cursor : Nat,
        takes : Attempts \cup {NoAttempt}]]

\* However often the finalizer stops, dies and is taken over, and however late a
\* request lands, there is one pull request and one pr_opened event.
NothingTwice ==
  /\ remote.prs + Cardinality(flying \cap {"create.intent"}) <= 1
  /\ Cardinality(Opened) <= 1

\* A receipt in the journal is true of the world: the commit did land, the issue was
\* closed, the pull request and its event exist, the source has left its old HEAD.
ReceiptsAreTrue ==
  /\ Reached("push.receipt") => remote.landed
  /\ Reached("close.receipt") => remote.closed
  /\ Reached("create.receipt") => remote.prs = 1
  /\ Reached("event.receipt") => Opened # {}
  /\ Reached("local.complete") => source # "base"

\* Nothing is done, and nothing is under way, that the journal does not show as
\* intended, and nothing before the step it depends on has been confirmed.
EffectsAreIntended ==
  /\ remote.landed \/ "push.intent" \in flying => Reached("push.intent")
  /\ remote.closed \/ "close.intent" \in flying => Reached("close.intent")
  /\ remote.prs = 1 \/ "create.intent" \in flying => Reached("create.intent")
  /\ Opened # {} => Reached("event.intent")
  /\ source = "ours" => Reached("remote.complete")

\* Whoever is about to write to the remote, the events or the source holds the
\* claim, also when it was superseded while it stalled.
SoleMutator ==
  \A p \in Attempts : proc[p].pc \in {"send", "event", "merge"} => journal.owner = p

Begins == journal = NoJournal /\ journal'.stage = "claimed" /\ journal'.owner # NoAttempt
Progresses ==
  /\ journal.stage \notin {"none", Final} /\ journal'.stage = Following(journal.stage)
  /\ journal'.owner = journal.owner
ChangesHands ==
  /\ journal.owner # NoAttempt /\ HandedOver(journal.owner)
  /\ journal'.owner \notin {journal.owner, NoAttempt}
  /\ journal'.stage = journal.stage /\ journal'.cursor = journal.cursor

\* Finalizers read the journal, stall, are superseded and append much later, several
\* recoveries with the same claim to take over.  Still the journal is one line: each
\* record follows the last one in the stream, either at the next stage under the
\* same owner, or at the same stage under a new one, and the claim is never taken
\* from an attempt that has neither published its result nor died.  So no
\* intent or receipt is lost, skipped or recorded again from an old reading.
JournalMovesOn ==
  [][journal' # journal =>
       /\ journal'.len = journal.len + 1
       /\ journal # NoJournal => journal'.origin = journal.origin
       /\ Begins \/ Progresses \/ ChangesHands]_vars

\* A recovery that the reconciler schedules to "reconcile read-only first" is
\* admitted by the worker it is dispatched to.
ObservationsAreAdmitted == \A p \in Attempts : ~At(p, "refused")
=============================================================================
