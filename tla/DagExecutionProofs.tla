-------------------------- MODULE DagExecutionProofs --------------------------
(***************************************************************************)
(* Proofs about DagExecution, for any plan and any limits.                 *)
(*                                                                         *)
(* A wave is the only thing that buffers, so the log and the artifacts are *)
(* settled whenever no wave runs (WaveInv); the scheduler comes to the     *)
(* nodes that run alone in plan order (VerifyInv), and therefore whoever   *)
(* makes a new candidate has every verifier still before it.               *)
(***************************************************************************)
EXTENDS DagExecution, SequenceTheorems, WellFoundedInduction, TLAPS

Loop == [kind : {"none", "repair", "retry"}, todo : Seq(Nodes), suffix : Seq(Nodes),
         round : 0 .. Max({MaxRepairs, MaxRetries})]

\* The types TypeOK leaves out.
SeqType ==
  /\ {todo, batch, noticed, order} \subseteq Seq(Nodes) /\ loop \in Loop
  /\ loop.kind = "none" => loop = NoLoop

\* Whether the job runs, and what is left to do where.
ControlInv ==
  /\ job = "running" <=> step # "ended"
  /\ step # "ended" => completed = resumed \cup executed
  /\ step \in {"schedule", "wave", "gate"} => loop = NoLoop /\ todo = <<>>
  /\ step \in {"node", "running"} /\ loop = NoLoop => todo # <<>>
  /\ step = "gate" => executed = Nodes

Working == {"deciding", "running", "reserving", "prepared"}
Increasing(s) == \A i, j \in DOMAIN s : i < j => Position(s[i]) < Position(s[j])

\* The buffers are open as long as the wave runs.  Its nodes are new to the
\* log, and nothing else works on an artifact meanwhile.
WaveInv ==
  /\ step = "wave" <=> ~sealed
  /\ step \notin {"wave", "ended"} => \A n \in Nodes : run[n] \notin Working
  /\ step = "wave" =>
       /\ \A n \in Nodes : run[n] \in Working => n \in Wave
       /\ \A n \in Wave : n \notin executed \cup resumed /\ PhaseOf[n] = "review"
       /\ \A n \in ToSet(noticed) : n \in Wave /\ run[n] = "passed"
  /\ Increasing(batch)
  /\ step # "ended" => ToSet(order) \subseteq executed

\* The log of a node that was executed is settled, unless the node runs again.
LogInv ==
  step # "ended" =>
    \A n \in executed \ (Verifiers \cup resumed) :
      durable[n] \in {"none", "started"} => step = "running" /\ n = Current

IInv == TypeOK /\ SeqType /\ ControlInv /\ WaveInv /\ LogInv
        /\ CancellationReaches /\ StableOrder /\ ArtifactsAccounted

\* No executor comes after a verifier, as in every workflow of
\* core/workflow/definition.ts.
ExecutorsFirst ==
  \A e \in Nodes, v \in Verifiers : PhaseOf[e] = "execute" => Position(e) < Position(v)

\* What will run, if nothing fails.
Coming == (Nodes \ executed) \cup ToSet(todo) \cup ToSet(loop.todo)

\* Nodes that run alone come in plan order; what is left of a list is all of it
\* from some node on.
OrderInv ==
  /\ \A m \in executed : PhaseOf[m] # "review" =>
       \A n \in Nodes : Position(n) < Position(m) => n \in executed
  /\ \A m \in ToSet(todo) \ executed : \A n \in Nodes : Position(n) < Position(m) => n \in executed
  /\ Increasing(todo)
  /\ \A n \in ToSet(todo), v \in Verifiers :
       Position(n) < Position(v) => v \in ToSet(todo) \cup (Nodes \ executed)

\* A loop reruns verifiers up to the one that failed, the executor before all
\* of them; those it does not rerun are still to come.
FromVerify(s) == {i \in DOMAIN s : PhaseOf[s[i]] = "verify"}
LoopInv ==
  loop # NoLoop =>
    /\ ToSet(loop.suffix) \subseteq Verifiers \cap executed /\ ToSet(loop.todo) \subseteq executed
    /\ Verifiers \subseteq ToSet(loop.suffix) \cup ToSet(todo) \cup (Nodes \ executed)
    /\ ToSet(loop.todo) \cap Verifiers \subseteq ToSet(loop.suffix)
    /\ ToSet(loop.todo) \subseteq Verifiers \/ Tail(loop.todo) = loop.suffix
    /\ loop.kind = "retry" =>
         /\ FromVerify(loop.suffix) = {} => Len(loop.todo) = 1
         /\ FromVerify(loop.suffix) # {} =>
              ToSet(loop.todo) \subseteq
                ToSet(SubSeq(loop.suffix, Min(FromVerify(loop.suffix)), Len(loop.suffix)))

VerifyInv ==
  /\ step # "ended" => OrderInv /\ LoopInv /\ Verifiers \subseteq validated \cup Coming
  /\ CompletedIsVerified

-------------------------------------------------------------------------------
(* Numbers and sequences.                                                    *)

\* A nonempty set of numbers has a least one, and a greatest if it is bounded.
LEMMA Least ==
  ASSUME NEW T \in SUBSET Nat, T # {}
  PROVE  Min(T) \in T /\ \A y \in T : Min(T) <= y
<1> DEFINE R == {ss \in Nat \X Nat : ss[1] < ss[2]}
<1>1. IsWellFoundedOn(R, Nat)
  BY NatLessThanWellFounded, Zenon DEF OpToRel
<1>2. \A x, y \in Nat : y < x => <<y, x>> \in R
  OBVIOUS
<1> HIDE DEF R
<1>3. PICK x \in T : \A y \in T : ~(<<y, x>> \in R)
  BY <1>1, WFMin
<1>4. ASSUME NEW y \in T PROVE x <= y
  <2>1. x \in Nat /\ y \in Nat
    OBVIOUS
  <2>2. ~(y < x)
    BY <1>2, <1>3, <2>1
  <2> QED
    BY <2>1, <2>2
<1>5. \E x0 \in T : \A y \in T : x0 <= y
  BY <1>4
<1> QED
  BY <1>5, Zenon DEF Min

\* A nonempty set of numbers up to N has a greatest one.
LEMMA Greatest ==
  ASSUME NEW N \in Nat, NEW T \in SUBSET (0 .. N), T # {}
  PROVE  Max(T) \in T /\ \A y \in T : Max(T) >= y
<1> DEFINE U == {N - x : x \in T}
<1>1. U \in SUBSET Nat /\ U # {}
  <2>1. \A x \in T : N - x \in Nat
    OBVIOUS
  <2>2. \E x \in T : TRUE
    OBVIOUS
  <2> QED
    BY <2>1, <2>2
<1> HIDE DEF U
<1>2. Min(U) \in U /\ \A u \in U : Min(U) <= u
  BY <1>1, Least
<1>3. PICK x \in T : Min(U) = N - x
  BY <1>2 DEF U
<1>4. ASSUME NEW y \in T PROVE x >= y
  <2>1. N - y \in U
    BY DEF U
  <2>2. N - x <= N - y /\ x \in 0 .. N /\ y \in 0 .. N
    BY <1>2, <1>3, <2>1
  <2> QED
    BY <2>2
<1>5. \E x0 \in T : \A y \in T : x0 >= y
  BY <1>4
<1> QED
  BY <1>5, Zenon DEF Max

\* Induction on the numbers up to N, as the absence of a first exception.
LEMMA FirstException ==
  ASSUME NEW N \in Nat, NEW Bad \in SUBSET (0 .. N), 0 \notin Bad,
         \A n \in 1 .. N : n - 1 \notin Bad => n \notin Bad
  PROVE  Bad = {}
<1> SUFFICES ASSUME Bad # {} PROVE FALSE
  OBVIOUS
<1>1. Bad \in SUBSET Nat
  OBVIOUS
<1>2. Min(Bad) \in Bad /\ \A m \in Bad : Min(Bad) <= m
  BY <1>1, Least
<1>3. \A n \in 0 .. N : n # 0 => n \in 1 .. N /\ ~(n <= n - 1)
  OBVIOUS
<1> QED
  BY <1>2, <1>3

\* A sequence and the set of its elements.
LEMMA Members ==
  ASSUME NEW S, NEW s \in Seq(S)
  PROVE  /\ Len(s) \in Nat /\ DOMAIN s = 1 .. Len(s)
         /\ ToSet(s) \subseteq S /\ s \in Seq(ToSet(s))
         /\ \A i \in DOMAIN s : s[i] \in ToSet(s)
         /\ \A x \in ToSet(s) : \E i \in DOMAIN s : s[i] = x
         /\ ToSet(s) = {} <=> s = <<>>
         /\ s = <<>> <=> Len(s) = 0
<1>1. Len(s) \in Nat /\ DOMAIN s = 1 .. Len(s) /\ s \in [1 .. Len(s) -> S]
  BY LenProperties
<1>2. ToSet(s) \subseteq S /\ s \in [1 .. Len(s) -> ToSet(s)]
  BY <1>1 DEF ToSet
<1>3. s \in Seq(ToSet(s))
  BY <1>1, <1>2
<1>4. s = <<>> <=> Len(s) = 0
  BY <1>1, EmptySeq
<1>5. /\ \A i \in DOMAIN s : s[i] \in ToSet(s)
      /\ \A x \in ToSet(s) : \E i \in DOMAIN s : s[i] = x
  BY DEF ToSet
<1>6. ToSet(s) = {} => Len(s) = 0
  <2> SUFFICES ASSUME ToSet(s) = {}, Len(s) # 0 PROVE FALSE
    OBVIOUS
  <2>1. 1 \in 1 .. Len(s)
    BY <1>1
  <2> QED
    BY <1>1, <1>5, <2>1
<1>7. Len(s) = 0 => ToSet(s) = {}
  <2> SUFFICES ASSUME NEW x \in ToSet(s), Len(s) = 0 PROVE FALSE
    OBVIOUS
  <2> QED
    BY <1>1, <1>5
<1> QED
  BY <1>1, <1>2, <1>3, <1>4, <1>5, <1>6, <1>7

\* A nonempty sequence is its head and its tail.
LEMMA HeadAndTail ==
  ASSUME NEW S, NEW s \in Seq(S), s # <<>>
  PROVE  /\ Head(s) \in S /\ Tail(s) \in Seq(S)
         /\ s[1] = Head(s) /\ Len(Tail(s)) = Len(s) - 1
         /\ \A i \in 1 .. Len(s) - 1 : Tail(s)[i] = s[i + 1]
         /\ ToSet(s) = {Head(s)} \cup ToSet(Tail(s))
<1>1. Len(s) \in Nat \ {0} /\ DOMAIN s = 1 .. Len(s)
  BY EmptySeq, Members
<1>2. /\ Head(s) \in S /\ Tail(s) \in Seq(S) /\ Len(Tail(s)) = Len(s) - 1
      /\ \A i \in 1 .. Len(s) - 1 : Tail(s)[i] = s[i + 1]
  BY HeadTailProperties
<1>3. s[1] = Head(s)
  BY <1>1
<1>4. DOMAIN Tail(s) = 1 .. Len(s) - 1
  BY <1>2, LenProperties
<1>5. \A i \in 1 .. Len(s) : i = 1 \/ (i - 1 \in 1 .. Len(s) - 1 /\ (i - 1) + 1 = i)
  BY <1>1
<1>6. \A i \in 1 .. Len(s) - 1 : i + 1 \in 1 .. Len(s)
  BY <1>1
<1>7. ToSet(s) = {Head(s)} \cup ToSet(Tail(s))
  <2>1. ASSUME NEW x \in ToSet(s) PROVE x \in {Head(s)} \cup ToSet(Tail(s))
    <3>1. PICK i \in 1 .. Len(s) : x = s[i]
      BY <1>1, <2>1 DEF ToSet
    <3>2. CASE i = 1
      BY <1>3, <3>1, <3>2
    <3>3. CASE i # 1
      <4>1. i - 1 \in 1 .. Len(s) - 1 /\ Tail(s)[i - 1] = s[i]
        BY <1>1, <1>2, <1>5, <3>3
      <4> QED
        BY <1>4, <3>1, <4>1 DEF ToSet
    <3> QED
      BY <3>2, <3>3
  <2>2. ASSUME NEW x \in ToSet(Tail(s)) PROVE x \in ToSet(s)
    <3>1. PICK i \in 1 .. Len(s) - 1 : x = Tail(s)[i]
      BY <1>4, <2>2 DEF ToSet
    <3> QED
      BY <1>1, <1>2, <1>6, <3>1 DEF ToSet
  <2>3. Head(s) \in ToSet(s)
    BY <1>1, <1>3 DEF ToSet
  <2> QED
    BY <2>1, <2>2, <2>3
<1> QED
  BY <1>2, <1>3, <1>7

\* Append adds one element, behind the others.
LEMMA Appended ==
  ASSUME NEW S, NEW s \in Seq(S), NEW x \in S
  PROVE  /\ Append(s, x) \in Seq(S) /\ ToSet(Append(s, x)) = ToSet(s) \cup {x}
         /\ DOMAIN Append(s, x) = 1 .. Len(s) + 1
         /\ \A i \in 1 .. Len(s) : Append(s, x)[i] = s[i]
         /\ Append(s, x)[Len(s) + 1] = x
<1>1. /\ Append(s, x) \in Seq(S) /\ Len(Append(s, x)) = Len(s) + 1
      /\ \A i \in 1 .. Len(s) : Append(s, x)[i] = s[i]
      /\ Append(s, x)[Len(s) + 1] = x /\ Len(s) \in Nat
  BY AppendProperties, LenProperties
<1>2. DOMAIN Append(s, x) = 1 .. Len(s) + 1 /\ DOMAIN s = 1 .. Len(s)
  BY <1>1, LenProperties
<1>3. \A i \in 1 .. Len(s) + 1 : i \in 1 .. Len(s) \/ i = Len(s) + 1
  BY <1>1
<1>4. 1 .. Len(s) \subseteq 1 .. Len(s) + 1 /\ Len(s) + 1 \in 1 .. Len(s) + 1
  BY <1>1
<1>5. \A y \in ToSet(Append(s, x)) : y \in ToSet(s) \cup {x}
  BY <1>1, <1>2, <1>3 DEF ToSet
<1>6. \A y \in ToSet(s) \cup {x} : y \in ToSet(Append(s, x))
  BY <1>1, <1>2, <1>4 DEF ToSet
<1> QED
  BY <1>1, <1>2, <1>5, <1>6

\* A concatenation holds the elements of both sequences, in their order.
LEMMA Concatenated ==
  ASSUME NEW S, NEW s \in Seq(S), NEW t \in Seq(S)
  PROVE  /\ s \o t \in Seq(S) /\ ToSet(s \o t) = ToSet(s) \cup ToSet(t)
         /\ DOMAIN (s \o t) = 1 .. Len(s) + Len(t)
         /\ \A i \in 1 .. Len(s) + Len(t) :
              (s \o t)[i] = IF i <= Len(s) THEN s[i] ELSE t[i - Len(s)]
<1>1. /\ s \o t \in Seq(S) /\ Len(s \o t) = Len(s) + Len(t)
      /\ \A i \in 1 .. Len(s) + Len(t) :
           (s \o t)[i] = IF i <= Len(s) THEN s[i] ELSE t[i - Len(s)]
      /\ Len(s) \in Nat /\ Len(t) \in Nat
  BY ConcatProperties, LenProperties
<1>2. DOMAIN (s \o t) = 1 .. Len(s) + Len(t) /\ DOMAIN s = 1 .. Len(s) /\ DOMAIN t = 1 .. Len(t)
  BY <1>1, LenProperties
<1>3. ASSUME NEW x \in ToSet(s \o t) PROVE x \in ToSet(s) \cup ToSet(t)
  <2>1. PICK i \in 1 .. Len(s) + Len(t) : x = (s \o t)[i]
    BY <1>2, <1>3 DEF ToSet
  <2>2. CASE i <= Len(s)
    BY <1>1, <1>2, <2>1, <2>2 DEF ToSet
  <2>3. CASE ~(i <= Len(s))
    <3>1. i - Len(s) \in 1 .. Len(t) /\ x = t[i - Len(s)]
      BY <1>1, <2>1, <2>3
    <3> QED
      BY <1>2, <3>1 DEF ToSet
  <2> QED
    BY <2>2, <2>3
<1>4. ASSUME NEW x \in ToSet(s) PROVE x \in ToSet(s \o t)
  <2>1. PICK i \in 1 .. Len(s) : x = s[i]
    BY <1>2, <1>4 DEF ToSet
  <2>2. i \in 1 .. Len(s) + Len(t) /\ i <= Len(s)
    BY <1>1
  <2> QED
    BY <1>1, <1>2, <2>1, <2>2 DEF ToSet
<1>5. ASSUME NEW x \in ToSet(t) PROVE x \in ToSet(s \o t)
  <2>1. PICK i \in 1 .. Len(t) : x = t[i]
    BY <1>2, <1>5 DEF ToSet
  <2>2. i + Len(s) \in 1 .. Len(s) + Len(t) /\ ~(i + Len(s) <= Len(s)) /\ (i + Len(s)) - Len(s) = i
    BY <1>1
  <2> QED
    BY <1>1, <1>2, <2>1, <2>2 DEF ToSet
<1> QED
  BY <1>1, <1>2, <1>3, <1>4, <1>5

\* A nonempty part of a sequence.
LEMMA Slice ==
  ASSUME NEW S, NEW s \in Seq(S), NEW m \in DOMAIN s, NEW k \in m .. Len(s)
  PROVE  /\ SubSeq(s, m, k) \in Seq(S) /\ SubSeq(s, m, k) # <<>>
         /\ Len(SubSeq(s, m, k)) = k - m + 1
         /\ \A i \in 1 .. k - m + 1 : SubSeq(s, m, k)[i] = s[m + i - 1]
         /\ ToSet(SubSeq(s, m, k)) = {s[i] : i \in m .. k}
<1>1. Len(s) \in Nat /\ DOMAIN s = 1 .. Len(s) /\ m \in 1 .. Len(s) /\ k \in 1 .. Len(s)
  BY Members
<1>2. \A i \in m .. k : s[i] \in S
  BY <1>1, Members
<1> DEFINE r == SubSeq(s, m, k)
<1>3. /\ r \in Seq(S) /\ Len(r) = k - m + 1
      /\ \A i \in 1 .. k - m + 1 : r[i] = s[m + i - 1]
  BY <1>1, <1>2, SubSeqProperties
<1> HIDE DEF r
<1>4. DOMAIN r = 1 .. k - m + 1 /\ r # <<>>
  BY <1>1, <1>3, Members
<1>5. ASSUME NEW x \in ToSet(r) PROVE x \in {s[i] : i \in m .. k}
  <2>1. PICK i \in 1 .. k - m + 1 : x = r[i]
    BY <1>4, <1>5 DEF ToSet
  <2>2. m + i - 1 \in m .. k
    BY <1>1
  <2> QED
    BY <1>3, <2>1, <2>2
<1>6. ASSUME NEW i \in m .. k PROVE s[i] \in ToSet(r)
  <2>1. i - m + 1 \in 1 .. k - m + 1 /\ m + (i - m + 1) - 1 = i
    BY <1>1
  <2> QED
    BY <1>3, <1>4, <2>1 DEF ToSet
<1> QED
  BY <1>3, <1>4, <1>5, <1>6 DEF r

\* Among keeps what is in S, in the order it was in.
LEMMA AmongIs ==
  ASSUME NEW T, NEW s \in Seq(T), NEW S
  PROVE  /\ Among(s, S) \in Seq(T) /\ ToSet(Among(s, S)) = ToSet(s) \cap S
         /\ \A i, j \in DOMAIN Among(s, S) : i < j =>
              \E k, l \in DOMAIN s : k < l /\ s[k] = Among(s, S)[i] /\ s[l] = Among(s, S)[j]
<1> DEFINE Solves(f, n) ==
      f = [k \in 0 .. n |->
             IF k = 0 THEN <<>> ELSE IF s[k] \in S THEN Append(f[k - 1], s[k]) ELSE f[k - 1]]
           a == CHOOSE f : Solves(f, Len(s))
           Good(t, k) ==
             /\ t \in Seq(T)
             /\ \A x : x \in ToSet(t) <=> x \in S /\ \E i \in 1 .. k : s[i] = x
             /\ \A i, j \in DOMAIN t : i < j =>
                  \E m, l \in 1 .. k : m < l /\ s[m] = t[i] /\ s[l] = t[j]
<1>1. Len(s) \in Nat /\ DOMAIN s = 1 .. Len(s)
  BY Members
<1>2. Solves(a, Len(s))
  <2> DEFINE Bad == {n \in 0 .. Len(s) : ~\E f : Solves(f, n)}
             z == [k \in 0 .. 0 |-> <<>>]
  <2>1. Solves(z, 0)
    OBVIOUS
  <2>2. 0 \notin Bad
    <3> HIDE DEF Solves, z
    <3> QED
      BY <2>1
  <2>3. ASSUME NEW n \in 1 .. Len(s), n - 1 \notin Bad PROVE n \notin Bad
   <3>1. n \in 0 .. Len(s) /\ n - 1 \in 0 .. Len(s) /\ n # 0 /\ n \in Nat
     BY <1>1
   <3>2. PICK f : Solves(f, n - 1)
     <4> HIDE DEF Solves
     <4> QED
       BY <2>3, <3>1
   <3> DEFINE last == IF s[n] \in S THEN Append(f[n - 1], s[n]) ELSE f[n - 1]
              g == [k \in 0 .. n |-> IF k = n THEN last ELSE f[k]]
   <3>3. Solves(g, n)
     <4>1. \A k \in 0 .. n : k = n \/ k \in 0 .. n - 1
       BY <1>1, <3>1
     <4>2. ASSUME NEW k \in 0 .. n
           PROVE  g[k] = IF k = 0 THEN <<>> ELSE IF s[k] \in S THEN Append(g[k - 1], s[k]) ELSE g[k - 1]
       <5>1. CASE k = n
         <6>1. n - 1 \in 0 .. n /\ n - 1 # n
           BY <1>1, <3>1
         <6>2. g[n - 1] = f[n - 1] /\ g[k] = last
           BY <5>1, <6>1
         <6> QED
           BY <3>1, <5>1, <6>2
       <5>2. CASE k # n /\ k = 0
         <6>1. g[k] = f[k] /\ k \in 0 .. n - 1
           BY <4>1, <5>2
         <6> QED
           BY <3>2, <5>2, <6>1
       <5>3. CASE k # n /\ k # 0
         <6>1. g[k] = f[k] /\ k \in 0 .. n - 1
           BY <4>1, <5>3
         <6>2. k - 1 \in 0 .. n /\ k - 1 # n
           BY <1>1, <3>1, <5>3, <6>1
         <6>3. g[k - 1] = f[k - 1]
           BY <6>2
         <6>4. f[k] = IF k = 0 THEN <<>> ELSE IF s[k] \in S THEN Append(f[k - 1], s[k]) ELSE f[k - 1]
           BY <3>2, <6>1
         <6> QED
           BY <5>3, <6>1, <6>3, <6>4
       <5> QED
         BY <5>1, <5>2, <5>3
     <4>3. g = [k \in 0 .. n |-> g[k]]
       OBVIOUS
     <4> HIDE DEF g
     <4> QED
       BY <4>2, <4>3
   <3> HIDE DEF Solves, g
   <3> QED
     BY <3>3
  <2>4. Bad = {}
    <3> HIDE DEF Bad
    <3>1. Bad \in SUBSET (0 .. Len(s))
      BY DEF Bad
    <3> QED
      BY <1>1, <2>2, <2>3, <3>1, FirstException
  <2>5. \E f : Solves(f, Len(s))
    <3>1. Len(s) \in 0 .. Len(s)
      BY <1>1
    <3> HIDE DEF Solves
    <3> QED
      BY <2>4, <3>1
  <2> HIDE DEF Solves
  <2> QED
    BY <2>5
<1>3. /\ a[0] = <<>>
      /\ \A k \in 1 .. Len(s) : a[k] = IF s[k] \in S THEN Append(a[k - 1], s[k]) ELSE a[k - 1]
  <2> HIDE DEF a
  <2>1. 0 \in 0 .. Len(s) /\ \A k \in 1 .. Len(s) : k \in 0 .. Len(s) /\ k # 0
    BY <1>1
  <2> QED
    BY <1>2, <2>1
<1>4. Among(s, S) = a[Len(s)]
  BY DEF Among
<1> HIDE DEF a
<1>5. \A k \in 0 .. Len(s) : Good(a[k], k)
  <2> DEFINE Bad == {k \in 0 .. Len(s) : ~Good(a[k], k)}
  <2>1. Good(<<>>, 0)
    <3>1. <<>> \in Seq(T) /\ DOMAIN <<>> = {} /\ ToSet(<<>>) = {}
      BY EmptySeq, Members
    <3>2. \A i \in 1 .. 0 : FALSE
      OBVIOUS
    <3> QED
      BY <3>1, <3>2
  <2>2. 0 \notin Bad
    <3> HIDE DEF Good
    <3> QED
      BY <1>3, <2>1
  <2>3. ASSUME NEW n \in 1 .. Len(s), n - 1 \notin Bad PROVE n \notin Bad
    <3> DEFINE t == a[n - 1]
               r == a[n]
    <3>1. n \in Nat /\ n - 1 \in 0 .. Len(s)
      BY <1>1
    <3>2. Good(t, n - 1)
      <4> HIDE DEF Good
      <4> QED
        BY <2>3, <3>1
    <3>3. r = IF s[n] \in S THEN Append(t, s[n]) ELSE t
      BY <1>3
    <3>4. s[n] \in T
      BY <1>1, Members
    <3> HIDE DEF t, r
    <3>5. /\ \A i \in 1 .. n - 1 : i \in 1 .. n /\ i < n
          /\ \A i \in 1 .. n : i \in 1 .. n - 1 \/ i = n
          /\ n \in 1 .. n
      BY <1>1, <3>1
    <3>6. ASSUME s[n] \notin S PROVE Good(r, n)
      <4>1. \A x : x \in ToSet(t) <=> x \in S /\ \E i \in 1 .. n : s[i] = x
        BY <3>2, <3>5, <3>6
      <4>2. \A i, j \in DOMAIN t : i < j =>
              \E m, l \in 1 .. n : m < l /\ s[m] = t[i] /\ s[l] = t[j]
        BY <3>2, <3>5
      <4>3. r = t
        BY <3>3, <3>6
      <4> QED
        BY <3>2, <4>1, <4>2, <4>3
    <3>7. ASSUME s[n] \in S PROVE Good(r, n)
      <4>1. r = Append(t, s[n]) /\ t \in Seq(T)
        BY <3>2, <3>3, <3>7
      <4>2. /\ r \in Seq(T) /\ ToSet(r) = ToSet(t) \cup {s[n]}
            /\ DOMAIN r = 1 .. Len(t) + 1
            /\ \A i \in 1 .. Len(t) : r[i] = t[i]
            /\ r[Len(t) + 1] = s[n]
            /\ DOMAIN t = 1 .. Len(t) /\ Len(t) \in Nat
        BY <3>4, <4>1, Appended, Members
      <4>3. \A x : x \in ToSet(r) <=> x \in S /\ \E i \in 1 .. n : s[i] = x
        BY <3>2, <3>5, <3>7, <4>2
      <4>4. ASSUME NEW i \in DOMAIN r, NEW j \in DOMAIN r, i < j
            PROVE  \E m, l \in 1 .. n : m < l /\ s[m] = r[i] /\ s[l] = r[j]
        <5>1. i \in 1 .. Len(t) /\ r[i] = t[i] /\ t[i] \in ToSet(t)
          BY <4>2, <4>4 DEF ToSet
        <5>2. PICK m \in 1 .. n - 1 : s[m] = r[i]
          BY <3>2, <5>1
        <5>3. CASE j = Len(t) + 1
          BY <3>5, <4>2, <5>2, <5>3
        <5>4. CASE j # Len(t) + 1
          <6>1. j \in 1 .. Len(t) /\ r[j] = t[j]
            BY <4>2, <4>4, <5>4
          <6>2. i \in DOMAIN t /\ j \in DOMAIN t
            BY <4>2, <5>1, <6>1
          <6>3. PICK k, l \in 1 .. n - 1 : k < l /\ s[k] = t[i] /\ s[l] = t[j]
            BY <3>2, <4>4, <6>2
          <6> QED
            BY <3>5, <5>1, <6>1, <6>3
        <5> QED
          BY <5>3, <5>4
      <4> QED
        BY <4>2, <4>3, <4>4
    <3> HIDE DEF Good
    <3> QED
      BY <3>6, <3>7 DEF r
  <2>4. Bad = {}
    <3> HIDE DEF Bad
    <3>1. Bad \in SUBSET (0 .. Len(s))
      BY DEF Bad
    <3> QED
      BY <1>1, <2>2, <2>3, <3>1, FirstException
  <2> HIDE DEF Good
  <2> QED
    BY <2>4
<1>6. Good(Among(s, S), Len(s))
  <2>1. Len(s) \in 0 .. Len(s)
    BY <1>1
  <2> HIDE DEF Good
  <2> QED
    BY <1>4, <1>5, <2>1
<1>7. \A x : x \in ToSet(s) <=> \E i \in 1 .. Len(s) : s[i] = x
  BY <1>1 DEF ToSet
<1> QED
  BY <1>1, <1>6, <1>7

-------------------------------------------------------------------------------
(* Positions in the plan, and the lists the executor makes of them.          *)

\* No node is in the plan twice, so a node has one position.
LEMMA Positions ==
  /\ Plan \in Seq(Nodes) /\ Len(Plan) \in Nat /\ DOMAIN Plan = 1 .. Len(Plan)
  /\ \A n \in Nodes : Position(n) \in 1 .. Len(Plan) /\ Position(n) \in Nat /\ Plan[Position(n)] = n
  /\ \A i \in 1 .. Len(Plan) : Plan[i] \in Nodes /\ Position(Plan[i]) = i
  /\ \A m, n \in Nodes : Position(m) = Position(n) => m = n
<1>1. Plan \in Seq(Nodes) /\ Len(Plan) \in Nat /\ DOMAIN Plan = 1 .. Len(Plan)
  BY DagAssumption, Members
<1>2. ASSUME NEW n \in Nodes
      PROVE  Position(n) \in 1 .. Len(Plan) /\ Position(n) \in Nat /\ Plan[Position(n)] = n
  <2>1. \E i \in 1 .. Len(Plan) : Plan[i] = n
    BY <1>1, Members DEF Nodes
  <2>2. Position(n) \in 1 .. Len(Plan) /\ Plan[Position(n)] = n
    BY <2>1, Zenon DEF Position
  <2> QED
    BY <1>1, <2>2
<1>3. ASSUME NEW i \in 1 .. Len(Plan) PROVE Plan[i] \in Nodes /\ Position(Plan[i]) = i
  <2>1. Plan[i] \in Nodes
    BY <1>1, Members
  <2>2. Position(Plan[i]) \in DOMAIN Plan /\ i \in DOMAIN Plan /\ Plan[Position(Plan[i])] = Plan[i]
    BY <1>1, <1>2, <2>1
  <2> QED
    BY <2>1, <2>2, DagAssumption, Zenon DEF IsInjective
<1> QED
  BY <1>1, <1>2, <1>3

\* What is taken from a list in plan order is in plan order.
LEMMA OrderOfAmong ==
  ASSUME NEW s \in Seq(Nodes), NEW S, Increasing(s)
  PROVE  Increasing(Among(s, S))
<1> DEFINE a == Among(s, S)
<1>1. \A i, j \in DOMAIN a : i < j =>
        \E k, l \in DOMAIN s : k < l /\ s[k] = a[i] /\ s[l] = a[j]
  BY AmongIs
<1> HIDE DEF a
<1>2. ASSUME NEW i \in DOMAIN a, NEW j \in DOMAIN a, i < j
      PROVE  Position(a[i]) < Position(a[j])
  <2>1. PICK k, l \in DOMAIN s : k < l /\ s[k] = a[i] /\ s[l] = a[j]
    BY <1>1, <1>2
  <2>2. Position(s[k]) < Position(s[l])
    BY <2>1 DEF Increasing
  <2> QED
    BY <2>1, <2>2
<1>3. Increasing(a)
  BY <1>2 DEF Increasing
<1> QED
  BY <1>3 DEF a

\* The plan is in plan order.
LEMMA PlanIncreases == Increasing(Plan)
BY Positions DEF Increasing

\* Nodes the scheduler may run are in plan order; the first is the first node
\* of the plan that was not executed.
LEMMA ReadyIs ==
  ASSUME executed \in SUBSET Nodes, executed # Nodes, executed \subseteq completed
  PROVE  /\ Ready \in Seq(Nodes) /\ Ready # <<>> /\ Increasing(Ready)
         /\ ToSet(Ready) \subseteq Nodes \ executed
         /\ \A n \in Nodes : Position(n) < Position(Ready[1]) => n \in executed
<1> DEFINE S == {n \in Nodes \ executed : DependsOn[n] \subseteq completed}
           P == {Position(n) : n \in Nodes \ executed}
<1>1. Ready \in Seq(Nodes) /\ ToSet(Ready) = S /\ Increasing(Ready)
  <2>1. Ready = Among(Plan, S) /\ Nodes \cap S = S
    BY DEF Ready
  <2>2. ToSet(Plan) = Nodes
    BY DEF Nodes
  <2> HIDE DEF S
  <2>3. Among(Plan, S) \in Seq(Nodes) /\ ToSet(Among(Plan, S)) = ToSet(Plan) \cap S
    BY Positions, AmongIs
  <2>4. Increasing(Among(Plan, S))
    BY Positions, PlanIncreases, OrderOfAmong
  <2> QED
    BY <2>1, <2>2, <2>3, <2>4
<1>2. P \in SUBSET Nat /\ P # {}
  BY Positions
<1>3. Min(P) \in P /\ \A y \in P : Min(P) <= y
  <2> HIDE DEF P
  <2> QED
    BY <1>2, Least
<1>4. PICK x \in Nodes \ executed : Position(x) = Min(P)
  BY <1>3
<1>5. ASSUME NEW n \in Nodes, Position(n) < Position(x) PROVE n \in executed
  <2>1. n \notin executed => Position(x) <= Position(n)
    BY <1>3, <1>4
  <2> QED
    BY <1>5, <2>1, Positions
<1>6. x \in S
  <2>1. \A d \in DependsOn[x] : d \in Nodes /\ Position(d) < Position(x)
    BY DagAssumption
  <2> QED
    BY <1>4, <1>5, <2>1
<1>7. PICK i \in DOMAIN Ready : Ready[i] = x
  BY <1>1, <1>6, Members
<1>8. Ready # <<>> /\ 1 \in DOMAIN Ready /\ i \in Nat /\ 1 <= i
  BY <1>1, <1>7, Members
<1>9. Ready[1] = x
  <2>1. CASE i = 1
    BY <1>7, <2>1
  <2>2. CASE i # 1
    <3>1. Position(Ready[1]) < Position(x)
      BY <1>1, <1>7, <1>8, <2>2 DEF Increasing
    <3>2. Ready[1] \in Nodes \ executed
      BY <1>1, <1>8, Members
    <3> QED
      BY <1>5, <3>1, <3>2
  <2> QED
    BY <2>1, <2>2
<1> QED
  BY <1>1, <1>5, <1>8, <1>9

\* A batch is the first node alone, or several parallel nodes, in their order.
LEMMA BatchIs ==
  ASSUME NEW s \in Seq(Nodes), s # <<>>, Increasing(s)
  PROVE  /\ Batch(s) \in Seq(Nodes) /\ Batch(s) # <<>> /\ Increasing(Batch(s))
         /\ ToSet(Batch(s)) \subseteq ToSet(s)
         /\ Len(Batch(s)) = 1 => Batch(s) = <<s[1]>>
         /\ Len(Batch(s)) # 1 => \A n \in ToSet(Batch(s)) : Parallel(n)
<1> DEFINE Fits(k) == \A i \in 1 .. k :
             /\ Parallel(s[i])
             /\ \A j \in 1 .. i - 1 : ConflictKeys[s[i]] \cap ConflictKeys[s[j]] = {}
           sizes == {k \in 2 .. MaxConcurrent : k <= Len(s) /\ Fits(k)}
           top == Max(sizes \cup {1})
<1>1. Batch(s) = SubSeq(s, 1, top)
  BY DEF Batch
<1>2. Len(s) \in Nat /\ 1 <= Len(s) /\ DOMAIN s = 1 .. Len(s) /\ 1 \in DOMAIN s
  BY Members
<1>3. top \in 1 .. Len(s) /\ (top = 1 \/ Fits(top))
  <2> HIDE DEF Fits
  <2>1. sizes \cup {1} \in SUBSET (0 .. Len(s)) /\ sizes \cup {1} # {}
    BY <1>2, DagAssumption
  <2>2. top \in sizes \cup {1}
    <3> HIDE DEF sizes
    <3> QED
      BY <1>2, <2>1, Greatest
  <2> HIDE DEF top
  <2> QED
    BY <1>2, <2>2, DagAssumption
<1> HIDE DEF top, sizes
<1> DEFINE b == SubSeq(s, 1, top)
<1>4. /\ b \in Seq(Nodes) /\ b # <<>> /\ Len(b) = top
      /\ \A i \in 1 .. top : b[i] = s[i]
      /\ ToSet(b) = {s[i] : i \in 1 .. top}
  <2>1. /\ b \in Seq(Nodes) /\ b # <<>> /\ Len(b) = top - 1 + 1
        /\ \A i \in 1 .. top - 1 + 1 : b[i] = s[1 + i - 1]
        /\ ToSet(b) = {s[i] : i \in 1 .. top}
    <3>1. 1 \in DOMAIN s /\ top \in 1 .. Len(s)
      BY <1>2, <1>3
    <3>2. /\ SubSeq(s, 1, top) \in Seq(Nodes) /\ SubSeq(s, 1, top) # <<>>
          /\ Len(SubSeq(s, 1, top)) = top - 1 + 1
          /\ \A i \in 1 .. top - 1 + 1 : SubSeq(s, 1, top)[i] = s[1 + i - 1]
          /\ ToSet(SubSeq(s, 1, top)) = {s[i] : i \in 1 .. top}
      BY <3>1, Slice
    <3> QED
      BY <3>2 DEF b
  <2>2. top - 1 + 1 = top /\ \A i \in 1 .. top : 1 + i - 1 = i
    BY <1>2, <1>3
  <2> QED
    BY <2>1, <2>2
<1> HIDE DEF b
<1>5. DOMAIN b = 1 .. top /\ \A i \in 1 .. top : i \in DOMAIN s
  BY <1>2, <1>3, <1>4, Members
<1>6. Increasing(b)
  BY <1>4, <1>5 DEF Increasing
<1>7. ToSet(b) \subseteq ToSet(s)
  BY <1>4, <1>5, Members
<1>8. top = 1 => b = <<s[1]>>
  <2> SUFFICES ASSUME top = 1 PROVE b = <<s[1]>>
    OBVIOUS
  <2>1. Len(b) = 1 /\ b[1] = s[1] /\ s[1] \in Nodes
    BY <1>2, <1>3, <1>4, Members
  <2> QED
    BY <1>4, <2>1
<1>9. top # 1 => \A n \in ToSet(b) : Parallel(n)
  BY <1>3, <1>4
<1> QED
  BY <1>1, <1>4, <1>6, <1>7, <1>8, <1>9 DEF b

\* The limits are numbers, and the rounds of both loops have a common one.
LEMMA Limits ==
  /\ MaxRepairs \in Nat /\ MaxRetries \in Nat /\ MaxConcurrent \in Nat /\ MaxGateRepairs \in Nat
  /\ Max({MaxRepairs, MaxRetries}) \in Nat
  /\ MaxRepairs <= Max({MaxRepairs, MaxRetries})
  /\ MaxRetries <= Max({MaxRepairs, MaxRetries})
<1>1. MaxRepairs \in Nat /\ MaxRetries \in Nat /\ MaxConcurrent \in Nat /\ MaxGateRepairs \in Nat
  BY DagAssumption
<1> DEFINE T == {MaxRepairs, MaxRetries}
<1>2. MaxRepairs + MaxRetries \in Nat /\ T \in SUBSET (0 .. MaxRepairs + MaxRetries) /\ T # {}
  BY <1>1
<1>3. Max(T) \in T /\ \A y \in T : Max(T) >= y
  <2> HIDE DEF T
  <2> QED
    BY <1>2, Greatest
<1>4. MaxRepairs \in T /\ MaxRetries \in T /\ Max(T) \in Nat
  BY <1>1, <1>3
<1>5. MaxRepairs <= Max(T) /\ MaxRetries <= Max(T)
  <2> HIDE DEF T
  <2> QED
    BY <1>1, <1>3, <1>4
<1> QED
  BY <1>1, <1>4, <1>5

\* The executor of a verifier is the last execute node before it.
LEMMA ExecutorIs ==
  ASSUME NEW n \in Nodes, Executors(n) # {}
  PROVE  /\ ExecutorOf(n) \in Executors(n)
         /\ \A f \in Executors(n) : Position(f) <= Position(ExecutorOf(n))
<1> DEFINE P == {Position(e) : e \in Executors(n)}
<1>1. P \in SUBSET (0 .. Len(Plan)) /\ P # {} /\ Len(Plan) \in Nat
  BY Positions DEF Executors
<1>2. Max(P) \in P /\ \A y \in P : Max(P) >= y
  <2> HIDE DEF P
  <2> QED
    BY <1>1, Greatest
<1>3. PICK e \in Executors(n) : Position(e) = Max(P)
  BY <1>2
<1>4. \A f \in Executors(n) : Position(f) <= Position(e)
  BY <1>2, <1>3, Positions DEF Executors
<1> QED
  BY <1>4, Zenon DEF ExecutorOf

\* The suffix of n holds the verifiers between its executor and n, in plan order.
LEMMA SuffixIs ==
  ASSUME NEW n \in Nodes
  PROVE  /\ Suffix(n) \in Seq(Nodes) /\ Increasing(Suffix(n))
         /\ ToSet(Suffix(n)) =
              {v \in Verifiers :
                 /\ Position(v) <= Position(n)
                 /\ Executors(n) # {} => Position(ExecutorOf(n)) <= Position(v)}
<1> DEFINE a == IF Executors(n) = {} THEN 1 ELSE Position(ExecutorOf(n))
           s == SubSeq(Plan, a, Position(n))
<1>1. Position(n) \in 1 .. Len(Plan) /\ Len(Plan) \in Nat /\ DOMAIN Plan = 1 .. Len(Plan)
  BY Positions
<1>2. a \in 1 .. Position(n)
  <2>1. CASE Executors(n) = {}
    BY <1>1, <2>1
  <2>2. CASE Executors(n) # {}
    <3>1. ExecutorOf(n) \in Nodes /\ Position(ExecutorOf(n)) < Position(n)
      BY <2>2, ExecutorIs DEF Executors
    <3> QED
      BY <1>1, <2>2, <3>1, Positions
  <2> QED
    BY <2>1, <2>2
<1>3. Suffix(n) = Among(s, Verifiers)
  BY DEF Suffix
<1>4. /\ s \in Seq(Nodes) /\ Len(s) = Position(n) - a + 1
      /\ \A i \in 1 .. Position(n) - a + 1 : s[i] = Plan[a + i - 1]
      /\ ToSet(s) = {Plan[i] : i \in a .. Position(n)}
  <2>1. a \in DOMAIN Plan /\ Position(n) \in a .. Len(Plan) /\ Plan \in Seq(Nodes)
    BY <1>1, <1>2, Positions
  <2> HIDE DEF a
  <2> QED
    BY <2>1, Slice
<1>5. Increasing(s)
  <2> SUFFICES ASSUME NEW i \in DOMAIN s, NEW j \in DOMAIN s, i < j
               PROVE  Position(s[i]) < Position(s[j])
    BY DEF Increasing
  <2> HIDE DEF a, s
  <2>1. i \in 1 .. Position(n) - a + 1 /\ j \in 1 .. Position(n) - a + 1
    BY <1>4, Members
  <2>2. /\ a + i - 1 \in 1 .. Len(Plan) /\ a + j - 1 \in 1 .. Len(Plan)
        /\ a + i - 1 < a + j - 1
    BY <1>1, <1>2, <2>1
  <2>3. Position(s[i]) = a + i - 1 /\ Position(s[j]) = a + j - 1
    BY <1>4, <2>1, <2>2, Positions
  <2> QED
    BY <2>2, <2>3
<1>6. Among(s, Verifiers) \in Seq(Nodes) /\ ToSet(Among(s, Verifiers)) = ToSet(s) \cap Verifiers
  BY <1>4, AmongIs
<1>7. Increasing(Among(s, Verifiers))
  BY <1>4, <1>5, OrderOfAmong
<1> DEFINE R == {v \in Verifiers :
                  /\ Position(v) <= Position(n)
                  /\ Executors(n) # {} => Position(ExecutorOf(n)) <= Position(v)}
<1>8. ASSUME NEW v \in Verifiers PROVE v \in R <=> a <= Position(v) /\ Position(v) <= Position(n)
  <2>1. v \in Nodes
    BY DEF Verifiers
  <2> QED
    BY <2>1, Positions
<1>9. ASSUME NEW v \in Verifiers PROVE v \in ToSet(s) <=> a <= Position(v) /\ Position(v) <= Position(n)
  <2>1. v \in Nodes
    BY DEF Verifiers
  <2> HIDE DEF a, s
  <2>2. \A i \in a .. Position(n) : i \in 1 .. Len(Plan)
    BY <1>1, <1>2
  <2>3. v \in ToSet(s) => Position(v) \in a .. Position(n)
    BY <1>4, <2>2, Positions
  <2>4. Position(v) \in a .. Position(n) => v \in ToSet(s)
    BY <1>4, <2>1, Positions
  <2> QED
    BY <1>1, <1>2, <2>1, <2>3, <2>4, Positions
<1> HIDE DEF a, s
<1>10. ToSet(s) \cap Verifiers = R
  BY <1>8, <1>9
<1> QED
  BY <1>3, <1>6, <1>7, <1>10

\* An infrastructure retry starts at the first verify node, or is the verifier alone.
LEMMA RetrySuffixIs ==
  ASSUME NEW s \in Seq(Nodes), NEW n \in Nodes
  PROVE  /\ RetrySuffix(s, n) \in Seq(Nodes) /\ RetrySuffix(s, n) # <<>>
         /\ FromVerify(s) = {} => RetrySuffix(s, n) = <<n>>
         /\ FromVerify(s) # {} =>
              /\ Min(FromVerify(s)) \in DOMAIN s
              /\ RetrySuffix(s, n) = SubSeq(s, Min(FromVerify(s)), Len(s))
<1>1. RetrySuffix(s, n) =
        IF FromVerify(s) = {} THEN <<n>> ELSE SubSeq(s, Min(FromVerify(s)), Len(s))
  BY DEF RetrySuffix, FromVerify
<1>2. CASE FromVerify(s) = {}
  <2>1. <<n>> \in Seq(Nodes) /\ <<n>> # <<>>
    OBVIOUS
  <2> QED
    BY <1>1, <1>2, <2>1
<1>3. CASE FromVerify(s) # {}
  <2>1. FromVerify(s) \in SUBSET Nat /\ DOMAIN s = 1 .. Len(s) /\ Len(s) \in Nat
    BY Members DEF FromVerify
  <2>2. Min(FromVerify(s)) \in FromVerify(s)
    BY <1>3, <2>1, Least
  <2>3. Min(FromVerify(s)) \in DOMAIN s /\ Len(s) \in Min(FromVerify(s)) .. Len(s)
    BY <2>1, <2>2 DEF FromVerify
  <2>4. /\ SubSeq(s, Min(FromVerify(s)), Len(s)) \in Seq(Nodes)
        /\ SubSeq(s, Min(FromVerify(s)), Len(s)) # <<>>
    BY <2>3, Slice
  <2> QED
    BY <1>1, <1>3, <2>3, <2>4
<1> QED
  BY <1>2, <1>3

\* Without a loop nothing is to be rerun.
LEMMA NoLoopIsIdle == NoLoop \in Loop /\ NoLoop.kind = "none" /\ NoLoop.todo = <<>>
<1>1. 0 \in 0 .. Max({MaxRepairs, MaxRetries})
  BY Limits
<1> QED
  BY <1>1 DEF NoLoop, Loop

\* The loop that takes up a failure, and what it reruns.
Failing(n) == IF loop = NoLoop THEN Suffix(n) ELSE loop.suffix

\* The loop that takes a failure up is within the limits and reruns something.
LEMMA NextLoopIs ==
  ASSUME SeqType, NEW n \in Nodes, NEW i \in BOOLEAN, NextLoop(n, i) # NoLoop
  PROVE  /\ NextLoop(n, i) \in Loop /\ NextLoop(n, i).todo # <<>>
         /\ NextLoop(n, i).suffix = Failing(n) /\ Failing(n) \in Seq(Nodes)
         /\ \/ /\ NextLoop(n, i).kind = "repair" /\ Executors(n) # {}
               /\ NextLoop(n, i).todo = <<ExecutorOf(n)>> \o Failing(n)
            \/ /\ NextLoop(n, i).kind = "retry"
               /\ NextLoop(n, i).todo = RetrySuffix(Failing(n), n)
<1> DEFINE s == Failing(n)
           top == Max({MaxRepairs, MaxRetries})
<1>1. s \in Seq(Nodes)
  BY SuffixIs DEF SeqType, Loop, Failing
<1>2. loop \in Loop /\ (loop.kind = "none" <=> loop = NoLoop) /\ loop.round \in Nat
  BY NoLoopIsIdle, Limits DEF SeqType, Loop
<1>3. /\ loop.kind = "none" => s = Suffix(n)
      /\ loop.kind # "none" => s = loop.suffix
  BY <1>2 DEF Failing
<1>4. ASSUME NEW r \in Nat \ {0}, RepairLoop(n, s, r) # NoLoop
      PROVE  /\ RepairLoop(n, s, r) \in Loop /\ RepairLoop(n, s, r).todo # <<>>
             /\ RepairLoop(n, s, r).suffix = s
             /\ RepairLoop(n, s, r).kind = "repair" /\ Executors(n) # {}
             /\ RepairLoop(n, s, r).todo = <<ExecutorOf(n)>> \o s
  <2>1. r <= MaxRepairs /\ Executors(n) # {}
        /\ RepairLoop(n, s, r) = [kind |-> "repair", todo |-> <<ExecutorOf(n)>> \o s, suffix |-> s,
                                  round |-> r]
    BY <1>4, Limits DEF RepairLoop
  <2>2. r \in 0 .. top
    BY <2>1, Limits
  <2>3. <<ExecutorOf(n)>> \in Seq(Nodes)
    <3>1. ExecutorOf(n) \in Nodes
      BY <2>1, ExecutorIs DEF Executors
    <3> QED
      BY <3>1
  <2>4. <<ExecutorOf(n)>> \o s \in Seq(Nodes) /\ <<ExecutorOf(n)>> \o s # <<>>
    <3>1. Len(<<ExecutorOf(n)>>) = 1 /\ Len(s) \in Nat
      BY <1>1, Members
    <3>2. <<ExecutorOf(n)>> \o s \in Seq(Nodes)
      BY <1>1, <2>3, ConcatProperties
    <3>3. Len(<<ExecutorOf(n)>> \o s) = 1 + Len(s)
      BY <1>1, <2>3, <3>1, ConcatProperties
    <3> QED
      BY <3>1, <3>2, <3>3, Members
  <2> QED
    BY <1>1, <2>1, <2>2, <2>4 DEF Loop
<1>5. ASSUME NEW r \in Nat \ {0}, RetryLoop(n, s, r) # NoLoop
      PROVE  /\ RetryLoop(n, s, r) \in Loop /\ RetryLoop(n, s, r).todo # <<>>
             /\ RetryLoop(n, s, r).suffix = s
             /\ RetryLoop(n, s, r).kind = "retry"
             /\ RetryLoop(n, s, r).todo = RetrySuffix(s, n)
  <2>1. r <= MaxRetries
        /\ RetryLoop(n, s, r) = [kind |-> "retry", todo |-> RetrySuffix(s, n), suffix |-> s,
                                 round |-> r]
    BY <1>5, Limits DEF RetryLoop
  <2>2. r \in 0 .. top
    BY <2>1, Limits
  <2>3. RetrySuffix(s, n) \in Seq(Nodes) /\ RetrySuffix(s, n) # <<>>
    BY <1>1, RetrySuffixIs
  <2> QED
    BY <1>1, <2>1, <2>2, <2>3 DEF Loop
<1>6. \E r \in Nat \ {0} : NextLoop(n, i) = RepairLoop(n, s, r) \/ NextLoop(n, i) = RetryLoop(n, s, r)
  <2>1. loop.kind \in {"none", "repair", "retry"}
    BY <1>2 DEF Loop
  <2>2. loop.round + 1 \in Nat \ {0} /\ 1 \in Nat \ {0}
    BY <1>2
  <2>3. CASE loop.kind = "none"
    <3>1. NextLoop(n, i) = IF i THEN RetryLoop(n, s, 1) ELSE RepairLoop(n, s, 1)
      BY <1>3, <2>3 DEF NextLoop
    <3> QED
      BY <2>2, <3>1
  <2>4. CASE loop.kind = "retry"
    <3>1. NextLoop(n, i) = IF i THEN RetryLoop(n, s, loop.round + 1) ELSE RepairLoop(n, s, 1)
      BY <1>3, <2>4 DEF NextLoop
    <3> QED
      BY <2>2, <3>1
  <2>5. CASE loop.kind = "repair"
    <3>1. NextLoop(n, i) = RepairLoop(n, s, loop.round + 1)
      BY <1>3, <2>5 DEF NextLoop
    <3> QED
      BY <2>2, <3>1
  <2> QED
    BY <2>1, <2>3, <2>4, <2>5
<1> HIDE DEF s
<1> QED
  BY <1>1, <1>4, <1>5, <1>6 DEF s

-------------------------------------------------------------------------------
(* What the steps have in common.                                            *)

\* Something is at hand whenever a node is to run alone.
LEMMA CurrentIs ==
  ASSUME IInv, step \in {"node", "running"}
  PROVE  Current \in Nodes
<1>1. loop \in Loop /\ todo \in Seq(Nodes)
  BY DEF IInv, SeqType
<1>2. CASE loop = NoLoop
  BY <1>1, <1>2, HeadAndTail DEF IInv, ControlInv, Current
<1>3. CASE loop # NoLoop
  <2>1. loop.todo \in Seq(Nodes) /\ loop.todo # <<>>
    BY <1>1, <1>3 DEF IInv, SeqType, TypeOK, Loop
  <2> QED
    BY <1>3, <2>1, HeadAndTail DEF Current
<1> QED
  BY <1>2, <1>3

\* A list that is done goes back to the scheduler.
LEMMA ContinueIs ==
  ASSUME NEW s
  PROVE  /\ Continue(s) \in {"schedule", "node"}
         /\ Continue(s) = "schedule" <=> s = <<>>
BY DEF Continue

\* A node that is done leaves the rest of its list, and of the loop around it.
LEMMA AdvanceIs ==
  ASSUME IInv, step \in {"node", "running"}, Advance(Current)
  PROVE  /\ executed' = executed \cup {Current} /\ completed' = completed \cup {Current}
         /\ todo' \in Seq(Nodes) /\ loop' \in Loop
         /\ loop'.kind = "none" => loop' = NoLoop
         /\ loop'.kind # "none" => loop'.todo # <<>>
         /\ step' \in {"schedule", "node"}
         /\ step' = "schedule" => loop' = NoLoop /\ todo' = <<>>
         /\ step' = "node" /\ loop' = NoLoop => todo' # <<>>
<1>1. /\ loop \in Loop /\ todo \in Seq(Nodes) /\ (loop.kind = "none" <=> loop = NoLoop)
      /\ loop.kind # "none" => loop.todo # <<>>
      /\ loop = NoLoop => todo # <<>>
  BY NoLoopIsIdle DEF IInv, SeqType, TypeOK, ControlInv
<1>2. executed' = executed \cup {Current} /\ completed' = completed \cup {Current}
  BY DEF Advance
<1>3. CASE loop = NoLoop
  <2>1. todo' = Tail(todo) /\ step' = Continue(Tail(todo)) /\ loop' = loop
    BY <1>3 DEF Advance
  <2>2. Tail(todo) \in Seq(Nodes)
    BY <1>1, <1>3, HeadAndTail
  <2> QED
    BY <1>1, <1>2, <1>3, <2>1, <2>2, ContinueIs, NoLoopIsIdle
<1>4. CASE loop # NoLoop /\ Len(loop.todo) = 1
  <2>1. todo' = todo /\ step' = Continue(todo) /\ loop' = NoLoop
    BY <1>4 DEF Advance
  <2> QED
    BY <1>1, <1>2, <2>1, ContinueIs, NoLoopIsIdle
<1>5. CASE loop # NoLoop /\ Len(loop.todo) # 1
  <2>1. todo' = todo /\ step' = "node" /\ loop' = [loop EXCEPT !.todo = Tail(@)]
    BY <1>5 DEF Advance
  <2>2. loop.todo \in Seq(Nodes) /\ loop.todo # <<>>
    BY <1>1, <1>5 DEF Loop
  <2>3. Tail(loop.todo) \in Seq(Nodes) /\ Len(Tail(loop.todo)) = Len(loop.todo) - 1
        /\ Len(loop.todo) \in Nat
    BY <2>2, HeadAndTail, Members
  <2>4. Tail(loop.todo) # <<>>
    <3>1. Len(Tail(loop.todo)) # 0
      BY <1>5, <2>3
    <3> QED
      BY <3>1, EmptySeq
  <2>5. loop' \in Loop /\ loop'.kind = loop.kind /\ loop'.todo = Tail(loop.todo)
    BY <1>1, <2>1, <2>3 DEF Loop
  <2>6. loop' # NoLoop
    BY <1>1, <1>5, <2>5, NoLoopIsIdle
  <2> QED
    BY <1>1, <1>2, <1>5, <2>1, <2>4, <2>5, <2>6
<1> QED
  BY <1>3, <1>4, <1>5

\* Steps outside of waves leave what waves wrote as it is.
LEMMA AwayFromWaves ==
  ASSUME IInv, UNCHANGED <<waveVars, resumed>>, step \notin {"wave", "ended"}, step' # "wave",
         executed \subseteq executed', completed \subseteq completed'
  PROVE  WaveInv' /\ StableOrder' /\ ArtifactsAccounted'
<1>1. WaveInv'
  BY DEF IInv, WaveInv, waveVars, Wave, Increasing, Working
<1>2. StableOrder'
  BY DEF IInv, StableOrder, waveVars, Wave
<1>3. ArtifactsAccounted'
  BY DEF IInv, ArtifactsAccounted, waveVars, Wave
<1> QED
  BY <1>1, <1>2, <1>3

\* A job that failed cancelled whatever its log did not settle.
LEMMA Cancelled ==
  ASSUME IInv, resumed' = resumed, NEW done \in SUBSET Nodes, NEW ev \in [Nodes -> Events],
         step # "ended", executed \subseteq done, durable' = CancelRest(ev, done),
         \A m \in done \ (Verifiers \cup resumed) : ev[m] \notin {"none", "started"}
  PROVE  durable' \in [Nodes -> Events] /\ CancellationReaches'
<1>1. durable' = [m \in Nodes |-> IF m \in done \cup completed THEN ev[m] ELSE "cancelled"]
  BY DEF CancelRest
<1>2. durable' \in [Nodes -> Events]
  BY <1>1 DEF Events
<1>3. completed = resumed \cup executed
  BY DEF IInv, ControlInv
<1>4. CancellationReaches'
  BY <1>1, <1>3 DEF CancellationReaches
<1> QED
  BY <1>2, <1>4

\* The same for a job that failed with one of its nodes.
LEMMA FailedWith ==
  ASSUME IInv, resumed' = resumed, NEW n \in Nodes, NEW ev \in [Nodes -> Events],
         step # "ended", FailWith(n, ev),
         \A m \in executed \ (Verifiers \cup resumed) : m # n => ev[m] \notin {"none", "started"}
  PROVE  /\ durable' \in [Nodes -> Events] /\ CancellationReaches'
         /\ executed' = executed \cup {n} /\ job' = "failed" /\ step' = "ended"
<1> DEFINE done == executed \cup {n}
           e == [ev EXCEPT ![n] = "failed"]
<1>1. /\ durable' = CancelRest(e, done) /\ executed' = done
      /\ job' = "failed" /\ step' = "ended"
  BY DEF FailWith, EndJob
<1>2. done \in SUBSET Nodes /\ executed \subseteq done
  BY DEF IInv, TypeOK
<1>3. e \in [Nodes -> Events]
  BY DEF Events
<1>4. \A m \in done \ (Verifiers \cup resumed) : e[m] \notin {"none", "started"}
  BY DEF IInv, TypeOK
<1> HIDE DEF done, e
<1>5. durable' \in [Nodes -> Events] /\ CancellationReaches'
  BY <1>1, <1>2, <1>3, <1>4, Cancelled
<1> QED
  BY <1>1, <1>5 DEF done

\* The same for a job that was interrupted.
LEMMA InterruptedWith ==
  ASSUME IInv, resumed' = resumed, NEW ev \in [Nodes -> Events],
         step # "ended", Interrupt(ev),
         \A m \in executed \ (Verifiers \cup resumed) : ev[m] \notin {"none", "started"}
  PROVE  /\ durable' \in [Nodes -> Events] /\ CancellationReaches'
         /\ executed' = executed /\ job' = "failed" /\ step' = "ended"
<1>1. /\ durable' = CancelRest(ev, executed) /\ executed' = executed
      /\ job' = "failed" /\ step' = "ended"
  BY DEF Interrupt, EndJob
<1>2. executed \in SUBSET Nodes
  BY DEF IInv, TypeOK
<1>3. durable' \in [Nodes -> Events] /\ CancellationReaches'
  BY <1>1, <1>2, Cancelled
<1> QED
  BY <1>1, <1>3

\* Nothing but the log has to hold once the job has ended.
LEMMA Ended ==
  ASSUME step' = "ended", job' \in {"completed", "failed", "panicked"}
  PROVE  ControlInv' /\ LogInv'
BY DEF ControlInv, LogInv

-------------------------------------------------------------------------------
(* Nodes that run alone.                                                     *)

\* The invariant holds when the execution starts.
LEMMA InitIInv == Init => IInv
<1> SUFFICES ASSUME Init PROVE IInv
  OBVIOUS
<1>1. resumed \in SUBSET Nodes
  BY DagAssumption DEF Init
<1>2. <<>> \in Seq(Nodes) /\ ToSet(<<>>) = {} /\ DOMAIN <<>> = {}
  BY EmptySeq, Members
<1>3. 0 \in 0 .. MaxGateRepairs /\ 0 \in 0 .. Max({MaxRepairs, MaxRetries})
  BY Limits
<1>4. TypeOK
  BY <1>1, <1>2, <1>3 DEF Init, TypeOK, NoLoop, Wave, Outcomes, Events
<1>5. SeqType
  BY <1>2, NoLoopIsIdle DEF Init, SeqType
<1>6. ControlInv
  BY DEF Init, ControlInv
<1>7. WaveInv
  BY <1>2 DEF Init, WaveInv, Wave, Working, Increasing
<1>8. LogInv
  BY DEF Init, LogInv
<1>9. CancellationReaches
  BY DEF Init, CancellationReaches
<1>10. StableOrder
  BY <1>2 DEF Init, StableOrder
<1>11. ArtifactsAccounted
  BY DEF Init, ArtifactsAccounted
<1> QED
  BY <1>4, <1>5, <1>6, <1>7, <1>8, <1>9, <1>10, <1>11 DEF IInv

\* Every step keeps the invariant: the start of a node.
LEMMA NodeStarts ==
  ASSUME IInv, StartNode
  PROVE  IInv'
<1>1. Current \in Nodes /\ step = "node"
  BY CurrentIs DEF StartNode
<1>2. /\ durable' = [durable EXCEPT ![Current] = "started"] /\ step' = "running"
      /\ UNCHANGED <<signal, resumed, executed, completed, loopVars, waveVars, validated, job>>
  BY DEF StartNode
<1>3. WaveInv' /\ StableOrder' /\ ArtifactsAccounted'
  BY <1>1, <1>2, AwayFromWaves
<1>4. TypeOK'
  BY <1>1, <1>2 DEF IInv, TypeOK, loopVars, waveVars, Wave, Events
<1>5. SeqType'
  BY <1>2 DEF IInv, SeqType, loopVars, waveVars
<1>6. ControlInv'
  BY <1>1, <1>2 DEF IInv, ControlInv, loopVars
<1>7. Current' = Current
  BY <1>2 DEF Current, loopVars
<1>8. LogInv'
  BY <1>1, <1>2, <1>7 DEF IInv, LogInv, TypeOK
<1>9. CancellationReaches'
  BY <1>1, <1>2 DEF IInv, ControlInv, CancellationReaches
<1> QED
  BY <1>3, <1>4, <1>5, <1>6, <1>8, <1>9 DEF IInv

\* A node that is done, and whose log says so.
LEMMA Advances ==
  ASSUME IInv, step \in {"node", "running"}, Advance(Current),
         NEW event \in {"skipped", "completed"},
         durable' = [durable EXCEPT ![Current] = event], validated' \in SUBSET Verifiers,
         UNCHANGED <<signal, resumed, gateRound, waveVars, job>>
  PROVE  IInv'
<1>1. Current \in Nodes
  BY CurrentIs
<1>2. /\ executed' = executed \cup {Current} /\ completed' = completed \cup {Current}
      /\ todo' \in Seq(Nodes) /\ loop' \in Loop
      /\ loop'.kind = "none" => loop' = NoLoop
      /\ loop'.kind # "none" => loop'.todo # <<>>
      /\ step' \in {"schedule", "node"}
      /\ step' = "schedule" => loop' = NoLoop /\ todo' = <<>>
      /\ step' = "node" /\ loop' = NoLoop => todo' # <<>>
  BY AdvanceIs
<1>3. WaveInv' /\ StableOrder' /\ ArtifactsAccounted'
  BY <1>2, AwayFromWaves
<1>4. ToSet(todo') \in SUBSET Nodes /\ loop'.round \in 0 .. Max({MaxRepairs, MaxRetries})
      /\ loop'.kind \in {"none", "repair", "retry"}
  BY <1>2, Members DEF Loop
<1>5. TypeOK'
  BY <1>1, <1>2, <1>4 DEF IInv, TypeOK, waveVars, Wave, Events
<1>6. SeqType'
  BY <1>2 DEF IInv, SeqType, waveVars
<1>7. ControlInv'
  BY <1>2 DEF IInv, ControlInv
<1>8. LogInv'
  BY <1>1, <1>2 DEF IInv, LogInv, TypeOK
<1>9. CancellationReaches'
  BY DEF IInv, ControlInv, CancellationReaches
<1> QED
  BY <1>3, <1>5, <1>6, <1>7, <1>8, <1>9 DEF IInv

\* A node that was skipped or passed.
LEMMA NodePasses ==
  ASSUME IInv, SkipNode \/ PassNode
  PROVE  IInv'
<1>1. Current \in Nodes
  BY CurrentIs DEF SkipNode, PassNode
<1>2. CASE SkipNode
  <2>1. validated' \in SUBSET Verifiers
    BY <1>2 DEF IInv, TypeOK, SkipNode
  <2> QED
    BY <1>2, <2>1, Advances DEF SkipNode
<1>3. CASE PassNode
  <2>1. validated' \in SUBSET Verifiers
    BY <1>3 DEF IInv, TypeOK, PassNode
  <2> QED
    BY <1>3, <2>1, Advances DEF PassNode
<1> QED
  BY <1>2, <1>3

\* The node that runs alone fails, and the job with it.
LEMMA NodeFails ==
  ASSUME IInv, step \in {"node", "running"}, FailWith(Current, durable),
         validated' \in SUBSET Verifiers,
         UNCHANGED <<signal, resumed, completed, loopVars, waveVars>>
  PROVE  IInv'
<1>1. Current \in Nodes /\ step # "ended"
  BY CurrentIs
<1>2. \A m \in executed \ (Verifiers \cup resumed) : m # Current => durable[m] \notin {"none", "started"}
  BY <1>1 DEF IInv, LogInv
<1>3. /\ durable' \in [Nodes -> Events] /\ CancellationReaches'
      /\ executed' = executed \cup {Current} /\ job' = "failed" /\ step' = "ended"
  <2>1. durable \in [Nodes -> Events]
    BY DEF IInv, TypeOK
  <2> QED
    BY <1>1, <1>2, <2>1, FailedWith
<1>4. WaveInv' /\ StableOrder' /\ ArtifactsAccounted'
  BY <1>3, AwayFromWaves
<1>5. TypeOK'
  BY <1>1, <1>3 DEF IInv, TypeOK, loopVars, waveVars, Wave
<1>6. SeqType'
  BY DEF IInv, SeqType, loopVars, waveVars
<1>7. ControlInv' /\ LogInv'
  BY <1>3, Ended
<1> QED
  BY <1>3, <1>4, <1>5, <1>6, <1>7 DEF IInv

\* A loop takes the failure up.
LEMMA NodeDefers ==
  ASSUME IInv, NEW i \in BOOLEAN, DeferFailure(i)
  PROVE  IInv'
<1>1. Current \in Nodes /\ step = "running" /\ Current \in Verifiers
  BY CurrentIs DEF DeferFailure
<1>2. validated' \in SUBSET Verifiers
  BY DEF IInv, TypeOK, DeferFailure
<1> DEFINE next == NextLoop(Current, i)
<1>3. UNCHANGED <<signal, resumed, gateRound, waveVars>>
  BY DEF DeferFailure
<1>4. CASE next = NoLoop
  <2>1. FailWith(Current, durable) /\ UNCHANGED <<completed, todo, loop>>
    BY <1>4 DEF DeferFailure
  <2>2. UNCHANGED loopVars
    BY <1>3, <2>1 DEF loopVars
  <2> QED
    BY <1>1, <1>2, <1>3, <2>1, <2>2, NodeFails
<1>5. CASE next # NoLoop
  <2>1. /\ loop' = next /\ step' = "node"
        /\ todo' = IF loop = NoLoop THEN Tail(todo) ELSE todo
        /\ executed' = executed \cup {Current} /\ completed' = completed \cup {Current}
        /\ UNCHANGED <<durable, job>>
    BY <1>5 DEF DeferFailure
  <2>2. next \in Loop /\ next.todo # <<>> /\ next.kind # "none"
    <3>1. SeqType
      BY DEF IInv
    <3> QED
      BY <1>1, <1>5, <3>1, NextLoopIs
  <2> HIDE DEF next
  <2>3. todo' \in Seq(Nodes)
    BY <1>1, <2>1, HeadAndTail DEF IInv, SeqType, ControlInv
  <2>4. WaveInv' /\ StableOrder' /\ ArtifactsAccounted'
    BY <1>1, <1>3, <2>1, AwayFromWaves
  <2>5. ToSet(todo') \in SUBSET Nodes /\ next.round \in 0 .. Max({MaxRepairs, MaxRetries})
        /\ next.kind \in {"none", "repair", "retry"}
    BY <2>2, <2>3, Members DEF Loop
  <2>6. TypeOK'
    BY <1>1, <1>2, <1>3, <2>1, <2>2, <2>5 DEF IInv, TypeOK, waveVars, Wave
  <2>7. SeqType'
    BY <1>3, <2>1, <2>2, <2>3 DEF IInv, SeqType, waveVars
  <2>8. ControlInv'
    BY <1>1, <1>3, <2>1, <2>2, NoLoopIsIdle DEF IInv, ControlInv
  <2>9. LogInv'
    BY <1>1, <1>3, <2>1 DEF IInv, LogInv
  <2>10. CancellationReaches'
    BY <1>1, <1>3, <2>1 DEF IInv, ControlInv, CancellationReaches
  <2> QED
    BY <2>4, <2>6, <2>7, <2>8, <2>9, <2>10 DEF IInv
<1> QED
  BY <1>4, <1>5

\* An aborted node, and a terminal failure.
LEMMA NodeEnds ==
  ASSUME IInv, AbortNode \/ FailNode
  PROVE  IInv'
<1>1. /\ step \in {"node", "running"} /\ FailWith(Current, durable)
      /\ UNCHANGED <<signal, resumed, completed, loopVars, waveVars, validated>>
  BY DEF AbortNode, FailNode
<1>2. validated' \in SUBSET Verifiers
  BY <1>1 DEF IInv, TypeOK
<1> QED
  BY <1>1, <1>2, NodeFails

\* The job ends and nothing else changes: at the gate, or by a panic.
LEMMA JobSettles ==
  ASSUME IInv, NodeThrows \/ CompleteJob \/ GateFails
  PROVE  IInv'
<1>1. /\ step \in {"running", "gate"} /\ step' = "ended"
      /\ job' \in {"completed", "failed", "panicked"}
      /\ job' = "failed" => step = "gate"
      /\ UNCHANGED <<signal, resumed, executed, completed, loopVars, waveVars, durable, validated>>
  BY DEF NodeThrows, CompleteJob, GateFails, EndJob
<1>2. WaveInv' /\ StableOrder' /\ ArtifactsAccounted'
  BY <1>1, AwayFromWaves
<1>3. TypeOK'
  BY <1>1 DEF IInv, TypeOK, loopVars, waveVars, Wave
<1>4. SeqType'
  BY <1>1 DEF IInv, SeqType, loopVars, waveVars
<1>5. ControlInv' /\ LogInv'
  BY <1>1, Ended
<1>6. CancellationReaches'
  BY <1>1 DEF IInv, ControlInv, LogInv, CancellationReaches
<1> QED
  BY <1>2, <1>3, <1>4, <1>5, <1>6 DEF IInv

\* A rerun is the plan from the first node of the phase on.
LEMMA RerunIs ==
  ASSUME NEW p, From(p) # {}
  PROVE  /\ Min(From(p)) \in DOMAIN Plan /\ PhaseOf[Plan[Min(From(p))]] = p
         /\ \A i \in From(p) : Min(From(p)) <= i
         /\ Rerun(p) \in Seq(Nodes) /\ Rerun(p) # <<>> /\ Increasing(Rerun(p))
         /\ ToSet(Rerun(p)) = {n \in Nodes : Min(From(p)) <= Position(n)}
<1> DEFINE m == Min(From(p))
           r == SubSeq(Plan, m, Len(Plan))
<1>1. Plan \in Seq(Nodes) /\ DOMAIN Plan = 1 .. Len(Plan) /\ Len(Plan) \in Nat
  BY Positions
<1>2. m \in From(p) /\ \A i \in From(p) : m <= i
  <2>1. From(p) \in SUBSET Nat
    BY <1>1 DEF From
  <2> QED
    BY <2>1, Least
<1>3. m \in DOMAIN Plan /\ PhaseOf[Plan[m]] = p
  <2> HIDE DEF m
  <2> QED
    BY <1>2 DEF From
<1> HIDE DEF m
<1>4. /\ r \in Seq(Nodes) /\ r # <<>> /\ Len(r) = Len(Plan) - m + 1
      /\ \A i \in 1 .. Len(Plan) - m + 1 : r[i] = Plan[m + i - 1]
      /\ ToSet(r) = {Plan[i] : i \in m .. Len(Plan)}
  <2>1. Len(Plan) \in m .. Len(Plan)
    BY <1>1, <1>3
  <2> QED
    <3>1. Plan \in Seq(Nodes) /\ m \in DOMAIN Plan /\ Len(Plan) \in m .. Len(Plan)
      BY <1>1, <1>3, <2>1
    <3>2. /\ SubSeq(Plan, m, Len(Plan)) \in Seq(Nodes) /\ SubSeq(Plan, m, Len(Plan)) # <<>>
          /\ Len(SubSeq(Plan, m, Len(Plan))) = Len(Plan) - m + 1
          /\ \A i \in 1 .. Len(Plan) - m + 1 : SubSeq(Plan, m, Len(Plan))[i] = Plan[m + i - 1]
          /\ ToSet(SubSeq(Plan, m, Len(Plan))) = {Plan[i] : i \in m .. Len(Plan)}
      BY <3>1, Slice
    <3> QED
      BY <3>2 DEF r
<1>5. Increasing(r)
  <2> SUFFICES ASSUME NEW i \in DOMAIN r, NEW j \in DOMAIN r, i < j
               PROVE  Position(r[i]) < Position(r[j])
    BY DEF Increasing
  <2> HIDE DEF r
  <2>1. i \in 1 .. Len(Plan) - m + 1 /\ j \in 1 .. Len(Plan) - m + 1
    BY <1>4, Members
  <2>2. /\ m + i - 1 \in 1 .. Len(Plan) /\ m + j - 1 \in 1 .. Len(Plan)
        /\ m + i - 1 < m + j - 1
    BY <1>1, <1>3, <2>1
  <2>3. Position(r[i]) = m + i - 1 /\ Position(r[j]) = m + j - 1
    BY <1>4, <2>1, <2>2, Positions
  <2> QED
    BY <2>2, <2>3
<1>6. ASSUME NEW n PROVE n \in ToSet(r) <=> n \in Nodes /\ m <= Position(n)
  <2> HIDE DEF r
  <2>1. ASSUME n \in ToSet(r) PROVE n \in Nodes /\ m <= Position(n)
    <3>1. PICK i \in m .. Len(Plan) : n = Plan[i]
      BY <1>4, <2>1
    <3>2. i \in 1 .. Len(Plan) /\ m <= i
      BY <1>1, <1>3
    <3> QED
      BY <3>1, <3>2, Positions
  <2>2. ASSUME n \in Nodes, m <= Position(n) PROVE n \in ToSet(r)
    <3>1. Position(n) \in m .. Len(Plan) /\ Plan[Position(n)] = n
      BY <1>1, <1>3, <2>2, Positions
    <3> QED
      BY <1>4, <3>1
  <2> QED
    BY <2>1, <2>2
<1>7. ToSet(r) = {n \in Nodes : m <= Position(n)}
  BY <1>6
<1> QED
  BY <1>2, <1>3, <1>4, <1>5, <1>7 DEF m, Rerun

\* A repair of the completion gate.
LEMMA GateReruns ==
  ASSUME IInv, NEW p \in {"execute", "verify"}, GateRepairs(p)
  PROVE  IInv'
<1>1. /\ step = "gate" /\ gateRound' = gateRound + 1 /\ gateRound < MaxGateRepairs
      /\ todo' = Rerun(p) /\ step' = "node"
      /\ UNCHANGED <<signal, resumed, executed, completed, loop, waveVars, durable,
                     validated, job>>
  BY DEF GateRepairs
<1>2. Rerun(p) \in Seq(Nodes) /\ Rerun(p) # <<>> /\ ToSet(Rerun(p)) \subseteq Nodes
  BY RerunIs DEF GateRepairs
<1>3. WaveInv' /\ StableOrder' /\ ArtifactsAccounted'
  BY <1>1, AwayFromWaves
<1>4. gateRound' \in 0 .. MaxGateRepairs
  BY <1>1, Limits DEF IInv, TypeOK
<1>5. TypeOK'
  BY <1>1, <1>2, <1>4 DEF IInv, TypeOK, waveVars, Wave
<1>6. SeqType'
  BY <1>1, <1>2 DEF IInv, SeqType, waveVars
<1>7. ControlInv'
  BY <1>1, <1>2 DEF IInv, ControlInv
<1>8. LogInv'
  BY <1>1 DEF IInv, LogInv
<1>9. CancellationReaches'
  BY <1>1 DEF IInv, ControlInv, CancellationReaches
<1> QED
  BY <1>3, <1>5, <1>6, <1>7, <1>8, <1>9 DEF IInv

\* The end of the plan.
LEMMA GateComes ==
  ASSUME IInv, AllExecuted
  PROVE  IInv'
<1>1. /\ step = "schedule" /\ executed = Nodes /\ step' = "gate"
      /\ UNCHANGED <<signal, resumed, executed, completed, loopVars, waveVars, durable,
                     validated, job>>
  BY DEF AllExecuted
<1>2. WaveInv' /\ StableOrder' /\ ArtifactsAccounted'
  BY <1>1, AwayFromWaves
<1>3. TypeOK' /\ SeqType'
  BY <1>1 DEF IInv, TypeOK, SeqType, loopVars, waveVars, Wave
<1>4. ControlInv' /\ LogInv' /\ CancellationReaches'
  BY <1>1 DEF IInv, ControlInv, LogInv, CancellationReaches, loopVars
<1> QED
  BY <1>2, <1>3, <1>4 DEF IInv

\* An abort that the scheduler sees.
LEMMA ScheduleInterrupted ==
  ASSUME IInv, InterruptSchedule
  PROVE  IInv'
<1>1. /\ step = "schedule" /\ Interrupt(durable)
      /\ UNCHANGED <<signal, resumed, completed, loopVars, waveVars, validated>>
  BY DEF InterruptSchedule
<1>2. durable \in [Nodes -> Events]
      /\ \A m \in executed \ (Verifiers \cup resumed) : durable[m] \notin {"none", "started"}
  BY <1>1 DEF IInv, TypeOK, LogInv
<1>3. /\ durable' \in [Nodes -> Events] /\ CancellationReaches'
      /\ executed' = executed /\ job' = "failed" /\ step' = "ended"
  BY <1>1, <1>2, InterruptedWith
<1>4. WaveInv' /\ StableOrder' /\ ArtifactsAccounted'
  BY <1>1, <1>3, AwayFromWaves
<1>5. TypeOK' /\ SeqType'
  BY <1>1, <1>3 DEF IInv, TypeOK, SeqType, loopVars, waveVars, Wave
<1>6. ControlInv' /\ LogInv'
  BY <1>3, Ended
<1> QED
  BY <1>3, <1>4, <1>5, <1>6 DEF IInv

\* An abort by itself, and a step that changes nothing.
LEMMA SignalFires ==
  ASSUME IInv, signal' \in BOOLEAN,
         UNCHANGED <<step, resumed, executed, completed, loopVars, waveVars, durable, validated, job>>
  PROVE  IInv'
<1>1. TypeOK'
  BY DEF IInv, TypeOK, loopVars, waveVars, Wave
<1>2. SeqType' /\ ControlInv'
  BY DEF IInv, SeqType, ControlInv, loopVars, waveVars
<1>3. WaveInv'
  BY DEF IInv, WaveInv, waveVars, Wave, Increasing, Working
<1>4. LogInv' /\ CancellationReaches'
  BY DEF IInv, LogInv, CancellationReaches, Current, loopVars
<1>5. StableOrder'
  BY DEF IInv, StableOrder, waveVars, Wave
<1>6. ArtifactsAccounted'
  BY DEF IInv, ArtifactsAccounted, waveVars, Wave
<1> QED
  BY <1>1, <1>2, <1>3, <1>4, <1>5, <1>6 DEF IInv

-------------------------------------------------------------------------------
(* Scheduling, and waves.                                                    *)

\* The next node, or the next wave.
LEMMA BatchScheduled ==
  ASSUME IInv, Schedule
  PROVE  IInv'
<1> DEFINE b == Batch(Ready)
<1>1. /\ step = "schedule" /\ executed # Nodes
      /\ UNCHANGED <<signal, resumed, executed, completed, loop, gateRound, artifact,
                     durable, order, validated, job>>
  BY DEF Schedule
<1>2. executed \in SUBSET Nodes /\ executed \subseteq completed /\ loop = NoLoop /\ todo = <<>>
  BY <1>1 DEF IInv, TypeOK, ControlInv
<1>3. /\ Ready \in Seq(Nodes) /\ Ready # <<>> /\ Increasing(Ready)
      /\ ToSet(Ready) \subseteq Nodes \ executed
  BY <1>1, <1>2, ReadyIs
<1>4. /\ b \in Seq(Nodes) /\ b # <<>> /\ Increasing(b)
      /\ ToSet(b) \subseteq Nodes \ executed
      /\ Len(b) # 1 => \A n \in ToSet(b) : Parallel(n)
  BY <1>3, BatchIs
<1>5. CASE Len(b) = 1
  <2>1. todo' = b /\ step' = "node" /\ UNCHANGED <<batch, run, noticed, sealed, starts>>
    BY <1>5 DEF Schedule
  <2> HIDE DEF b
  <2>2. UNCHANGED waveVars
    BY <1>1, <2>1 DEF waveVars
  <2>3. WaveInv' /\ StableOrder' /\ ArtifactsAccounted'
    BY <1>1, <2>1, <2>2, AwayFromWaves
  <2>4. TypeOK'
    BY <1>1, <1>4, <2>1 DEF IInv, TypeOK, Wave
  <2>5. SeqType'
    BY <1>1, <1>4, <2>1 DEF IInv, SeqType
  <2>6. ControlInv'
    BY <1>1, <1>4, <2>1 DEF IInv, ControlInv
  <2>7. LogInv' /\ CancellationReaches'
    BY <1>1, <2>1 DEF IInv, ControlInv, LogInv, CancellationReaches
  <2> QED
    BY <2>3, <2>4, <2>5, <2>6, <2>7 DEF IInv
<1>6. CASE Len(b) # 1
  <2>1. /\ batch' = b /\ step' = "wave"
        /\ run' = [n \in Nodes |-> IF n \in ToSet(b) THEN "deciding" ELSE run[n]]
        /\ noticed' = <<>> /\ sealed' = FALSE /\ starts' = {}
        /\ todo' = todo
    BY <1>6 DEF Schedule
  <2> HIDE DEF b
  <2>2. <<>> \in Seq(Nodes) /\ ToSet(<<>>) = {}
    BY EmptySeq, Members
  <2>3. \A n \in Nodes : run[n] \notin Working
    BY <1>1 DEF IInv, WaveInv
  <2>4. TypeOK'
    <3>1. run' \in [Nodes -> Outcomes \cup {"idle", "deciding", "running", "reserving", "prepared"}]
      BY <2>1 DEF IInv, TypeOK
    <3>2. Wave' \subseteq Nodes /\ ToSet(noticed') \subseteq Nodes /\ starts' \subseteq Nodes
      BY <1>4, <2>1, <2>2 DEF Wave
    <3> QED
      BY <1>1, <2>1, <3>1, <3>2 DEF IInv, TypeOK
  <2>5. SeqType'
    BY <1>1, <1>4, <2>1, <2>2 DEF IInv, SeqType
  <2>6. ControlInv'
    BY <1>1, <1>2, <2>1 DEF IInv, ControlInv
  <2>7. LogInv' /\ CancellationReaches'
    BY <1>1, <2>1 DEF IInv, ControlInv, LogInv, CancellationReaches
  <2>8. WaveInv'
    <3>1. \A n \in ToSet(b) : n \notin executed \cup resumed /\ PhaseOf[n] = "review"
      BY <1>4, <1>6 DEF Parallel
    <3>2. \A n \in Nodes : run'[n] \in Working => n \in ToSet(b)
      BY <2>1, <2>3
    <3>3. Increasing(batch') /\ ToSet(order') \subseteq executed'
      BY <1>1, <1>4, <2>1 DEF IInv, WaveInv
    <3> QED
      BY <1>1, <2>1, <2>2, <3>1, <3>2, <3>3 DEF WaveInv, Wave, Increasing
  <2>9. StableOrder'
    <3>1. order \in Seq(Nodes) /\ ToSet(order) \subseteq executed
      BY <1>1 DEF IInv, SeqType, WaveInv
    <3>2. \A i \in DOMAIN order : order[i] \notin ToSet(b)
      BY <1>4, <3>1, Members
    <3> QED
      BY <1>1, <2>1, <3>2 DEF StableOrder, Wave
  <2>10. ArtifactsAccounted'
    <3>1. \A n \in Nodes : artifact[n] # "reserved"
      BY <1>1, <2>3 DEF IInv, WaveInv, ArtifactsAccounted, Working
    <3> QED
      BY <1>1, <2>1, <3>1 DEF IInv, ArtifactsAccounted
  <2> QED
    BY <2>4, <2>5, <2>6, <2>7, <2>8, <2>9, <2>10 DEF IInv
<1> QED
  BY <1>5, <1>6

\* A node of a wave goes on, also when the job has ended meanwhile.
LEMMA SiblingMoves ==
  ASSUME IInv, NEW n \in Nodes, run[n] \in Working, NEW x \in Working \cup Outcomes,
         run' = [run EXCEPT ![n] = x], starts' \in SUBSET Nodes,
         artifact' \in [Nodes -> {"none", "reserved", "released", "published"}],
         \A m \in Nodes \ {n} : artifact'[m] = artifact[m],
         artifact'[n] = "published" => artifact[n] = "published",
         artifact'[n] = "reserved" /\ sealed => x = "reserving",
         UNCHANGED <<signal, step, resumed, executed, completed, loopVars, batch, noticed,
                     sealed, durable, order, validated, job>>
  PROVE  IInv'
<1>1. step = "wave" => n \in Wave
  BY DEF IInv, WaveInv
<1>2. step \in {"wave", "ended"}
  BY DEF IInv, WaveInv, TypeOK
<1>3. TypeOK'
  <2>1. run' \in [Nodes -> Outcomes \cup {"idle", "deciding", "running", "reserving", "prepared"}]
    BY DEF IInv, TypeOK, Working
  <2> QED
    BY <2>1 DEF IInv, TypeOK, loopVars, Wave
<1>4. SeqType' /\ ControlInv'
  BY DEF IInv, SeqType, ControlInv, loopVars
<1>5. WaveInv'
  <2>1. \A m \in Nodes : m # n => run'[m] = run[m]
    BY DEF IInv, TypeOK
  <2>2. step = "wave" => \A m \in ToSet(noticed) : m # n
    BY DEF IInv, WaveInv, Working
  <2>3. step = "wave" => \A m \in ToSet(noticed) : m \in Nodes
    BY Members DEF IInv, SeqType
  <2>4. step = "wave" => \A m \in ToSet(noticed) : m \in Wave' /\ run'[m] = "passed"
    BY <2>1, <2>2, <2>3 DEF IInv, WaveInv, Wave
  <2>5. step = "wave" => \A m \in Nodes : run'[m] \in Working => m \in Wave'
    BY <1>1, <2>1 DEF IInv, WaveInv, Wave
  <2>6. /\ step = "wave" => \A m \in Wave' : m \notin executed \cup resumed /\ PhaseOf[m] = "review"
        /\ Increasing(batch)' /\ (step # "ended" => ToSet(order) \subseteq executed)
        /\ step = "wave" <=> ~sealed
    BY DEF IInv, WaveInv, Wave, Increasing
  <2> QED
    BY <1>2, <2>4, <2>5, <2>6 DEF WaveInv
<1>6. LogInv' /\ CancellationReaches'
  BY DEF IInv, LogInv, CancellationReaches, Current, loopVars
<1>7. StableOrder'
  BY DEF IInv, StableOrder, Wave
<1>8. ArtifactsAccounted'
  <2>1. ASSUME NEW m \in Nodes
        PROVE  /\ artifact'[m] = "published" => m \in completed
               /\ artifact'[m] = "reserved" /\ (sealed \/ m \notin Wave) => run'[m] = "reserving"
    <3>1. CASE m = n
      BY <1>1, <1>2, <3>1 DEF IInv, TypeOK, WaveInv, ArtifactsAccounted
    <3>2. CASE m # n
      BY <3>2 DEF IInv, TypeOK, ArtifactsAccounted
    <3> QED
      BY <3>1, <3>2
  <2> QED
    BY <2>1 DEF ArtifactsAccounted, Wave
<1> QED
  BY <1>3, <1>4, <1>5, <1>6, <1>7, <1>8 DEF IInv

\* Every step of a node of a wave.
LEMMA SiblingKeepsIInv ==
  ASSUME IInv, NEW n \in Nodes, Sibling(n)
  PROVE  IInv'
<1>1. /\ run \in [Nodes -> Outcomes \cup {"idle", "deciding", "running", "reserving", "prepared"}]
      /\ artifact \in [Nodes -> {"none", "reserved", "released", "published"}]
      /\ starts \in SUBSET Nodes
  BY DEF IInv, TypeOK
<1>2. artifact[n] = "reserved" /\ sealed => run[n] = "reserving"
  BY DEF IInv, ArtifactsAccounted
<1>3. CASE Begin(n)
  <2> DEFINE x == IF WaveAborted THEN "failed" ELSE "running"
  <2>1. /\ run[n] \in Working /\ run[n] # "reserving"
        /\ run' = [run EXCEPT ![n] = x] /\ x \in Working \cup Outcomes
        /\ starts' \in SUBSET Nodes /\ artifact' = artifact
        /\ UNCHANGED <<signal, step, resumed, executed, completed, loopVars, batch, noticed,
                       sealed, durable, order, validated, job>>
    BY <1>1, <1>3 DEF Begin, Working, Outcomes
  <2> HIDE DEF x
  <2> QED
    BY <1>1, <1>2, <2>1, SiblingMoves
<1>4. CASE Reserve(n)
  <2> DEFINE x == IF WaveAborted THEN "interrupted" ELSE "reserving"
  <2>1. /\ run[n] \in Working /\ run[n] # "reserving"
        /\ run' = [run EXCEPT ![n] = x] /\ x \in Working \cup Outcomes
        /\ starts' = starts
        /\ UNCHANGED <<signal, step, resumed, executed, completed, loopVars, batch, noticed,
                       sealed, durable, order, validated, job>>
    BY <1>1, <1>4 DEF Reserve, Working, Outcomes
  <2>2. /\ artifact' \in [Nodes -> {"none", "reserved", "released", "published"}]
        /\ \A m \in Nodes \ {n} : artifact'[m] = artifact[m]
        /\ artifact'[n] = "published" => artifact[n] = "published"
        /\ artifact'[n] = "reserved" /\ sealed => x = "reserving"
    BY <1>1, <1>2, <1>4, <2>1 DEF Reserve
  <2> HIDE DEF x
  <2> QED
    BY <1>1, <2>1, <2>2, SiblingMoves
<1>5. CASE Prepare(n)
  <2> DEFINE x == IF WaveAborted THEN "interrupted" ELSE "prepared"
  <2>1. /\ run[n] \in Working
        /\ run' = [run EXCEPT ![n] = x] /\ x \in Working \cup Outcomes
        /\ starts' = starts
        /\ UNCHANGED <<signal, step, resumed, executed, completed, loopVars, batch, noticed,
                       sealed, durable, order, validated, job>>
    BY <1>1, <1>5 DEF Prepare, Working, Outcomes
  <2>2. /\ artifact' \in [Nodes -> {"none", "reserved", "released", "published"}]
        /\ \A m \in Nodes \ {n} : artifact'[m] = artifact[m]
        /\ artifact'[n] = "published" => artifact[n] = "published"
        /\ artifact'[n] = "reserved" /\ sealed => x = "reserving"
    BY <1>1, <1>5 DEF Prepare, WaveAborted
  <2> HIDE DEF x
  <2> QED
    BY <1>1, <2>1, <2>2, SiblingMoves
<1>6. CASE \E o \in Outcomes : Settle(n, o)
  <2>1. PICK x \in Outcomes : Settle(n, x)
    BY <1>6
  <2>2. /\ run[n] \in Working /\ run[n] # "reserving"
        /\ run' = [run EXCEPT ![n] = x]
        /\ starts' = starts /\ artifact' = artifact
        /\ UNCHANGED <<signal, step, resumed, executed, completed, loopVars, batch, noticed,
                       sealed, durable, order, validated, job>>
    BY <1>1, <2>1 DEF Settle, Working
  <2>3. x \in Working \cup Outcomes
    OBVIOUS
  <2> QED
    BY <1>1, <1>2, <2>2, <2>3, SiblingMoves
<1> QED
  BY <1>3, <1>4, <1>5, <1>6 DEF Sibling

\* The log goes on with nodes of the present wave, of which it has none yet.
LEMMA OrderExtends ==
  ASSUME IInv, step = "wave", NEW q \in Seq(Nodes), Increasing(q),
         order' = order \o q, batch' = batch
  PROVE  order' \in Seq(Nodes) /\ ToSet(order') = ToSet(order) \cup ToSet(q) /\ StableOrder'
<1>1. order \in Seq(Nodes) /\ ToSet(order) \subseteq executed
      /\ \A n \in Wave : n \notin executed
  BY DEF IInv, SeqType, WaveInv
<1>2. /\ order \o q \in Seq(Nodes) /\ ToSet(order \o q) = ToSet(order) \cup ToSet(q)
      /\ DOMAIN (order \o q) = 1 .. Len(order) + Len(q)
      /\ \A i \in 1 .. Len(order) + Len(q) :
           (order \o q)[i] = IF i <= Len(order) THEN order[i] ELSE q[i - Len(order)]
      /\ Len(order) \in Nat /\ Len(q) \in Nat
      /\ DOMAIN order = 1 .. Len(order) /\ DOMAIN q = 1 .. Len(q)
  BY <1>1, Concatenated, Members
<1> DEFINE o == order \o q
<1> HIDE DEF o
<1>3. ASSUME NEW i \in 1 .. Len(order) + Len(q), o[i] \in Wave
      PROVE  i - Len(order) \in DOMAIN q /\ o[i] = q[i - Len(order)]
  <2>1. ~(i <= Len(order))
    <3> SUFFICES ASSUME i <= Len(order) PROVE FALSE
      OBVIOUS
    <3>1. i \in DOMAIN order /\ o[i] = order[i]
      BY <1>2 DEF o
    <3>2. order[i] \in ToSet(order)
      BY <1>1, <3>1, Members
    <3> QED
      BY <1>1, <1>3, <3>1, <3>2
  <2> QED
    BY <1>2, <2>1 DEF o
<1>4. ASSUME NEW i \in DOMAIN o, NEW j \in DOMAIN o, i < j, o[i] \in Wave, o[j] \in Wave
      PROVE  Position(o[i]) < Position(o[j])
  <2>1. i \in 1 .. Len(order) + Len(q) /\ j \in 1 .. Len(order) + Len(q)
    BY <1>2 DEF o
  <2>2. i - Len(order) \in DOMAIN q /\ j - Len(order) \in DOMAIN q
        /\ o[i] = q[i - Len(order)] /\ o[j] = q[j - Len(order)]
    BY <1>3, <1>4, <2>1
  <2>3. i - Len(order) < j - Len(order)
    BY <1>2, <1>4, <2>1
  <2> QED
    BY <2>2, <2>3 DEF Increasing
<1>5. order' = o /\ Wave' = Wave
  BY DEF o, Wave
<1>6. StableOrder'
  BY <1>4, <1>5 DEF StableOrder
<1> QED
  BY <1>2, <1>6

\* Replayed start events do not touch what was executed before the wave.
LEMMA StartedIs ==
  ASSUME IInv, step = "wave", NEW those \in SUBSET Wave
  PROVE  /\ Started(those) \in [Nodes -> Events]
         /\ \A m \in executed \ (Verifiers \cup resumed) : Started(those)[m] \notin {"none", "started"}
<1>1. durable \in [Nodes -> Events] /\ executed \in SUBSET Nodes
  BY DEF IInv, TypeOK
<1>2. Started(those) = [m \in Nodes |-> IF m \in starts \cap those THEN "started" ELSE durable[m]]
  BY DEF Started
<1>3. Started(those) \in [Nodes -> Events]
  BY <1>1, <1>2 DEF Events
<1>4. \A m \in executed : m \notin Wave
  BY DEF IInv, WaveInv
<1>5. \A m \in executed \ (Verifiers \cup resumed) : durable[m] \notin {"none", "started"}
  BY DEF IInv, LogInv
<1> QED
  BY <1>1, <1>2, <1>3, <1>4, <1>5

\* An abandoned wave gives back what it reserved, and the job ends.
LEMMA WaveAbandoned ==
  ASSUME IInv, step = "wave", NEW those \in SUBSET Wave, Abandon(those), step' = "ended",
         job' \in {"completed", "failed", "panicked"}, executed' \in SUBSET Nodes,
         durable' \in [Nodes -> Events], CancellationReaches'
  PROVE  IInv'
<1>1. /\ sealed' = TRUE /\ artifact' = Discarded
      /\ order' = order \o Among(batch, starts \cap those)
      /\ UNCHANGED <<signal, resumed, completed, loopVars, batch, run, noticed, starts, validated>>
  BY DEF Abandon, StartOnly
<1>2. batch \in Seq(Nodes) /\ Increasing(batch)
  BY DEF IInv, SeqType, WaveInv
<1>3. Among(batch, starts \cap those) \in Seq(Nodes) /\ Increasing(Among(batch, starts \cap those))
  BY <1>2, AmongIs, OrderOfAmong
<1>4. order' \in Seq(Nodes) /\ StableOrder'
  BY <1>1, <1>3, OrderExtends
<1>5. artifact \in [Nodes -> {"none", "reserved", "released", "published"}]
  BY DEF IInv, TypeOK
<1>6. artifact' = [m \in Nodes |-> IF m \in Wave /\ artifact[m] = "reserved" /\ run[m] # "reserving"
                                   THEN "released" ELSE artifact[m]]
  BY <1>1 DEF Discarded
<1>7. artifact' \in [Nodes -> {"none", "reserved", "released", "published"}]
  BY <1>5, <1>6
<1>8. ToSet(order') \subseteq Nodes
  BY <1>4, Members
<1>9. TypeOK'
  BY <1>1, <1>7, <1>8 DEF IInv, TypeOK, loopVars, Wave
<1>10. SeqType'
  BY <1>1, <1>4 DEF IInv, SeqType, loopVars
<1>11. ControlInv' /\ LogInv'
  BY Ended
<1>12. WaveInv'
  BY <1>1, <1>2 DEF WaveInv, Increasing
<1>13. ArtifactsAccounted'
  BY <1>1, <1>5, <1>6 DEF IInv, ArtifactsAccounted, Wave
<1> QED
  BY <1>4, <1>9, <1>10, <1>11, <1>12, <1>13 DEF IInv

\* A failure, or a rejection, in a wave.
LEMMA WaveFails ==
  ASSUME IInv, NEW n \in Nodes, NoticeFailed(n) \/ NoticeThrew(n)
  PROVE  IInv'
<1>1. step = "wave" /\ Abandon(Wave) /\ FailWith(n, Started(Wave))
  BY DEF NoticeFailed, NoticeThrew, Pending
<1>2. resumed' = resumed
  BY <1>1 DEF Abandon
<1>3. /\ Started(Wave) \in [Nodes -> Events]
      /\ \A m \in executed \ (Verifiers \cup resumed) : Started(Wave)[m] \notin {"none", "started"}
  BY <1>1, StartedIs
<1>4. /\ durable' \in [Nodes -> Events] /\ CancellationReaches'
      /\ executed' = executed \cup {n} /\ job' = "failed" /\ step' = "ended"
  BY <1>1, <1>2, <1>3, FailedWith
<1>5. executed' \in SUBSET Nodes
  BY <1>4 DEF IInv, TypeOK
<1> QED
  BY <1>1, <1>4, <1>5, WaveAbandoned

\* An abort, seen by the wave or by one of its nodes.
LEMMA WaveInterrupted ==
  ASSUME IInv, InterruptWave \/ \E n \in Nodes : NoticeInterrupted(n)
  PROVE  IInv'
<1>1. step = "wave" /\ Abandon(Wave) /\ Interrupt(Started(Wave))
  BY DEF InterruptWave, NoticeInterrupted, Pending
<1>2. resumed' = resumed
  BY <1>1 DEF Abandon
<1>3. /\ Started(Wave) \in [Nodes -> Events]
      /\ \A m \in executed \ (Verifiers \cup resumed) : Started(Wave)[m] \notin {"none", "started"}
  BY <1>1, StartedIs
<1>4. /\ durable' \in [Nodes -> Events] /\ CancellationReaches'
      /\ executed' = executed /\ job' = "failed" /\ step' = "ended"
  BY <1>1, <1>2, <1>3, InterruptedWith
<1>5. executed' \in SUBSET Nodes
  BY <1>4 DEF IInv, TypeOK
<1> QED
  BY <1>1, <1>4, <1>5, WaveAbandoned

\* A rejected artifact, whose replay stops half way.
LEMMA WavePoisoned ==
  ASSUME IInv, NEW n \in Nodes, NoticePoisoned(n)
  PROVE  IInv'
<1> DEFINE replayed == {m \in Wave : Position(m) <= Position(n)}
<1>1. /\ step = "wave" /\ Abandon(replayed) /\ durable' = Started(replayed)
      /\ step' = "ended" /\ job' = "panicked" /\ executed' = executed
  BY DEF NoticePoisoned, Pending, EndJob
<1>2. replayed \in SUBSET Wave
  OBVIOUS
<1> HIDE DEF replayed
<1>3. durable' \in [Nodes -> Events]
  BY <1>1, <1>2, StartedIs
<1>4. CancellationReaches' /\ executed' \in SUBSET Nodes
  BY <1>1 DEF IInv, TypeOK, CancellationReaches
<1> QED
  BY <1>1, <1>2, <1>3, <1>4, WaveAbandoned

\* The nodes of a wave pass; with the last of them the wave is replayed.
LEMMA WavePasses ==
  ASSUME IInv, NEW n \in Nodes, NoticePassed(n)
  PROVE  IInv'
<1>1. /\ step = "wave" /\ n \in Wave /\ run[n] = "passed" /\ noticed' = Append(noticed, n)
      /\ UNCHANGED <<signal, resumed, loopVars, batch, run, starts, validated, job>>
  BY DEF NoticePassed, Pending
<1>2. noticed' \in Seq(Nodes) /\ ToSet(noticed') = ToSet(noticed) \cup {n}
  BY <1>1, Appended DEF IInv, SeqType
<1>3. \A m \in ToSet(noticed') : m \in Wave /\ run[m] = "passed"
  BY <1>1, <1>2 DEF IInv, WaveInv
<1>4. batch \in Seq(Nodes) /\ Increasing(batch)
  BY DEF IInv, SeqType, WaveInv
<1>5. Wave \subseteq Nodes /\ ToSet(noticed') \subseteq Nodes
  BY <1>2, <1>4, Members DEF Wave
<1>6. CASE ToSet(noticed') # Wave
  <2>1. UNCHANGED <<step, executed, completed, sealed, artifact, durable, order>>
    BY <1>6 DEF NoticePassed
  <2>2. TypeOK'
    BY <1>1, <1>5, <2>1 DEF IInv, TypeOK, loopVars, Wave
  <2>3. SeqType' /\ ControlInv'
    BY <1>1, <1>2, <2>1 DEF IInv, SeqType, ControlInv, loopVars
  <2>4. WaveInv'
    BY <1>1, <1>3, <2>1 DEF IInv, WaveInv, Wave, Increasing, Working
  <2>5. LogInv' /\ CancellationReaches'
    BY <1>1, <2>1 DEF IInv, LogInv, CancellationReaches
  <2>6. StableOrder' /\ ArtifactsAccounted'
    BY <1>1, <2>1 DEF IInv, StableOrder, ArtifactsAccounted, Wave
  <2> QED
    BY <2>2, <2>3, <2>4, <2>5, <2>6 DEF IInv
<1>7. CASE ToSet(noticed') = Wave
  <2>1. /\ sealed' = TRUE
        /\ artifact' = [m \in Nodes |-> IF m \in Wave THEN "published" ELSE artifact[m]]
        /\ durable' = [m \in Nodes |-> IF m \in Wave THEN "completed" ELSE durable[m]]
        /\ order' = order \o batch
        /\ executed' = executed \cup Wave /\ completed' = completed \cup Wave
        /\ step' = "schedule"
    BY <1>7 DEF NoticePassed, CommitOrder
  <2>2. order' \in Seq(Nodes) /\ ToSet(order') = ToSet(order) \cup ToSet(batch) /\ StableOrder'
    BY <1>1, <1>4, <2>1, OrderExtends
  <2>3. ToSet(order') \subseteq Nodes
    BY <2>2, Members
  <2>4. TypeOK'
    <3>1. /\ artifact' \in [Nodes -> {"none", "reserved", "released", "published"}]
          /\ durable' \in [Nodes -> Events]
      BY <2>1 DEF IInv, TypeOK, Events
    <3> QED
      BY <1>1, <1>5, <2>1, <2>3, <3>1 DEF IInv, TypeOK, loopVars, Wave
  <2>5. SeqType'
    BY <1>1, <1>2, <2>2 DEF IInv, SeqType, loopVars
  <2>6. ControlInv'
    BY <1>1, <2>1 DEF IInv, ControlInv, loopVars
  <2>7. WaveInv'
    <3>1. \A m \in Nodes : run[m] \notin Working
      BY <1>1, <1>3, <1>7 DEF IInv, WaveInv, Working
    <3>2. ToSet(order') \subseteq executed'
      BY <1>1, <2>1, <2>2 DEF IInv, WaveInv, Wave
    <3>3. Increasing(batch')
      BY <1>1, <1>4
    <3> QED
      BY <1>1, <2>1, <3>1, <3>2, <3>3 DEF WaveInv, Increasing
  <2>8. LogInv'
    BY <1>1, <1>5, <2>1 DEF IInv, TypeOK, LogInv
  <2>9. CancellationReaches'
    BY <1>1, <2>1 DEF IInv, ControlInv, CancellationReaches
  <2>10. ArtifactsAccounted'
    BY <1>1, <1>5, <2>1 DEF IInv, TypeOK, ArtifactsAccounted, Wave
  <2> QED
    BY <2>2, <2>4, <2>5, <2>6, <2>7, <2>8, <2>9, <2>10 DEF IInv
<1> QED
  BY <1>6, <1>7

-------------------------------------------------------------------------------
(* The executor's invariant is inductive, and with it the properties it is   *)
(* made of hold of any plan.                                                 *)

\* All steps together.
LEMMA NextKeepsIInv == IInv /\ [Next]_vars => IInv'
<1> SUFFICES ASSUME IInv, [Next]_vars PROVE IInv'
  OBVIOUS
<1>1. CASE Schedule \/ InterruptSchedule \/ AllExecuted
  BY <1>1, BatchScheduled, ScheduleInterrupted, GateComes
<1>2. CASE StartNode \/ SkipNode \/ AbortNode
  BY <1>2, NodeStarts, NodePasses, NodeEnds
<1>3. CASE Finish
  BY <1>3, NodePasses, NodeEnds, JobSettles, NodeDefers DEF Finish
<1>4. CASE \E n \in Nodes : Notice(n)
  BY <1>4, WavePasses, WaveFails, WavePoisoned, WaveInterrupted DEF Notice
<1>5. CASE InterruptWave
  BY <1>5, WaveInterrupted
<1>6. CASE CompleteJob \/ GateFails \/ \E p \in {"execute", "verify"} : GateRepairs(p)
  BY <1>6, JobSettles, GateReruns
<1>7. CASE Abort
  BY <1>7, SignalFires DEF Abort
<1>8. CASE \E n \in Nodes : Sibling(n)
  BY <1>8, SiblingKeepsIInv
<1>9. CASE UNCHANGED vars
  <2>1. signal' \in BOOLEAN
    BY <1>9 DEF IInv, TypeOK, vars
  <2> QED
    BY <1>9, <2>1, SignalFires DEF vars, loopVars, waveVars
<1> QED
  BY <1>1, <1>2, <1>3, <1>4, <1>5, <1>6, <1>7, <1>8, <1>9 DEF Next, Coordinator

\* The invariant holds throughout every execution, whatever the plan.
THEOREM Inductive == Spec => []IInv
<1>1. Init => IInv
  BY InitIInv
<1>2. IInv /\ [Next]_vars => IInv'
  BY NextKeepsIInv
<1> QED
  BY <1>1, <1>2, PTL DEF Spec

-------------------------------------------------------------------------------
(* What is still to come, for plans in which no executor follows a verifier. *)

\* Phases of reviewers, verifiers and executors.
LEMMA PhasesDiffer ==
  /\ \A v \in Verifiers : v \in Nodes /\ PhaseOf[v] # "review" /\ PhaseOf[v] # "execute"
  /\ \A n \in Nodes : PhaseOf[n] = "execute" => n \notin Verifiers
BY DEF Verifiers, VerifyPhases

\* Steps that neither run nor verify anything.
LEMMA NothingVerified ==
  ASSUME VerifyInv, UNCHANGED <<executed, todo, loop, validated>>,
         step = "ended" => step' = "ended", job' = "completed" => job = "completed"
  PROVE  VerifyInv'
<1>1. OrderInv => OrderInv'
  BY DEF OrderInv, Increasing
<1>2. LoopInv => LoopInv'
  BY DEF LoopInv, FromVerify
<1>3. Coming' = Coming
  BY DEF Coming
<1> QED
  BY <1>1, <1>2, <1>3 DEF VerifyInv, CompletedIsVerified

\* Steps that end the job without completing it.
LEMMA NotCompleted ==
  ASSUME step' = "ended", job' # "completed"
  PROVE  VerifyInv'
BY DEF VerifyInv, CompletedIsVerified

\* At the gate nothing is to come, so everything was verified.
LEMMA CompletesVerified ==
  ASSUME IInv, VerifyInv, CompleteJob
  PROVE  VerifyInv'
<1>1. step = "gate" /\ step' = "ended" /\ validated' = validated
  BY DEF CompleteJob, EndJob
<1>2. executed = Nodes /\ loop = NoLoop /\ todo = <<>>
  BY <1>1 DEF IInv, ControlInv
<1>3. ToSet(<<>>) = {}
  BY EmptySeq, Members
<1>4. Coming = {}
  BY <1>2, <1>3, NoLoopIsIdle DEF Coming
<1> QED
  BY <1>1, <1>4 DEF VerifyInv, CompletedIsVerified

\* A rerun of the gate holds all verifiers behind its first node.
LEMMA RerunVerified ==
  ASSUME IInv, VerifyInv, NEW p \in {"execute", "verify"}, GateRepairs(p)
  PROVE  VerifyInv'
<1>1. /\ step = "gate" /\ todo' = Rerun(p) /\ step' = "node"
      /\ UNCHANGED <<executed, loop, validated, job>> /\ From(p) # {}
  BY DEF GateRepairs
<1>2. executed = Nodes /\ loop = NoLoop /\ todo = <<>> /\ job # "completed"
  BY <1>1 DEF IInv, ControlInv
<1>3. /\ Increasing(Rerun(p)) /\ Rerun(p) \in Seq(Nodes)
      /\ ToSet(Rerun(p)) = {n \in Nodes : Min(From(p)) <= Position(n)}
      /\ Min(From(p)) \in DOMAIN Plan
  BY <1>1, RerunIs
<1>4. \A n \in ToSet(Rerun(p)), v \in Verifiers : Position(n) < Position(v) => v \in ToSet(Rerun(p))
  BY <1>3, Positions DEF Verifiers
<1>5. OrderInv'
  <2>1. ToSet(todo') \subseteq Nodes
    BY <1>1, <1>3
  <2>2. Increasing(todo')
    BY <1>1, <1>3 DEF Increasing
  <2>3. Increasing(todo)'
    BY <2>2 DEF Increasing
  <2> QED
    BY <1>1, <1>2, <1>4, <2>1, <2>3 DEF OrderInv
<1>6. LoopInv'
  BY <1>1, <1>2 DEF LoopInv
<1>7. ToSet(<<>>) = {}
  BY EmptySeq, Members
<1>8. Coming \subseteq Coming'
  BY <1>1, <1>2, <1>7 DEF Coming
<1> QED
  BY <1>1, <1>2, <1>5, <1>6, <1>8 DEF VerifyInv, CompletedIsVerified

\* A list of one node.
LEMMA SingleIs ==
  ASSUME NEW n \in Nodes
  PROVE  <<n>> \in Seq(Nodes) /\ ToSet(<<n>>) = {n} /\ Increasing(<<n>>) /\ Len(<<n>>) = 1
<1>1. <<n>> \in Seq(Nodes) /\ DOMAIN <<n>> = {1} /\ <<n>>[1] = n /\ Len(<<n>>) = 1
  OBVIOUS
<1>2. ToSet(<<n>>) = {n}
  BY <1>1 DEF ToSet
<1>3. Increasing(<<n>>)
  BY <1>1 DEF Increasing
<1> QED
  BY <1>1, <1>2, <1>3

\* The scheduler comes to the first node that was not executed.
LEMMA ScheduledVerified ==
  ASSUME IInv, VerifyInv, Schedule
  PROVE  VerifyInv'
<1> DEFINE b == Batch(Ready)
<1>1. /\ step = "schedule" /\ executed # Nodes /\ step' # "ended"
      /\ UNCHANGED <<executed, loop, validated, job>>
  BY DEF Schedule
<1>2. executed \in SUBSET Nodes /\ executed \subseteq completed /\ loop = NoLoop /\ todo = <<>>
      /\ job # "completed"
  BY <1>1 DEF IInv, TypeOK, ControlInv
<1>3. CASE Len(b) # 1
  <2>1. todo' = todo
    BY <1>3 DEF Schedule
  <2> QED
    BY <1>1, <2>1, NothingVerified
<1>4. CASE Len(b) = 1
  <2> DEFINE n == Ready[1]
  <2>1. todo' = b
    BY <1>4 DEF Schedule
  <2>2. /\ Ready \in Seq(Nodes) /\ Ready # <<>> /\ Increasing(Ready)
        /\ ToSet(Ready) \subseteq Nodes \ executed
        /\ \A m \in Nodes : Position(m) < Position(n) => m \in executed
    BY <1>1, <1>2, ReadyIs
  <2>3. b = <<n>>
    BY <1>4, <2>2, BatchIs
  <2>4. n \in Nodes \ executed
    <3>1. 1 \in DOMAIN Ready
      BY <2>2, Members
    <3> QED
      BY <2>2, <3>1, Members
  <2> HIDE DEF n, b
  <2>5. ToSet(todo') = {n} /\ Increasing(todo)'
    <3>1. todo' = <<n>>
      BY <2>1, <2>3
    <3>2. ToSet(todo') = {n} /\ Increasing(todo')
      BY <2>4, <3>1, SingleIs
    <3> QED
      BY <3>2 DEF Increasing
  <2>6. ASSUME NEW v \in Verifiers, Position(n) < Position(v) PROVE v \in Nodes \ executed
    BY <1>1, <2>4, <2>6, PhasesDiffer DEF VerifyInv, OrderInv
  <2>7. OrderInv'
    BY <1>1, <2>2, <2>4, <2>5, <2>6 DEF VerifyInv, OrderInv
  <2>8. LoopInv'
    BY <1>1, <1>2 DEF LoopInv
  <2>9. ToSet(<<>>) = {}
    BY EmptySeq, Members
  <2>10. Coming \subseteq Coming'
    BY <1>1, <1>2, <2>9 DEF Coming
  <2> QED
    BY <1>1, <1>2, <2>7, <2>8, <2>10 DEF VerifyInv, CompletedIsVerified
<1> QED
  BY <1>3, <1>4

\* A wave holds reviews only.
LEMMA WaveVerified ==
  ASSUME IInv, VerifyInv, NEW n \in Nodes, NoticePassed(n)
  PROVE  VerifyInv'
<1>1. step = "wave" /\ UNCHANGED <<todo, loop, validated, job>>
  BY DEF NoticePassed, Pending, loopVars
<1>2. loop = NoLoop /\ todo = <<>> /\ job # "completed"
  BY <1>1 DEF IInv, ControlInv
<1>3. CASE ToSet(noticed') # Wave
  <2>1. UNCHANGED <<step, executed>>
    BY <1>3 DEF NoticePassed
  <2> QED
    BY <1>1, <2>1, NothingVerified
<1>4. CASE ToSet(noticed') = Wave
  <2>1. executed' = executed \cup Wave /\ step' = "schedule"
    BY <1>4 DEF NoticePassed
  <2>2. \A m \in Wave : PhaseOf[m] = "review"
    BY <1>1 DEF IInv, WaveInv
  <2>3. ToSet(<<>>) = {} /\ DOMAIN <<>> = {}
    BY EmptySeq, Members
  <2>4. OrderInv'
    <3>1. ToSet(todo') = {} /\ Increasing(todo)'
      BY <1>1, <1>2, <2>3 DEF Increasing
    <3> QED
      BY <1>1, <2>1, <2>2, <3>1 DEF VerifyInv, OrderInv
  <2>5. LoopInv'
    BY <1>1, <1>2 DEF LoopInv
  <2>6. Verifiers \cap Coming \subseteq Coming'
    BY <1>1, <1>2, <2>1, <2>2, <2>3, PhasesDiffer, NoLoopIsIdle DEF Coming
  <2> QED
    BY <1>1, <1>2, <2>1, <2>4, <2>5, <2>6 DEF VerifyInv, CompletedIsVerified
<1> QED
  BY <1>3, <1>4

\* The node that runs alone is next in plan order, or runs again in a loop.
LEMMA CurrentRuns ==
  ASSUME IInv, VerifyInv, step \in {"node", "running"}
  PROVE  /\ Current \in Nodes
         /\ loop = NoLoop =>
              /\ ToSet(todo) = {Current} \cup ToSet(Tail(todo))
              /\ Increasing(Tail(todo)) /\ Tail(todo) \in Seq(Nodes)
              /\ \A n \in ToSet(Tail(todo)) : Position(Current) < Position(n)
         /\ loop # NoLoop =>
              /\ Current \in executed
              /\ loop.todo \in Seq(Nodes)
              /\ ToSet(loop.todo) = {Current} \cup ToSet(Tail(loop.todo))
              /\ Len(loop.todo) = 1 => Tail(loop.todo) = <<>>
<1>1. Current \in Nodes
  BY CurrentIs
<1>2. CASE loop = NoLoop
  <2> DEFINE c == Head(todo)
             r == Tail(todo)
  <2>1. todo \in Seq(Nodes) /\ todo # <<>> /\ Increasing(todo) /\ Current = c
    BY <1>2 DEF IInv, SeqType, ControlInv, VerifyInv, OrderInv, Current
  <2>2. /\ r \in Seq(Nodes) /\ todo[1] = c /\ Len(r) = Len(todo) - 1
        /\ \A i \in 1 .. Len(todo) - 1 : r[i] = todo[i + 1]
        /\ ToSet(todo) = {c} \cup ToSet(r)
    BY <2>1, HeadAndTail
  <2> HIDE DEF c, r
  <2>3. /\ Len(todo) \in Nat /\ DOMAIN todo = 1 .. Len(todo) /\ DOMAIN r = 1 .. Len(todo) - 1
    BY <2>1, <2>2, Members
  <2>4. Increasing(r)
    <3> SUFFICES ASSUME NEW i \in DOMAIN r, NEW j \in DOMAIN r, i < j
                 PROVE  Position(r[i]) < Position(r[j])
      BY DEF Increasing
    <3>1. /\ i + 1 \in DOMAIN todo /\ j + 1 \in DOMAIN todo /\ i + 1 < j + 1
          /\ r[i] = todo[i + 1] /\ r[j] = todo[j + 1]
      BY <2>2, <2>3
    <3> QED
      BY <2>1, <3>1 DEF Increasing
  <2>5. ASSUME NEW n \in ToSet(r) PROVE Position(c) < Position(n)
    <3>1. PICK i \in DOMAIN r : r[i] = n
      BY <2>2, Members
    <3>2. /\ 1 \in DOMAIN todo /\ i + 1 \in DOMAIN todo /\ 1 < i + 1 /\ n = todo[i + 1]
      BY <2>2, <2>3, <3>1
    <3> QED
      BY <2>1, <2>2, <3>2 DEF Increasing
  <2> QED
    BY <1>1, <1>2, <2>1, <2>2, <2>4, <2>5 DEF r
<1>3. CASE loop # NoLoop
  <2>1. loop.todo \in Seq(Nodes) /\ loop.todo # <<>> /\ Current = Head(loop.todo)
    BY <1>3 DEF IInv, SeqType, TypeOK, Loop, Current
  <2>2. /\ ToSet(loop.todo) = {Current} \cup ToSet(Tail(loop.todo))
        /\ Tail(loop.todo) \in Seq(Nodes) /\ Len(Tail(loop.todo)) = Len(loop.todo) - 1
    BY <2>1, HeadAndTail
  <2>3. Current \in executed
    <3>1. ToSet(loop.todo) \subseteq executed
      BY <1>3 DEF VerifyInv, LoopInv, IInv, ControlInv
    <3> QED
      BY <2>2, <3>1
  <2>4. Len(loop.todo) = 1 => Tail(loop.todo) = <<>>
    <3> SUFFICES ASSUME Len(loop.todo) = 1 PROVE Tail(loop.todo) = <<>>
      OBVIOUS
    <3>1. Len(Tail(loop.todo)) = 0
      BY <2>2
    <3> QED
      BY <2>2, <3>1, EmptySeq
  <2> QED
    BY <1>1, <1>3, <2>1, <2>2, <2>3, <2>4
<1> QED
  BY <1>2, <1>3

\* Whether it passes or is taken up by a loop, the order of the plan is kept.
LEMMA OrderKept ==
  ASSUME IInv, VerifyInv, step \in {"node", "running"},
         executed' = executed \cup {Current},
         todo' = IF loop = NoLoop THEN Tail(todo) ELSE todo
  PROVE  OrderInv'
<1>1. OrderInv /\ Current \in Nodes
  BY CurrentRuns DEF VerifyInv
<1>2. CASE loop = NoLoop
  <2> DEFINE c == Current
             r == Tail(todo)
  <2>1. /\ ToSet(todo) = {c} \cup ToSet(r) /\ Increasing(r) /\ todo' = r
        /\ \A n \in ToSet(r) : Position(c) < Position(n)
        /\ executed' = executed \cup {c} /\ r \in Seq(Nodes)
    BY <1>2, CurrentRuns
  <2> HIDE DEF c, r
  <2>2. \A m \in executed' : PhaseOf[m] # "review" =>
          \A n \in Nodes : Position(n) < Position(m) => n \in executed'
    BY <1>1, <2>1 DEF OrderInv
  <2>3. \A m \in ToSet(r) \ executed' : \A n \in Nodes : Position(n) < Position(m) => n \in executed'
    BY <1>1, <2>1 DEF OrderInv
  <2>4. ASSUME NEW n \in ToSet(r), NEW v \in Verifiers, Position(n) < Position(v)
        PROVE  v \in ToSet(r) \cup (Nodes \ executed')
    <3>1. v # c
      <4>1. Position(c) < Position(n) /\ c \in Nodes /\ n \in Nodes /\ v \in Nodes
        BY <1>1, <2>1, Members DEF c, Verifiers
      <4>2. Position(c) \in Nat /\ Position(n) \in Nat /\ Position(v) \in Nat
        BY <4>1, Positions
      <4> QED
        BY <2>4, <4>1, <4>2
    <3>2. v \in ToSet(todo) \cup (Nodes \ executed)
      BY <1>1, <2>1, <2>4 DEF OrderInv
    <3> QED
      BY <2>1, <3>1, <3>2
  <2>5. Increasing(todo)'
    BY <2>1 DEF Increasing
  <2> QED
    BY <2>1, <2>2, <2>3, <2>4, <2>5 DEF OrderInv
<1>3. CASE loop # NoLoop
  <2>1. executed' = executed /\ todo' = todo
    BY <1>3, CurrentRuns
  <2> QED
    BY <1>1, <2>1 DEF OrderInv, Increasing
<1> QED
  BY <1>2, <1>3

\* Advancing leaves everything but the present node to come.
LEMMA StillComing ==
  ASSUME IInv, VerifyInv, step \in {"node", "running"}, Advance(Current)
  PROVE  /\ step' # "ended" /\ OrderInv' /\ LoopInv'
         /\ Coming \ {Current} \subseteq Coming'
<1> DEFINE c == Current
<1>1. /\ executed' = executed \cup {c} /\ step' # "ended" /\ step # "ended"
      /\ todo' = IF loop = NoLoop THEN Tail(todo) ELSE todo
  BY AdvanceIs DEF Advance
<1>2. OrderInv'
  BY <1>1, OrderKept
<1>3. CASE loop = NoLoop
  <2>1. loop' = NoLoop /\ todo' = Tail(todo)
    BY <1>3 DEF Advance
  <2>2. ToSet(todo) = {c} \cup ToSet(Tail(todo))
    BY <1>3, CurrentRuns
  <2> HIDE DEF c
  <2>3. Coming \ {c} \subseteq Coming'
    BY <1>1, <1>3, <2>1, <2>2 DEF Coming
  <2> QED
    BY <1>1, <1>2, <2>1, <2>3 DEF LoopInv, c
<1>4. CASE loop # NoLoop
  <2>1. /\ c \in executed /\ loop.todo \in Seq(Nodes)
        /\ ToSet(loop.todo) = {c} \cup ToSet(Tail(loop.todo))
        /\ Len(loop.todo) = 1 => Tail(loop.todo) = <<>>
    BY <1>4, CurrentRuns
  <2>2. LoopInv /\ loop \in Loop
    BY <1>1 DEF VerifyInv, IInv, SeqType
  <2> HIDE DEF c
  <2>3. executed' = executed /\ todo' = todo
    BY <1>1, <1>4, <2>1
  <2>4. CASE Len(loop.todo) = 1
    <3>1. loop' = NoLoop
      BY <1>4, <2>4 DEF Advance
    <3>2. ToSet(<<>>) = {}
      BY EmptySeq, Members
    <3>3. Coming \ {c} \subseteq Coming'
      BY <2>1, <2>3, <2>4, <3>1, <3>2 DEF Coming
    <3> QED
      BY <1>1, <1>2, <3>1, <3>3 DEF LoopInv, c
  <2>5. CASE Len(loop.todo) # 1
    <3>1. loop' = [loop EXCEPT !.todo = Tail(@)]
      BY <1>4, <2>5 DEF Advance
    <3>2. loop'.kind = loop.kind /\ loop'.suffix = loop.suffix /\ loop'.todo = Tail(loop.todo)
      BY <2>2, <3>1 DEF Loop
    <3>3. LoopInv'
      <4>1. FromVerify(loop'.suffix) = FromVerify(loop.suffix)
        BY <3>2
      <4>2. /\ ToSet(loop.suffix) \subseteq Verifiers \cap executed /\ ToSet(loop.todo) \subseteq executed
            /\ Verifiers \subseteq ToSet(loop.suffix) \cup ToSet(todo) \cup (Nodes \ executed)
            /\ ToSet(loop.todo) \cap Verifiers \subseteq ToSet(loop.suffix)
            /\ ToSet(loop.todo) \subseteq Verifiers \/ Tail(loop.todo) = loop.suffix
            /\ loop.kind = "retry" => FromVerify(loop.suffix) # {} /\
                 ToSet(loop.todo) \subseteq
                   ToSet(SubSeq(loop.suffix, Min(FromVerify(loop.suffix)), Len(loop.suffix)))
        BY <1>4, <2>2, <2>5 DEF LoopInv
      <4>3. ToSet(loop'.todo) \subseteq ToSet(loop.todo)
        BY <2>1, <3>2
      <4>4. ToSet(loop'.todo) \subseteq Verifiers
        BY <3>2, <4>2, <4>3
      <4> QED
        BY <2>3, <3>2, <4>1, <4>2, <4>3, <4>4 DEF LoopInv, FromVerify
    <3>4. Coming \ {c} \subseteq Coming'
      BY <2>1, <2>3, <3>2 DEF Coming
    <3> QED
      BY <1>1, <1>2, <3>3, <3>4 DEF c
  <2> QED
    BY <2>4, <2>5
<1> QED
  BY <1>3, <1>4

\* Whoever makes a new candidate has every verifier still before it.
LEMMA VerifiersFollow ==
  ASSUME ExecutorsFirst, IInv, VerifyInv, step \in {"node", "running"}, Advance(Current),
         PhaseOf[Current] = "execute"
  PROVE  Verifiers \subseteq Coming'
<1> DEFINE c == Current
<1>1. /\ executed' = executed \cup {c} /\ c \in Nodes /\ c \notin Verifiers
      /\ PhaseOf[c] = "execute" /\ OrderInv /\ LoopInv
  BY AdvanceIs, CurrentIs, PhasesDiffer DEF VerifyInv
<1>2. CASE loop = NoLoop
  <2>1. todo' = Tail(todo) /\ ToSet(todo) = {c} \cup ToSet(Tail(todo))
    BY <1>2, CurrentRuns DEF Advance
  <2> HIDE DEF c
  <2>2. ASSUME NEW v \in Verifiers PROVE v \in ToSet(todo) \cup (Nodes \ executed)
    BY <1>1, <2>1 DEF OrderInv, ExecutorsFirst
  <2> QED
    BY <1>1, <2>1, <2>2 DEF Coming
<1>3. CASE loop # NoLoop
  <2>1. /\ c \in executed /\ loop.todo \in Seq(Nodes) /\ todo' = todo
        /\ ToSet(loop.todo) = {c} \cup ToSet(Tail(loop.todo))
        /\ Len(loop.todo) = 1 => Tail(loop.todo) = <<>>
    BY <1>3, CurrentRuns DEF Advance
  <2>2. loop \in Loop
    BY DEF IInv, SeqType
  <2> HIDE DEF c
  <2>3. /\ Verifiers \subseteq ToSet(loop.suffix) \cup ToSet(todo) \cup (Nodes \ executed)
        /\ Tail(loop.todo) = loop.suffix
    BY <1>1, <1>3, <2>1 DEF LoopInv
  <2>4. executed' = executed
    BY <1>1, <2>1
  <2>5. ToSet(loop.suffix) \subseteq ToSet(loop'.todo)
    <3>1. CASE Len(loop.todo) = 1
      <4>1. ToSet(<<>>) = {}
        BY EmptySeq, Members
      <4> QED
        BY <2>1, <2>3, <3>1, <4>1
    <3>2. CASE Len(loop.todo) # 1
      <4>1. loop' = [loop EXCEPT !.todo = Tail(@)]
        BY <1>3, <3>2 DEF Advance
      <4>2. loop'.todo = Tail(loop.todo)
        BY <2>2, <4>1 DEF Loop
      <4> QED
        BY <2>3, <4>2
    <3> QED
      BY <3>1, <3>2
  <2> QED
    BY <2>1, <2>3, <2>4, <2>5 DEF Coming
<1> QED
  BY <1>2, <1>3

\* A verifier that passes is no longer to come; an executor sends all back.
LEMMA PassVerified ==
  ASSUME ExecutorsFirst, IInv, VerifyInv, SkipNode \/ PassNode
  PROVE  VerifyInv'
<1>1. step \in {"node", "running"} /\ Advance(Current) /\ job' = job
  BY DEF SkipNode, PassNode
<1>2. /\ step' # "ended" /\ OrderInv' /\ LoopInv'
      /\ Coming \ {Current} \subseteq Coming'
  BY <1>1, StillComing
<1>3. Verifiers \subseteq validated \cup Coming /\ job' # "completed"
  BY <1>1 DEF VerifyInv, IInv, ControlInv
<1>4. Verifiers \subseteq validated' \cup Coming'
  <2>1. CASE validated' = {}
    <3>1. CASE PhaseOf[Current] = "execute"
      BY <1>1, <3>1, VerifiersFollow
    <3>2. CASE PhaseOf[Current] # "execute"
      <4>1. validated \cup ({Current} \cap Verifiers) = {}
        BY <2>1, <3>2 DEF SkipNode, PassNode
      <4> QED
        BY <1>2, <1>3, <4>1
    <3> QED
      BY <3>1, <3>2
  <2>2. CASE validated' # {}
    <3>1. validated' = validated \cup ({Current} \cap Verifiers)
      BY <2>2 DEF SkipNode, PassNode
    <3> QED
      BY <1>2, <1>3, <3>1
  <2> QED
    BY <2>1, <2>2
<1> QED
  BY <1>2, <1>3, <1>4 DEF VerifyInv, CompletedIsVerified

\* What a loop that takes up the failure of a verifier will run: the executor
\* and all that a repair reruns, or what a retry reruns; the verifier at least.
LEMMA NextTodoIs ==
  ASSUME ExecutorsFirst, IInv, NEW i \in BOOLEAN, Current \in Verifiers,
         NextLoop(Current, i) # NoLoop,
         Failing(Current) \in Seq(Nodes), ToSet(Failing(Current)) \subseteq Verifiers,
         Current \in ToSet(Failing(Current))
  PROVE  LET next == NextLoop(Current, i)
             s == Failing(Current)
         IN  \/ /\ next.kind = "repair" /\ Executors(Current) # {}
                /\ ToSet(next.todo) = {ExecutorOf(Current)} \cup ToSet(s)
                /\ Tail(next.todo) = s
             \/ /\ next.kind = "retry" /\ FromVerify(s) = {}
                /\ next.todo = <<Current>> /\ ToSet(next.todo) = {Current}
             \/ /\ next.kind = "retry" /\ FromVerify(s) # {}
                /\ next.todo = SubSeq(s, Min(FromVerify(s)), Len(s))
                /\ ToSet(next.todo) = {s[k] : k \in Min(FromVerify(s)) .. Len(s)}
                /\ Min(FromVerify(s)) \in DOMAIN s
<1> DEFINE next == NextLoop(Current, i)
           s == Failing(Current)
           c == Current
<1>1. SeqType /\ c \in Nodes
  BY PhasesDiffer DEF IInv
<1>2. \/ /\ next.kind = "repair" /\ Executors(c) # {}
         /\ next.todo = <<ExecutorOf(c)>> \o s
      \/ /\ next.kind = "retry"
         /\ next.todo = RetrySuffix(s, c)
  BY <1>1, NextLoopIs
<1>3. s \in Seq(Nodes)
  OBVIOUS
<1> HIDE DEF next, s, c
<1>4. CASE next.kind = "repair" /\ Executors(c) # {} /\ next.todo = <<ExecutorOf(c)>> \o s
  <2> DEFINE e == ExecutorOf(c)
  <2>1. e \in Nodes
    BY <1>1, <1>4, ExecutorIs DEF Executors
  <2> HIDE DEF e
  <2>2. <<e>> \in Seq(Nodes) /\ ToSet(<<e>>) = {e} /\ Len(<<e>>) = 1 /\ <<e>>[1] = e
    BY <2>1, SingleIs
  <2>3. ToSet(<<e>> \o s) = {e} \cup ToSet(s)
    <3> DEFINE u == <<e>>
    <3>1. u \in Seq(Nodes)
      BY <2>2
    <3> HIDE DEF u
    <3>2. ToSet(u \o s) = ToSet(u) \cup ToSet(s)
      BY <1>3, <3>1, Concatenated
    <3> QED
      BY <2>2, <3>2 DEF u
  <2>4. Tail(<<e>> \o s) = s
    <3>1. <<e>> \o s \in Seq(Nodes) /\ Len(<<e>> \o s) = 1 + Len(s) /\ Len(s) \in Nat
      BY <1>3, <2>2, ConcatProperties, Members
    <3>2. \A k \in 1 .. 1 + Len(s) : (<<e>> \o s)[k] = IF k <= 1 THEN <<e>>[k] ELSE s[k - 1]
      BY <1>3, <2>2, Concatenated
    <3> DEFINE q == <<e>> \o s
    <3>3. q # <<>>
      <4>1. Len(q) # 0
        BY <3>1
      <4> QED
        BY <3>1, <4>1, EmptySeq
    <3> HIDE DEF q
    <3>4. /\ Tail(q) \in Seq(Nodes) /\ Len(Tail(q)) = Len(q) - 1
          /\ \A k \in 1 .. Len(q) - 1 : Tail(q)[k] = q[k + 1]
      BY <3>1, <3>3, HeadAndTail DEF q
    <3>5. Len(Tail(q)) = Len(s) /\ Len(q) = 1 + Len(s)
      BY <3>1, <3>4 DEF q
    <3>6. ASSUME NEW k \in 1 .. Len(s) PROVE Tail(q)[k] = s[k]
      <4>1. k \in 1 .. Len(q) - 1 /\ k + 1 \in 1 .. 1 + Len(s) /\ ~(k + 1 <= 1) /\ (k + 1) - 1 = k
        BY <3>1, <3>5
      <4>2. q[k + 1] = s[k]
        BY <3>2, <4>1 DEF q
      <4> QED
        BY <3>4, <4>1, <4>2
    <3>7. Tail(q) = s
      BY <1>3, <3>4, <3>5, <3>6, SeqEqual
    <3> QED
      BY <3>7 DEF q
  <2> QED
    BY <1>4, <2>3, <2>4 DEF next, s, c, e
<1>5. CASE next.kind = "retry" /\ next.todo = RetrySuffix(s, c) /\ FromVerify(s) = {}
  <2>1. next.todo = <<c>> /\ ToSet(<<c>>) = {c}
    BY <1>1, <1>3, <1>5, RetrySuffixIs, SingleIs
  <2> QED
    BY <1>5, <2>1 DEF next, s, c
<1>6. CASE next.kind = "retry" /\ next.todo = RetrySuffix(s, c) /\ FromVerify(s) # {}
  <2>1. /\ Min(FromVerify(s)) \in DOMAIN s
        /\ next.todo = SubSeq(s, Min(FromVerify(s)), Len(s))
    BY <1>1, <1>3, <1>6, RetrySuffixIs
  <2>2. Len(s) \in Min(FromVerify(s)) .. Len(s)
    BY <1>3, <2>1, Members
  <2>3. ToSet(SubSeq(s, Min(FromVerify(s)), Len(s))) = {s[k] : k \in Min(FromVerify(s)) .. Len(s)}
    <3> DEFINE m == Min(FromVerify(s))
    <3>1. m \in DOMAIN s /\ Len(s) \in m .. Len(s)
      BY <2>1, <2>2
    <3> HIDE DEF m
    <3>2. ToSet(SubSeq(s, m, Len(s))) = {s[k] : k \in m .. Len(s)}
      BY <1>3, <3>1, Slice
    <3> QED
      BY <3>2 DEF m
  <2> QED
    BY <1>6, <2>1, <2>3 DEF next, s, c
<1> QED
  BY <1>2, <1>4, <1>5, <1>6

\* The verifiers up to the one that failed are in its suffix, the others to come.
LEMMA FailingIs ==
  ASSUME ExecutorsFirst, IInv, VerifyInv, step = "running", Current \in Verifiers,
         executed' = executed \cup {Current},
         todo' = IF loop = NoLoop THEN Tail(todo) ELSE todo
  PROVE  /\ Failing(Current) \in Seq(Nodes) /\ Current \in ToSet(Failing(Current))
         /\ ToSet(Failing(Current)) \subseteq Verifiers \cap executed'
         /\ Verifiers \subseteq ToSet(Failing(Current)) \cup ToSet(todo') \cup (Nodes \ executed')
         /\ Executors(Current) # {} =>
              ExecutorOf(Current) \in executed' /\ ExecutorOf(Current) \notin Verifiers
<1> DEFINE c == Current
           s == Failing(Current)
<1>1. /\ OrderInv /\ LoopInv /\ OrderInv' /\ c \in Nodes /\ c \in Verifiers
      /\ PhaseOf[c] # "review" /\ executed' = executed \cup {c}
  BY OrderKept, PhasesDiffer DEF VerifyInv
<1>2. \A n \in Nodes : Position(n) < Position(c) => n \in executed'
  BY <1>1 DEF OrderInv
<1>3. ASSUME Executors(c) # {}
      PROVE  /\ ExecutorOf(c) \in Nodes /\ Position(ExecutorOf(c)) < Position(c)
             /\ PhaseOf[ExecutorOf(c)] = "execute" /\ ExecutorOf(c) \notin Verifiers
             /\ ExecutorOf(c) \in executed'
  <2>1. ExecutorOf(c) \in Executors(c)
    BY <1>1, <1>3, ExecutorIs
  <2> QED
    BY <1>2, <2>1, PhasesDiffer DEF Executors
<1>4. CASE loop = NoLoop
  <2>1. s = Suffix(c) /\ todo' = Tail(todo) /\ ToSet(todo) = {c} \cup ToSet(Tail(todo))
    BY <1>4, CurrentRuns DEF Failing
  <2>2. /\ s \in Seq(Nodes)
        /\ ToSet(s) = {v \in Verifiers :
                         /\ Position(v) <= Position(c)
                         /\ Executors(c) # {} => Position(ExecutorOf(c)) <= Position(v)}
    BY <1>1, <2>1, SuffixIs
  <2> HIDE DEF c, s
  <2>3. ASSUME NEW v \in Verifiers, Position(v) <= Position(c) PROVE v \in ToSet(s) /\ v \in executed'
    <3>1. v \in Nodes /\ Position(v) \in Nat /\ Position(c) \in Nat
      BY <1>1, Positions, PhasesDiffer
    <3>2. Executors(c) # {} => Position(ExecutorOf(c)) <= Position(v)
      <4> SUFFICES ASSUME Executors(c) # {} PROVE Position(ExecutorOf(c)) <= Position(v)
        OBVIOUS
      <4>1. ExecutorOf(c) \in Nodes /\ PhaseOf[ExecutorOf(c)] = "execute"
        BY <1>3
      <4>2. Position(ExecutorOf(c)) < Position(v) /\ Position(ExecutorOf(c)) \in Nat
        BY <4>1, Positions DEF ExecutorsFirst
      <4> QED
        BY <3>1, <4>2
    <3>3. v \in executed'
      <4>1. CASE Position(v) = Position(c)
        BY <1>1, <3>1, <4>1, Positions
      <4>2. CASE Position(v) # Position(c)
        BY <1>2, <2>3, <3>1, <4>2
      <4> QED
        BY <4>1, <4>2
    <3> QED
      BY <2>2, <2>3, <3>2, <3>3
  <2>4. c \in ToSet(s)
    BY <1>1, <2>3, Positions
  <2>5. ToSet(s) \subseteq Verifiers \cap executed'
    BY <2>2, <2>3
  <2>6. ASSUME NEW v \in Verifiers PROVE v \in ToSet(s) \cup ToSet(todo') \cup (Nodes \ executed')
    <3>1. v \in Nodes /\ Position(v) \in Nat /\ Position(c) \in Nat
      BY <1>1, Positions, PhasesDiffer
    <3>2. CASE Position(v) <= Position(c)
      BY <2>3, <3>2
    <3>3. CASE ~(Position(v) <= Position(c))
      <4>1. Position(c) < Position(v) /\ v # c
        BY <3>1, <3>3
      <4>2. v \in ToSet(todo) \cup (Nodes \ executed)
        BY <1>1, <2>1, <4>1 DEF OrderInv
      <4> QED
        BY <1>1, <2>1, <4>1, <4>2
    <3> QED
      BY <3>2, <3>3
  <2> QED
    BY <1>3, <2>2, <2>4, <2>5, <2>6 DEF c, s
<1>5. CASE loop # NoLoop
  <2>1. /\ c \in executed /\ loop.todo \in Seq(Nodes)
        /\ ToSet(loop.todo) = {c} \cup ToSet(Tail(loop.todo))
    BY <1>5, CurrentRuns
  <2>2. s = loop.suffix /\ todo' = todo /\ executed' = executed /\ s \in Seq(Nodes)
    BY <1>5, <2>1 DEF Failing, IInv, SeqType, Loop
  <2> HIDE DEF c, s
  <2>3. /\ ToSet(s) \subseteq Verifiers \cap executed
        /\ Verifiers \subseteq ToSet(s) \cup ToSet(todo) \cup (Nodes \ executed)
        /\ ToSet(loop.todo) \cap Verifiers \subseteq ToSet(s)
    BY <1>1, <1>5, <2>2 DEF LoopInv
  <2> QED
    BY <1>1, <1>3, <2>1, <2>2, <2>3 DEF c, s
<1> QED
  BY <1>4, <1>5

\* A retry is only ever followed by a repair, never the other way round.
LEMMA RetryFollows ==
  ASSUME NEW i \in BOOLEAN, NEW n, loop \in Loop, NextLoop(n, i).kind = "retry"
  PROVE  loop.kind \in {"none", "retry"}
<1>1. loop.kind \in {"none", "retry", "repair"}
  BY DEF Loop
<1>2. CASE loop.kind = "repair"
  <2>1. NextLoop(n, i) = RepairLoop(n, loop.suffix, loop.round + 1)
    BY <1>2 DEF NextLoop
  <2>2. RepairLoop(n, loop.suffix, loop.round + 1).kind # "retry"
    BY DEF RepairLoop, NoLoop
  <2> QED
    BY <2>1, <2>2
<1> QED
  BY <1>1, <1>2

\* The suffix ends with the verifier it was made for.
LEMMA SuffixEnds ==
  ASSUME NEW c \in Verifiers, c \in ToSet(Suffix(c))
  PROVE  Suffix(c) # <<>> /\ Suffix(c)[Len(Suffix(c))] = c
<1> DEFINE s == Suffix(c)
<1>1. /\ c \in Nodes /\ s \in Seq(Nodes) /\ Increasing(s)
      /\ \A v \in ToSet(s) : v \in Nodes /\ Position(v) <= Position(c)
  BY SuffixIs, PhasesDiffer
<1>2. c \in ToSet(s)
  OBVIOUS
<1> HIDE DEF s
<1>3. PICK k \in DOMAIN s : s[k] = c
  BY <1>1, <1>2, Members
<1>4. Len(s) \in Nat /\ DOMAIN s = 1 .. Len(s) /\ s # <<>> /\ k \in 1 .. Len(s)
  BY <1>1, <1>2, <1>3, Members
<1>5. k = Len(s)
  <2> SUFFICES ASSUME k # Len(s) PROVE FALSE
    OBVIOUS
  <2>1. k < Len(s) /\ Len(s) \in DOMAIN s
    BY <1>4
  <2>2. Position(s[k]) < Position(s[Len(s)])
    BY <1>1, <1>4, <2>1 DEF Increasing
  <2>3. s[Len(s)] \in ToSet(s)
    BY <1>1, <2>1, Members
  <2>4. Position(s[Len(s)]) <= Position(c) /\ Position(s[Len(s)]) \in Nat /\ Position(c) \in Nat
    BY <1>1, <2>3, Positions
  <2> QED
    BY <1>3, <2>2, <2>4
<1> QED
  BY <1>3, <1>4, <1>5 DEF s

\* A verifier whose failure is taken up comes again.
LEMMA DeferVerified ==
  ASSUME ExecutorsFirst, IInv, VerifyInv, NEW i \in BOOLEAN, DeferFailure(i)
  PROVE  VerifyInv'
<1> DEFINE c == Current
           s == Failing(Current)
           next == NextLoop(Current, i)
<1>1. step = "running" /\ c \in Verifiers /\ validated' = validated \ {c} /\ job # "completed"
  BY DEF DeferFailure, IInv, ControlInv
<1>2. CASE next = NoLoop
  <2>1. step' = "ended" /\ job' = "failed"
    BY <1>2 DEF DeferFailure, FailWith, EndJob
  <2> QED
    BY <2>1, NotCompleted
<1>3. CASE next # NoLoop
  <2>1. /\ loop' = next /\ step' = "node" /\ job' = job
        /\ todo' = IF loop = NoLoop THEN Tail(todo) ELSE todo
        /\ executed' = executed \cup {c}
    BY <1>3 DEF DeferFailure
  <2>2. OrderInv' /\ LoopInv /\ Verifiers \subseteq validated \cup Coming
    BY <1>1, <2>1, OrderKept DEF VerifyInv
  <2>3. /\ s \in Seq(Nodes) /\ c \in ToSet(s)
        /\ ToSet(s) \subseteq Verifiers \cap executed'
        /\ Verifiers \subseteq ToSet(s) \cup ToSet(todo') \cup (Nodes \ executed')
        /\ Executors(c) # {} => ExecutorOf(c) \in executed' /\ ExecutorOf(c) \notin Verifiers
    BY <1>1, <2>1, FailingIs
  <2>4. \/ /\ next.kind = "repair" /\ Executors(c) # {}
           /\ ToSet(next.todo) = {ExecutorOf(c)} \cup ToSet(s)
           /\ Tail(next.todo) = s
        \/ /\ next.kind = "retry" /\ FromVerify(s) = {}
           /\ next.todo = <<c>> /\ ToSet(next.todo) = {c}
        \/ /\ next.kind = "retry" /\ FromVerify(s) # {}
           /\ next.todo = SubSeq(s, Min(FromVerify(s)), Len(s))
           /\ ToSet(next.todo) = {s[k] : k \in Min(FromVerify(s)) .. Len(s)}
           /\ Min(FromVerify(s)) \in DOMAIN s
    BY <1>1, <1>3, <2>3, NextTodoIs
  <2>5. next.suffix = s /\ (next.kind = "retry" => loop.kind \in {"none", "retry"})
        /\ loop \in Loop /\ (loop.kind = "none" => loop = NoLoop)
    <3>1. SeqType /\ c \in Nodes
      BY <1>1, PhasesDiffer DEF IInv
    <3>2. loop \in Loop /\ (loop.kind = "none" => loop = NoLoop)
      BY <3>1 DEF SeqType
    <3> QED
      BY <1>3, <3>1, <3>2, NextLoopIs, RetryFollows
  <2>6. loop = NoLoop =>
          /\ ToSet(todo) = {c} \cup ToSet(Tail(todo))
          /\ s # <<>> /\ s[Len(s)] = c
    <3> SUFFICES ASSUME loop = NoLoop
                 PROVE  ToSet(todo) = {c} \cup ToSet(Tail(todo)) /\ s # <<>> /\ s[Len(s)] = c
      OBVIOUS
    <3>1. s = Suffix(c)
      BY DEF Failing
    <3>2. s # <<>> /\ s[Len(s)] = c
      BY <1>1, <2>3, <3>1, SuffixEnds
    <3> QED
      BY <1>1, <3>2, CurrentRuns
  <2>7. loop # NoLoop =>
          /\ c \in executed /\ s = loop.suffix /\ loop.todo \in Seq(Nodes)
          /\ ToSet(loop.todo) = {c} \cup ToSet(Tail(loop.todo))
          /\ Len(loop.todo) = 1 => Tail(loop.todo) = <<>>
    BY <1>1, CurrentRuns DEF Failing
  <2> HIDE DEF c, s, next
  <2>8. Len(<<c>>) = 1 /\ ToSet(<<>>) = {}
    BY EmptySeq, Members
  <2>9. \A k \in Min(FromVerify(s)) .. Len(s) : FromVerify(s) # {} /\ Min(FromVerify(s)) \in DOMAIN s =>
          s[k] \in ToSet(s)
    <3> SUFFICES ASSUME NEW k \in Min(FromVerify(s)) .. Len(s), Min(FromVerify(s)) \in DOMAIN s
                 PROVE  s[k] \in ToSet(s)
      OBVIOUS
    <3>1. k \in DOMAIN s
      BY <2>3, Members
    <3> QED
      BY <2>3, <3>1, Members
  <2>10. LoopInv'
    <3>1. next.kind = "retry" => ToSet(next.todo) \subseteq ToSet(s)
      <4>1. CASE FromVerify(s) = {}
        BY <2>3, <2>4, <4>1
      <4>2. CASE FromVerify(s) # {}
        BY <2>4, <2>9, <4>2
      <4> QED
        BY <4>1, <4>2
    <3>2. ToSet(next.todo) \subseteq executed'
      BY <2>3, <2>4, <3>1
    <3>3. ToSet(next.todo) \cap Verifiers \subseteq ToSet(s)
      BY <2>3, <2>4, <3>1
    <3>4. ToSet(next.todo) \subseteq Verifiers \/ Tail(next.todo) = s
      BY <2>3, <2>4, <3>1
    <3>5. next.kind = "retry" =>
            /\ FromVerify(s) = {} => Len(next.todo) = 1
            /\ FromVerify(s) # {} =>
                 ToSet(next.todo) \subseteq ToSet(SubSeq(s, Min(FromVerify(s)), Len(s)))
      BY <2>4, <2>8
    <3>6. loop'.todo = next.todo /\ loop'.suffix = s /\ loop'.kind = next.kind
      BY <2>1, <2>5
    <3>7. FromVerify(loop'.suffix) = FromVerify(s)
      BY <3>6
    <3> QED
      BY <2>3, <3>2, <3>4, <3>5, <3>6, <3>7, <3>3 DEF LoopInv, FromVerify
  <2>11. ASSUME NEW v \in Verifiers PROVE v \in validated' \cup Coming'
    <3>1. CASE v = c
      <4>1. c \in ToSet(next.todo)
        <5>1. CASE next.kind = "repair" \/ FromVerify(s) = {}
          BY <2>3, <2>4, <5>1
        <5>2. CASE next.kind = "retry" /\ FromVerify(s) # {} /\ loop = NoLoop
          <6>1. Min(FromVerify(s)) \in DOMAIN s /\ Len(s) \in Nat /\ DOMAIN s = 1 .. Len(s)
            BY <2>3, <2>4, <5>2, Members
          <6>2. Len(s) \in Min(FromVerify(s)) .. Len(s)
            BY <6>1
          <6> QED
            BY <2>4, <2>6, <5>2, <6>2
        <5>3. CASE next.kind = "retry" /\ FromVerify(s) # {} /\ loop # NoLoop
          <6>1. ToSet(loop.todo) \subseteq ToSet(SubSeq(s, Min(FromVerify(s)), Len(s)))
            BY <2>2, <2>5, <2>7, <5>3 DEF LoopInv
          <6> QED
            BY <2>4, <2>7, <5>3, <6>1
        <5> QED
          BY <2>4, <5>1, <5>2, <5>3
      <4> QED
        BY <2>1, <3>1, <4>1 DEF Coming
    <3>2. CASE v # c /\ loop = NoLoop
      <4>1. v \in validated \cup (Nodes \ executed) \cup ToSet(todo)
        BY <2>2, <2>8, <3>2, NoLoopIsIdle DEF Coming
      <4> QED
        BY <1>1, <2>1, <2>6, <3>2, <4>1 DEF Coming
    <3>3. CASE v # c /\ loop # NoLoop
      <4>1. executed' = executed /\ todo' = todo
        BY <2>1, <2>7, <3>3
      <4>2. v \in validated \cup (Nodes \ executed) \cup ToSet(todo) \cup ToSet(loop.todo)
        BY <2>2 DEF Coming
      <4>3. ASSUME v \in ToSet(loop.todo) PROVE v \in ToSet(next.todo)
        <5>1. v \in ToSet(s)
          BY <2>2, <2>7, <3>3, <4>3 DEF LoopInv
        <5>2. CASE next.kind = "repair"
          BY <2>4, <5>1, <5>2
        <5>3. CASE next.kind = "retry" /\ FromVerify(s) = {}
          <6>1. Len(loop.todo) = 1
            BY <2>2, <2>5, <2>7, <3>3, <5>3 DEF LoopInv
          <6> QED
            BY <2>7, <2>8, <3>3, <4>3, <6>1
        <5>4. CASE next.kind = "retry" /\ FromVerify(s) # {}
          <6>1. ToSet(loop.todo) \subseteq ToSet(SubSeq(s, Min(FromVerify(s)), Len(s)))
            BY <2>2, <2>5, <2>7, <3>3, <5>4 DEF LoopInv
          <6> QED
            BY <2>4, <4>3, <5>4, <6>1
        <5> QED
          BY <2>4, <5>2, <5>3, <5>4
      <4> QED
        BY <1>1, <2>1, <3>3, <4>1, <4>2, <4>3 DEF Coming
    <3> QED
      BY <3>1, <3>2, <3>3
  <2> QED
    BY <1>1, <2>1, <2>2, <2>10, <2>11 DEF VerifyInv, CompletedIsVerified
<1> QED
  BY <1>2, <1>3

-------------------------------------------------------------------------------
(* The theorems.                                                             *)

\* At first everything is to come.
LEMMA InitVerifyInv == Init => VerifyInv
<1> SUFFICES ASSUME Init PROVE VerifyInv
  OBVIOUS
<1>1. ToSet(<<>>) = {} /\ DOMAIN <<>> = {}
  BY EmptySeq, Members
<1>2. OrderInv
  BY <1>1 DEF Init, OrderInv, Increasing
<1>3. LoopInv
  BY DEF Init, LoopInv
<1>4. Verifiers \subseteq Coming
  BY DEF Init, Coming, Verifiers
<1> QED
  BY <1>2, <1>3, <1>4 DEF Init, VerifyInv, CompletedIsVerified

\* All steps together.
LEMMA NextKeepsVerifyInv ==
  ASSUME ExecutorsFirst, IInv, VerifyInv, [Next]_vars
  PROVE  VerifyInv'
<1>1. CASE Schedule
  BY <1>1, ScheduledVerified
<1>2. CASE InterruptSchedule \/ AbortNode \/ FailNode \/ NodeThrows \/ InterruptWave \/ GateFails
  <2>1. step' = "ended" /\ job' # "completed"
    BY <1>2 DEF InterruptSchedule, AbortNode, FailNode, NodeThrows, InterruptWave, GateFails,
                Interrupt, FailWith, EndJob
  <2> QED
    BY <2>1, NotCompleted
<1>3. CASE AllExecuted \/ StartNode
  BY <1>3, NothingVerified DEF AllExecuted, StartNode, loopVars
<1>4. CASE SkipNode \/ PassNode
  BY <1>4, PassVerified
<1>5. CASE \E i \in BOOLEAN : DeferFailure(i)
  BY <1>5, DeferVerified
<1>6. CASE \E n \in Nodes : NoticePassed(n)
  BY <1>6, WaveVerified
<1>7. CASE \E n \in Nodes : NoticeFailed(n) \/ NoticePoisoned(n) \/ NoticeThrew(n) \/ NoticeInterrupted(n)
  <2>1. step' = "ended" /\ job' # "completed"
    BY <1>7 DEF NoticeFailed, NoticePoisoned, NoticeThrew, NoticeInterrupted,
                Interrupt, FailWith, EndJob
  <2> QED
    BY <2>1, NotCompleted
<1>8. CASE CompleteJob
  BY <1>8, CompletesVerified
<1>9. CASE \E p \in {"execute", "verify"} : GateRepairs(p)
  BY <1>9, RerunVerified
<1>10. CASE Abort \/ (\E n \in Nodes : Sibling(n)) \/ UNCHANGED vars
  <2>1. UNCHANGED <<executed, todo, loop, validated, step, job>>
    BY <1>10 DEF Abort, Sibling, Begin, Reserve, Prepare, Settle, vars, loopVars
  <2> QED
    BY <2>1, NothingVerified
<1> QED
  BY <1>1, <1>2, <1>3, <1>4, <1>5, <1>6, <1>7, <1>8, <1>9, <1>10
     DEF Next, Coordinator, Finish, Notice

\* Types, and the limits of the rounds of every loop.
THEOREM TypeCorrect == Spec => []TypeOK
<1>1. IInv => TypeOK
  BY DEF IInv
<1> QED
  BY <1>1, Inductive, PTL

\* A failed job's log accounts for every node that cannot be reported otherwise
\* (cancelUnexecutedNodes), also for those of a wave that still runs.
THEOREM CancellationReachesAll == Spec => []CancellationReaches
<1>1. IInv => CancellationReaches
  BY DEF IInv
<1> QED
  BY <1>1, Inductive, PTL

\* However a wave ends, its nodes are logged in plan order
\* (replayAndDiscardBufferedEffectGroups).
THEOREM WavesReplayInOrder == Spec => []StableOrder
<1>1. IInv => StableOrder
  BY DEF IInv
<1> QED
  BY <1>1, Inductive, PTL

\* No artifact of a wave is left over (discardBufferedEffects).
THEOREM NoArtifactLeftOver == Spec => []ArtifactsAccounted
<1>1. IInv => ArtifactsAccounted
  BY DEF IInv
<1> QED
  BY <1>1, Inductive, PTL

\* A completed job was verified after its last executor, by every verifier of
\* the plan (runVerificationRepairLoop, runCompletionRepairLoop), provided that
\* the plan puts its executors first.
THEOREM CompletedWasVerified ==
  ASSUME ExecutorsFirst
  PROVE  Spec => []CompletedIsVerified
<1>1. Init => VerifyInv
  BY InitVerifyInv
<1>2. IInv /\ VerifyInv /\ [Next]_vars => VerifyInv'
  BY NextKeepsVerifyInv
<1>3. VerifyInv => CompletedIsVerified
  BY DEF VerifyInv
<1> QED
  BY <1>1, <1>2, <1>3, Inductive, PTL DEF Spec
===============================================================================
