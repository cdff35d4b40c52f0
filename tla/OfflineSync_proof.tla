------------------------- MODULE OfflineSync_proof -------------------------
(***************************************************************************)
(* Theorems about OfflineSync, for every set of paths, number of replays   *)
(* and bound: types and the probe for every overlap, the person's texts    *)
(* and what the vault ends with where their operations keep apart from a   *)
(* replay.                                                                 *)
(*                                                                         *)
(* The queue is proved about as a set of operations in the order of their  *)
(* ids: what each operation of OutboxQueue does to that set, that          *)
(* compaction keeps a sound set sound, and that a compacted queue makes of *)
(* the notes what the queue did.                                           *)
(***************************************************************************)
EXTENDS OfflineSync, SequenceTheorems, WellFoundedInduction, TLAPS

-----------------------------------------------------------------------------
(***************************************************************************)
(* The probe.                                                              *)
(***************************************************************************)
\* The connection's flags as they were, or the server reached, or the probe started.
LEMMA StepProbed == OfflineIsProbed /\ [Next]_vars => OfflineIsProbed'
<1> SUFFICES ASSUME OfflineIsProbed, [Next]_vars PROVE OfflineIsProbed'
  OBVIOUS
<1> USE DEF OfflineIsProbed
<1>1. ASSUME NEW op, EditLive(op) \/ EditQueued(op) PROVE OfflineIsProbed'
  BY <1>1 DEF EditLive, EditQueued, Unreachable
<1>2. CASE Enqueue \/ Prune \/ Probe \/ WentOffline \/ Reload
  BY <1>2 DEF Enqueue, Prune, Probe, WentOffline, Unreachable, Reload
<1>3. ASSUME NEW p, Open(p) \/ Elsewhere(p) PROVE OfflineIsProbed'
  BY <1>3 DEF Open, Elsewhere
<1>4. ASSUME NEW t, Run(t) \/ Change(t) PROVE OfflineIsProbed'
  <2>1. CASE Start(t) \/ ReadQueue(t) \/ Skip(t) \/ Finish(t)
    BY <2>1 DEF Start, ReadQueue, Skip, Finish
  <2>2. CASE Answered(t)
    BY <2>2 DEF Answered
  <2>3. CASE Change(t)
    BY <2>3 DEF Change, ReadToChange, WriteBack
  <2>4. QED
    BY <1>4, <2>1, <2>2, <2>3 DEF Run
<1>5. ASSUME NEW t, Unanswered(t) \/ SignInNeeded(t) PROVE OfflineIsProbed'
  BY <1>5 DEF Unanswered, Unreachable, SignInNeeded
<1>6. ASSUME NEW d, KeepMine(d) \/ TakeTheirs(d) \/ KeepBoth(d) PROVE OfflineIsProbed'
  BY <1>6 DEF KeepMine, TakeTheirs, KeepBoth, Unreachable
<1>7. ASSUME NEW n, Discard(n) PROVE OfflineIsProbed'
  BY <1>7 DEF Discard
<1>8. CASE UNCHANGED vars
  BY <1>8 DEF vars
<1>9. QED
  BY <1>1, <1>2, <1>3, <1>4, <1>5, <1>6, <1>7, <1>8 DEF Next

\* However a device went offline - a request of the person's, of the replay or of a
\* dialog, or the browser's word - a probe is running to bring it back, so that what
\* it queued is not kept waiting for the person (net.rs:69-121).
THEOREM ProbedWhileOffline == Spec => []OfflineIsProbed
<1>1. Init => OfflineIsProbed
  BY DEF Init, OfflineIsProbed
<1>2. QED
  BY <1>1, StepProbed, PTL DEF Spec

-----------------------------------------------------------------------------
(***************************************************************************)
(* Folds over queues, and the largest of some numbers.                     *)
(***************************************************************************)
LEMMA Least ==
  ASSUME NEW T, T \subseteq Nat, T # {}
  PROVE  \E x \in T : \A y \in T : x <= y
<1>1. PICK x \in T : \A y \in T : ~ (<<y, x>> \in OpToRel(<, Nat))
  BY NatLessThanWellFounded, WFMin
<1>2. \A y \in T : ~ (y < x)
  BY <1>1 DEF OpToRel
<1> QED
  BY <1>2

\* What holds at 0 and at the next number holds up to n.
LEMMA Reaches ==
  ASSUME NEW n \in Nat, NEW P, 0 \in P, \A k \in 0..(n - 1) : k \in P => k + 1 \in P
  PROVE  n \in P
<1> SUFFICES ASSUME n \notin P PROVE FALSE
  OBVIOUS
<1>1. PICK T : T = {k \in 0..n : k \notin P}
  OBVIOUS
<1>2. T # {} /\ T \subseteq Nat
  BY <1>1
<1>3. PICK x \in T : \A y \in T : x <= y
  BY <1>2, Least
<1>4. x \in 1..n /\ x \notin P
  BY <1>1
<1>5. x - 1 \in 0..(n - 1) /\ (x - 1) + 1 = x /\ x - 1 \notin T
  BY <1>1, <1>3, <1>4
<1> QED
  BY <1>1, <1>4, <1>5

LEMMA MaxOf ==
  ASSUME NEW n \in Nat, NEW I, I \subseteq 1..n, I # {}
  PROVE  Max(I) \in I /\ \A i \in I : i <= Max(I)
<1>1. PICK T : T = {n - i : i \in I}
  OBVIOUS
<1>2. T # {} /\ T \subseteq Nat
  <2>1. \A i \in I : i \in Nat /\ i <= n /\ n - i \in Nat
    OBVIOUS
  <2> QED
    BY <1>1, <2>1
<1>3. PICK x \in T : \A y \in T : x <= y
  BY <1>2, Least
<1>4. PICK m \in I : x = n - m
  BY <1>1
<1>5. \A i \in I : m >= i
  BY <1>1, <1>3, <1>4
<1>6. Max(I) \in I /\ \A y \in I : Max(I) >= y
  BY <1>5 DEF Max
<1> QED
  BY <1>6

LEMMA MaxIs ==
  ASSUME NEW m \in Nat, NEW I, I \subseteq 1..m, m \in I
  PROVE  Max(I) = m
<1>1. Max(I) \in I /\ m <= Max(I)
  BY MaxOf
<1>2. Max(I) \in 1..m
  BY <1>1
<1> QED
  BY <1>1, <1>2

IsFold(g, n, X, base, step) ==
  /\ g \in [SUBSET (1..n) -> X]
  /\ \A s \in SUBSET (1..n) : g[s] = IF s = {} THEN base ELSE step[<<Max(s), g[s \ {Max(s)}]>>]
\* A fold from left to right is a function on the sets of places, taken largest first.
LEMMA FoldExists ==
  ASSUME NEW n \in Nat, NEW X, NEW base \in X, NEW step \in [(1..n) \X X -> X]
  PROVE  \E g : IsFold(g, n, X, base, step)
<1> DEFINE Is(g, k) == \A s \in SUBSET (1..k) :
             g[s] = IF s = {} THEN base ELSE step[<<Max(s), g[s \ {Max(s)}]>>]
           P == {k \in 0..n : \E g \in [SUBSET (1..k) -> X] : Is(g, k)}
<1>1. 0 \in P
  <2>1. 1..0 = {}
    OBVIOUS
  <2>2. [s \in SUBSET (1..0) |-> base] \in [SUBSET (1..0) -> X]
    OBVIOUS
  <2>3. Is([s \in SUBSET (1..0) |-> base], 0)
    BY <2>1
  <2> QED
    BY <2>2, <2>3, 0 \in 0..n
<1>2. ASSUME NEW k \in 0..(n - 1), k \in P PROVE k + 1 \in P
  <2>1. PICK g \in [SUBSET (1..k) -> X] : Is(g, k)
    BY <1>2
  <2>2. PICK h : h = [s \in SUBSET (1..(k + 1)) |->
                        IF k + 1 \in s THEN step[<<k + 1, g[s \ {k + 1}]>>] ELSE g[s]]
    OBVIOUS
  <2>3. \A s \in SUBSET (1..(k + 1)) : s \ {k + 1} \in SUBSET (1..k)
                                            /\ (k + 1 \notin s => s \in SUBSET (1..k))
    OBVIOUS
  <2>4. h \in [SUBSET (1..(k + 1)) -> X]
    BY <2>1, <2>2, <2>3
  <2>5. ASSUME NEW s \in SUBSET (1..(k + 1))
        PROVE  h[s] = IF s = {} THEN base ELSE step[<<Max(s), h[s \ {Max(s)}]>>]
    <3>1. CASE k + 1 \in s
      <4>1. Max(s) = k + 1
        BY <3>1, MaxIs, k + 1 \in Nat
      <4>2. h[s \ {k + 1}] = g[s \ {k + 1}]
        BY <2>2, <2>3
      <4> QED
        BY <2>2, <3>1, <4>1, <4>2
    <3>2. CASE k + 1 \notin s
      <4>1. s \in SUBSET (1..k) /\ h[s] = g[s]
        BY <2>2, <2>3, <3>2
      <4>2. CASE s = {}
        BY <2>1, <4>1, <4>2
      <4>3. CASE s # {}
        <5>1. k \in Nat /\ s \subseteq 1..k
          BY <4>1
        <5>3. Max(s) \in s
          BY <4>3, <5>1, MaxOf
        <5>2. h[s \ {Max(s)}] = g[s \ {Max(s)}]
          BY <2>2, <3>2, <4>1
        <5> QED
          BY <2>1, <4>1, <4>3, <5>2
      <4> QED
        BY <4>2, <4>3
    <3> QED
      BY <3>1, <3>2
  <2> QED
    BY <2>4, <2>5, k + 1 \in 0..n
<1> HIDE DEF P
<1>3. n \in P
  BY <1>1, <1>2, Reaches
<1> QED
  BY <1>3 DEF P, IsFold

\* LeavingOut, one operation after the other.
LEMMA LeavingOutSteps ==
  ASSUME NEW S, NEW ops \in Seq(S), NEW gone
  PROVE  \E g : /\ g[0] = <<>> /\ g[Len(ops)] = LeavingOut(ops, gone)
                /\ \A k \in 0..(Len(ops) - 1) :
                     g[k + 1] = IF ops[k + 1] \in gone THEN g[k] ELSE Append(g[k], ops[k + 1])
<1> DEFINE D == DOMAIN ops
           Is(g) == g = [s \in SUBSET D |->
                           IF s = {} THEN <<>>
                           ELSE IF ops[Max(s)] \in gone THEN g[s \ {Max(s)}]
                                ELSE Append(g[s \ {Max(s)}], ops[Max(s)])]
<1>1. LeavingOut(ops, gone) = (CHOOSE g : Is(g))[D]
  BY DEF LeavingOut, FoldLeft, MapThenFoldSet
<1>2. D = 1..Len(ops) /\ Len(ops) \in Nat
  BY LenProperties
<1>3. \E g : Is(g)
  <2>1. PICK step : step = [e \in (1..Len(ops)) \X Seq(S) |->
                              IF ops[e[1]] \in gone THEN e[2] ELSE Append(e[2], ops[e[1]])]
    OBVIOUS
  <2>2. step \in [(1..Len(ops)) \X Seq(S) -> Seq(S)]
    BY <2>1, ElementOfSeq, AppendProperties
  <2>3. <<>> \in Seq(S)
    BY EmptySeq
  <2>4. PICK g : IsFold(g, Len(ops), Seq(S), <<>>, step)
    BY <1>2, <2>2, <2>3, FoldExists
  <2>5. ASSUME NEW s \in SUBSET D, s # {}
        PROVE  step[<<Max(s), g[s \ {Max(s)}]>>] =
                 IF ops[Max(s)] \in gone THEN g[s \ {Max(s)}] ELSE Append(g[s \ {Max(s)}], ops[Max(s)])
    <3>1. Max(s) \in 1..Len(ops)
      BY <1>2, <2>5, MaxOf
    <3>2. g[s \ {Max(s)}] \in Seq(S)
      BY <1>2, <2>4 DEF IsFold
    <3> QED
      BY <2>1, <3>1, <3>2
  <2>6. Is(g)
    BY <1>2, <2>4, <2>5 DEF IsFold
  <2> QED
    BY <2>6
<1>4. PICK g : Is(g) /\ LeavingOut(ops, gone) = g[D]
  BY <1>1, <1>3
<1>5. PICK h : h = [k \in 0..Len(ops) |-> g[1..k]]
  OBVIOUS
<1>6. h[0] = <<>>
  <2>1. 1..0 = {} /\ 0 \in 0..Len(ops)
    BY <1>2
  <2> QED
    BY <1>4, <1>5, <2>1
<1>7. ASSUME NEW k \in 0..(Len(ops) - 1)
      PROVE  h[k + 1] = IF ops[k + 1] \in gone THEN h[k] ELSE Append(h[k], ops[k + 1])
  <2>9. k + 1 \in Nat /\ k + 1 <= Len(ops) /\ Len(ops) \in Nat
    BY <1>2
  <2>1. 1..(k + 1) \in SUBSET D /\ 1..(k + 1) # {} /\ k \in 0..Len(ops) /\ k + 1 \in 0..Len(ops)
    <3>1. \A i \in 1..(k + 1) : i \in 1..Len(ops)
      BY <2>9
    <3>2. k + 1 \in 1..(k + 1)
      BY <2>9
    <3>3. 1..(k + 1) \subseteq D
      BY <1>2, <3>1
    <3>4. 1..(k + 1) # {}
      BY <3>2
    <3> QED
      BY <2>9, <3>3, <3>4
  <2>2. Max(1..(k + 1)) = k + 1
    BY MaxIs, <2>9, k + 1 \in 1..(k + 1)
  <2>3. (1..(k + 1)) \ {k + 1} = 1..k
    OBVIOUS
  <2> QED
    BY <1>4, <1>5, <2>1, <2>2, <2>3
<1>8. h[Len(ops)] = LeavingOut(ops, gone)
  BY <1>2, <1>4, <1>5
<1> HIDE DEF D, Is
<1> QED
  BY <1>6, <1>7, <1>8

-----------------------------------------------------------------------------
(***************************************************************************)
(* Queues in the order of their ids.                                       *)
(***************************************************************************)
\* The operations on notes whose texts are of the first n edits.
Writes == {"save", "create"}
Op(n) ==
  {op \in [kind : Writes \cup {"delete", "move"}, path : NotePath, to : NotePath,
           text : Nat \cup {Nothing}, base : Int \cup {Nothing}, id : Nat, failed : BOOLEAN] :
     IF op.kind \in Writes THEN op.text \in 1..n ELSE op.text = Nothing}
Ordered(q) == \A i, j \in DOMAIN q : i < j => q[i].id < q[j].id

LEMMA OpFields ==
  ASSUME NEW n, NEW op \in Op(n)
  PROVE  /\ op.id \in Nat /\ op.path \in NotePath /\ op.to \in NotePath /\ op.failed \in BOOLEAN
         /\ op.kind \in {"save", "create", "delete", "move"}
         /\ IF op.kind \in Writes THEN op.text \in 1..n ELSE op.text = Nothing
  BY DEF Op, Writes

Retexted(op, text) == [op EXCEPT !.text = text, !.failed = FALSE]
LEMMA RetextedIs ==
  ASSUME NEW n, NEW op \in Op(n), op.kind \in Writes, NEW text \in 1..n
  PROVE  /\ Retexted(op, text) \in Op(n) /\ Retexted(op, text).text = text
         /\ ~Retexted(op, text).failed /\ Retexted(op, text).id = op.id
         /\ Retexted(op, text).path = op.path /\ Retexted(op, text).kind = op.kind
<1>1. PICK R : R = [kind : Writes \cup {"delete", "move"}, path : NotePath, to : NotePath,
                    text : Nat \cup {Nothing}, base : Int \cup {Nothing}, id : Nat, failed : BOOLEAN]
  OBVIOUS
<1>2. op \in R /\ text \in Nat
  BY <1>1 DEF Op
<1>3. PICK new : new = Retexted(op, text)
  OBVIOUS
<1>4. /\ new \in R /\ new.text = text /\ ~new.failed /\ new.id = op.id
      /\ new.path = op.path /\ new.kind = op.kind
  BY <1>1, <1>2, <1>3 DEF Retexted
<1>5. new \in Op(n)
  BY <1>1, <1>4 DEF Op
<1> QED
  BY <1>3, <1>4, <1>5

LEMMA ToSetOf ==
  ASSUME NEW S, NEW q \in Seq(S)
  PROVE  /\ ToSet(q) \subseteq S /\ \A i \in 1..Len(q) : q[i] \in ToSet(q)
         /\ \A x \in ToSet(q) : \E i \in 1..Len(q) : x = q[i]
         /\ Len(q) \in Nat /\ DOMAIN q = 1..Len(q)
<1>1. DOMAIN q = 1..Len(q) /\ Len(q) \in Nat
  BY LenProperties
<1>2. \A i \in 1..Len(q) : q[i] \in S
  BY ElementOfSeq
<1> QED
  BY <1>1, <1>2 DEF ToSet

\* In such a queue an id is of one operation.
LEMMA IdsAreDistinct ==
  ASSUME NEW S, \A x \in S : x.id \in Nat, NEW q \in Seq(S), Ordered(q),
         NEW a \in ToSet(q), NEW b \in ToSet(q), a.id = b.id
  PROVE  a = b
<1>1. PICK i, j \in 1..Len(q) : a = q[i] /\ b = q[j]
  BY ToSetOf
<1>2. DOMAIN q = 1..Len(q) /\ a.id \in Nat /\ Len(q) \in Nat
  BY ToSetOf
<1>3. ~(i < j) /\ ~(j < i)
  BY <1>1, <1>2 DEF Ordered
<1> QED
  BY <1>1, <1>2, <1>3

LEMMA AppendOrdered ==
  ASSUME NEW S, \A x \in S : x.id \in Nat, NEW q \in Seq(S), Ordered(q),
         NEW op \in S, \A x \in ToSet(q) : x.id < op.id
  PROVE  /\ Append(q, op) \in Seq(S) /\ Ordered(Append(q, op))
         /\ ToSet(Append(q, op)) = ToSet(q) \cup {op}
<1>1. PICK r : r = Append(q, op)
  OBVIOUS
<1>2. /\ r \in Seq(S) /\ Len(r) = Len(q) + 1 /\ \A i \in 1..Len(q) : r[i] = q[i]
      /\ r[Len(q) + 1] = op
  BY <1>1, AppendProperties
<1>3. Len(q) \in Nat /\ DOMAIN q = 1..Len(q) /\ DOMAIN r = 1..(Len(q) + 1)
  BY <1>2, LenProperties
<1>4. Ordered(r)
  <2> SUFFICES ASSUME NEW i \in DOMAIN r, NEW j \in DOMAIN r, i < j PROVE r[i].id < r[j].id
    BY DEF Ordered
  <2>1. i \in 1..Len(q) /\ r[i] = q[i] /\ q[i] \in ToSet(q)
    BY <1>2, <1>3, ToSetOf
  <2>2. CASE j = Len(q) + 1
    BY <1>2, <2>1, <2>2
  <2>3. CASE j # Len(q) + 1
    <3>1. j \in 1..Len(q) /\ r[j] = q[j]
      BY <1>2, <1>3, <2>3
    <3> QED
      BY <1>3, <2>1, <3>1 DEF Ordered
  <2> QED
    BY <2>2, <2>3
<1>5. ToSet(r) = ToSet(q) \cup {op}
  <2>1. ASSUME NEW x \in ToSet(r) PROVE x \in ToSet(q) \cup {op}
    <3>1. PICK i \in 1..(Len(q) + 1) : x = r[i]
      BY <1>3 DEF ToSet
    <3>2. CASE i = Len(q) + 1
      BY <1>2, <3>1, <3>2
    <3>3. CASE i # Len(q) + 1
      <4>1. i \in 1..Len(q)
        BY <1>3, <3>3
      <4> QED
        BY <1>2, <3>1, <4>1, ToSetOf
    <3> QED
      BY <3>2, <3>3
  <2>2. op \in ToSet(r)
    BY <1>2, <1>3 DEF ToSet
  <2>3. ASSUME NEW x \in ToSet(q) PROVE x \in ToSet(r)
    <3>1. PICK i \in 1..Len(q) : x = q[i]
      BY ToSetOf
    <3>2. i \in DOMAIN r /\ r[i] = x
      BY <1>2, <1>3, <3>1
    <3> QED
      BY <3>2 DEF ToSet
  <2> QED
    BY <2>1, <2>2, <2>3
<1> QED
  BY <1>1, <1>2, <1>4, <1>5

LEMMA ConcatOrdered ==
  ASSUME NEW S, \A x \in S : x.id \in Nat, NEW q \in Seq(S), Ordered(q), NEW r \in Seq(S), Ordered(r),
         \A x \in ToSet(q), y \in ToSet(r) : x.id < y.id
  PROVE  q \o r \in Seq(S) /\ Ordered(q \o r) /\ ToSet(q \o r) = ToSet(q) \cup ToSet(r)
<1>1. PICK u : u = q \o r
  OBVIOUS
<1>2. /\ u \in Seq(S) /\ Len(u) = Len(q) + Len(r)
      /\ \A i \in 1..(Len(q) + Len(r)) : u[i] = IF i <= Len(q) THEN q[i] ELSE r[i - Len(q)]
  BY <1>1, ConcatProperties
<1>3. /\ Len(q) \in Nat /\ DOMAIN q = 1..Len(q) /\ Len(r) \in Nat /\ DOMAIN r = 1..Len(r)
      /\ DOMAIN u = 1..(Len(q) + Len(r))
  BY <1>2, LenProperties
<1>4. \A i \in 1..Len(q) : i \in DOMAIN u /\ u[i] = q[i] /\ q[i] \in ToSet(q)
  BY <1>2, <1>3, ToSetOf
<1>5. \A i \in 1..Len(r) : /\ Len(q) + i \in DOMAIN u /\ u[Len(q) + i] = r[i] /\ r[i] \in ToSet(r)
  <2> SUFFICES ASSUME NEW i \in 1..Len(r)
               PROVE  Len(q) + i \in DOMAIN u /\ u[Len(q) + i] = r[i] /\ r[i] \in ToSet(r)
    OBVIOUS
  <2>1. Len(q) + i \in 1..(Len(q) + Len(r)) /\ ~(Len(q) + i <= Len(q)) /\ (Len(q) + i) - Len(q) = i
    BY <1>3
  <2> QED
    BY <1>2, <1>3, <2>1, ToSetOf
<1>6. \A i \in DOMAIN u : i \in 1..Len(q) \/ \E j \in 1..Len(r) : i = Len(q) + j
  <2> SUFFICES ASSUME NEW i \in DOMAIN u, i \notin 1..Len(q) PROVE \E j \in 1..Len(r) : i = Len(q) + j
    OBVIOUS
  <2>1. i - Len(q) \in 1..Len(r) /\ i = Len(q) + (i - Len(q))
    BY <1>3
  <2> QED
    BY <2>1
<1>7. ToSet(u) = ToSet(q) \cup ToSet(r)
  <2>1. ASSUME NEW x \in ToSet(u) PROVE x \in ToSet(q) \cup ToSet(r)
    <3>1. PICK i \in DOMAIN u : x = u[i]
      BY DEF ToSet
    <3> QED
      BY <1>4, <1>5, <1>6, <3>1
  <2>2. \A x \in ToSet(q) : x \in ToSet(u)
    BY <1>3, <1>4 DEF ToSet
  <2>3. \A x \in ToSet(r) : x \in ToSet(u)
    BY <1>3, <1>5 DEF ToSet
  <2> QED
    BY <2>1, <2>2, <2>3
<1>8. Ordered(u)
  <2> SUFFICES ASSUME NEW i \in DOMAIN u, NEW j \in DOMAIN u, i < j PROVE u[i].id < u[j].id
    BY DEF Ordered
  <2>1. CASE i \in 1..Len(q) /\ j \in 1..Len(q)
    BY <1>3, <1>4, <2>1 DEF Ordered
  <2>2. CASE i \in 1..Len(q) /\ j \notin 1..Len(q)
    BY <1>4, <1>5, <1>6, <2>2
  <2>3. CASE i \notin 1..Len(q)
    <3>1. PICK k \in 1..Len(r) : i = Len(q) + k
      BY <1>6, <2>3
    <3>2. j \notin 1..Len(q)
      BY <1>3, <3>1
    <3>3. PICK m \in 1..Len(r) : j = Len(q) + m
      BY <1>6, <3>2
    <3>4. k < m
      BY <1>3, <3>1, <3>3
    <3> QED
      BY <1>3, <1>5, <3>1, <3>3, <3>4 DEF Ordered
  <2> QED
    BY <2>1, <2>2, <2>3
<1> QED
  BY <1>1, <1>2, <1>7, <1>8

LEMMA PartOrdered ==
  ASSUME NEW S, NEW q \in Seq(S), Ordered(q), NEW m \in 1..(Len(q) + 1), NEW n \in 0..Len(q)
  PROVE  /\ SubSeq(q, m, n) \in Seq(S) /\ Ordered(SubSeq(q, m, n))
         /\ ToSet(SubSeq(q, m, n)) = {q[i] : i \in m..n}
<1>1. PICK r : r = SubSeq(q, m, n)
  OBVIOUS
<1>2. DOMAIN q = 1..Len(q) /\ Len(q) \in Nat /\ m \in Int /\ n \in Int
  BY LenProperties
<1>3. \A i \in m..n : i \in 1..Len(q) /\ q[i] \in S
  BY <1>2, ElementOfSeq
<1>4. /\ r \in Seq(S) /\ Len(r) = IF m <= n THEN n - m + 1 ELSE 0
      /\ \A i \in 1..(n - m + 1) : r[i] = q[m + i - 1]
  BY <1>1, <1>2, <1>3, SubSeqProperties
<1>5. DOMAIN r = 1..(n - m + 1)
  <2>1. DOMAIN r = 1..Len(r)
    BY <1>4, LenProperties
  <2>2. CASE m <= n
    BY <1>4, <2>1, <2>2
  <2>3. CASE ~(m <= n)
    BY <1>2, <1>4, <2>1, <2>3
  <2> QED
    BY <2>2, <2>3
<1>6. Ordered(r)
  <2> SUFFICES ASSUME NEW i \in DOMAIN r, NEW j \in DOMAIN r, i < j PROVE r[i].id < r[j].id
    BY DEF Ordered
  <2>1. /\ r[i] = q[m + i - 1] /\ r[j] = q[m + j - 1] /\ m + i - 1 < m + j - 1
        /\ m + i - 1 \in m..n /\ m + j - 1 \in m..n
    <3>1. i \in 1..(n - m + 1) /\ j \in 1..(n - m + 1)
      BY <1>5
    <3>2. r[i] = q[m + i - 1] /\ r[j] = q[m + j - 1]
      BY <1>4, <3>1
    <3>3. m + i - 1 < m + j - 1 /\ m + i - 1 \in m..n /\ m + j - 1 \in m..n
      BY <1>2, <3>1
    <3> QED
      BY <3>2, <3>3
  <2> QED
    BY <1>2, <1>3, <2>1 DEF Ordered
<1>7. ToSet(r) = {q[i] : i \in m..n}
  <2>1. ASSUME NEW x \in ToSet(r) PROVE x \in {q[i] : i \in m..n}
    <3>1. PICK i \in 1..(n - m + 1) : x = r[i]
      BY <1>5 DEF ToSet
    <3>2. m + i - 1 \in m..n /\ r[i] = q[m + i - 1]
      BY <1>2, <1>4
    <3> QED
      BY <3>1, <3>2
  <2>2. ASSUME NEW i \in m..n PROVE q[i] \in ToSet(r)
    <3>1. i - m + 1 \in 1..(n - m + 1) /\ m + (i - m + 1) - 1 = i
      BY <1>2
    <3>2. r[i - m + 1] = q[i]
      BY <1>4, <3>1
    <3> QED
      BY <1>5, <3>1, <3>2 DEF ToSet
  <2> QED
    BY <2>1, <2>2
<1> QED
  BY <1>1, <1>4, <1>6, <1>7

LEMMA LeavingOutIs ==
  ASSUME NEW S, \A x \in S : x.id \in Nat, NEW q \in Seq(S), Ordered(q), NEW gone
  PROVE  /\ LeavingOut(q, gone) \in Seq(S) /\ Ordered(LeavingOut(q, gone))
         /\ ToSet(LeavingOut(q, gone)) = ToSet(q) \ gone
<1>1. PICK g : /\ g[0] = <<>> /\ g[Len(q)] = LeavingOut(q, gone)
               /\ \A k \in 0..(Len(q) - 1) :
                    g[k + 1] = IF q[k + 1] \in gone THEN g[k] ELSE Append(g[k], q[k + 1])
  BY LeavingOutSteps
<1>2. DOMAIN q = 1..Len(q) /\ Len(q) \in Nat
  BY LenProperties
<1>3. PICK P : P = {k \in 0..Len(q) : /\ g[k] \in Seq(S) /\ Ordered(g[k])
                                      /\ ToSet(g[k]) = {q[i] : i \in 1..k} \ gone}
  OBVIOUS
<1>4. 0 \in P
  <2>1. 1..0 = {} /\ DOMAIN <<>> = {}
    OBVIOUS
  <2>2. <<>> \in Seq(S) /\ Ordered(<<>>) /\ ToSet(<<>>) = {}
    BY <2>1, EmptySeq DEF Ordered, ToSet
  <2>3. {q[i] : i \in 1..0} = {}
    BY <2>1
  <2>4. g[0] = <<>> /\ 0 \in 0..Len(q)
    BY <1>1, <1>2
  <2>5. {} = {} \ gone
    OBVIOUS
  <2> QED
    BY <1>3, <2>2, <2>3, <2>4, <2>5
<1>5. ASSUME NEW k \in 0..(Len(q) - 1), k \in P PROVE k + 1 \in P
  <2>1. g[k] \in Seq(S) /\ Ordered(g[k]) /\ ToSet(g[k]) = {q[i] : i \in 1..k} \ gone
    BY <1>3, <1>5
  <2>2. k + 1 \in 1..Len(q) /\ k + 1 \in 0..Len(q) /\ q[k + 1] \in S
    BY <1>2, ElementOfSeq
  <2>3. {q[i] : i \in 1..(k + 1)} = {q[i] : i \in 1..k} \cup {q[k + 1]}
    <3>1. 1..(k + 1) = (1..k) \cup {k + 1}
      BY <1>2
    <3> QED
      BY <3>1
  <2>4. CASE q[k + 1] \in gone
    BY <1>1, <1>3, <2>1, <2>2, <2>3, <2>4
  <2>5. CASE q[k + 1] \notin gone
    <3>1. ASSUME NEW x \in ToSet(g[k]) PROVE x.id < q[k + 1].id
      <4>1. PICK i \in 1..k : x = q[i]
        BY <2>1, <3>1
      <4>2. i \in DOMAIN q /\ k + 1 \in DOMAIN q /\ i < k + 1
        BY <1>2
      <4> QED
        BY <4>1, <4>2 DEF Ordered
    <3>2. PICK r : r = Append(g[k], q[k + 1])
      OBVIOUS
    <3>3. r \in Seq(S) /\ Ordered(r) /\ ToSet(r) = ToSet(g[k]) \cup {q[k + 1]}
      BY <2>1, <2>2, <3>1, <3>2, AppendOrdered
    <3>4. g[k + 1] = r
      BY <1>1, <2>5, <3>2
    <3> QED
      BY <1>3, <2>1, <2>2, <2>3, <2>5, <3>3, <3>4
  <2> QED
    BY <2>4, <2>5
<1>6. Len(q) \in P
  BY <1>2, <1>4, <1>5, Reaches
<1>7. ToSet(q) = {q[i] : i \in 1..Len(q)}
  BY <1>2 DEF ToSet
<1> QED
  BY <1>1, <1>3, <1>6, <1>7

LEMMA NextIdIsAbove ==
  ASSUME NEW S, \A x \in S : x.id \in Nat, NEW q \in Seq(S), Ordered(q)
  PROVE  NextId(q) \in Nat /\ \A x \in ToSet(q) : x.id < NextId(q)
<1>1. PICK I : I = {0} \cup {op.id : op \in ToSet(q)}
  OBVIOUS
<1>2. DOMAIN q = 1..Len(q) /\ Len(q) \in Nat /\ I \subseteq Nat
  BY <1>1, ToSetOf
<1>3. \E m \in I : \A i \in I : m >= i
  <2>1. CASE Len(q) = 0
    <3>1. ToSet(q) = {}
      BY <1>2, <2>1 DEF ToSet
    <3> QED
      BY <1>1, <3>1
  <2>2. CASE Len(q) # 0
    <3>1. Len(q) \in 1..Len(q) /\ q[Len(q)] \in ToSet(q)
      BY <1>2, <2>2, ToSetOf
    <3>2. ASSUME NEW x \in ToSet(q) PROVE q[Len(q)].id >= x.id
      <4>1. PICK i \in 1..Len(q) : x = q[i]
        BY ToSetOf
      <4>2. x.id \in Nat /\ q[Len(q)].id \in Nat
        BY <3>1, ToSetOf
      <4>3. CASE i = Len(q)
        BY <4>1, <4>2, <4>3
      <4>4. CASE i # Len(q)
        <5>1. Len(q) \in Nat /\ i \in Nat /\ i <= Len(q)
          BY <1>2, <4>1
        <5>2. i < Len(q)
          BY <4>4, <5>1
        <5> QED
          BY <1>2, <3>1, <4>1, <4>2, <5>2 DEF Ordered
      <4> QED
        BY <4>3, <4>4
    <3>3. q[Len(q)].id \in I /\ q[Len(q)].id >= 0
      BY <1>1, <1>2, <3>1
    <3> QED
      BY <1>1, <3>2, <3>3
  <2> QED
    BY <2>1, <2>2
<1>4. Max(I) \in I /\ \A i \in I : Max(I) >= i
  BY <1>3 DEF Max
<1>5. NextId(q) = 1 + Max(I) /\ Max(I) \in Nat
  BY <1>1, <1>2, <1>4 DEF NextId
<1>6. \A x \in ToSet(q) : x.id \in I /\ x.id \in Nat
  BY <1>1, <1>2
<1> QED
  BY <1>4, <1>5, <1>6

Replaced(q, at, new) == [q EXCEPT ![at] = new]
LEMMA ReplaceOrdered ==
  ASSUME NEW S, \A x \in S : x.id \in Nat, NEW q \in Seq(S), Ordered(q),
         NEW at \in 1..Len(q), NEW new \in S, new.id = q[at].id
  PROVE  LET r == Replaced(q, at, new)
         IN  r \in Seq(S) /\ Ordered(r) /\ ToSet(r) = (ToSet(q) \ {q[at]}) \cup {new}
<1> DEFINE r == Replaced(q, at, new)
<1>1. /\ r \in Seq(S) /\ Len(r) = Len(q)
      /\ \A j \in 1..Len(q) : r[j] = IF j = at THEN new ELSE q[j]
  BY ExceptSeq DEF Replaced
<1> HIDE DEF r
<1>2. DOMAIN r = 1..Len(q) /\ DOMAIN q = 1..Len(q)
  BY <1>1, LenProperties
<1>3. \A j \in 1..Len(q) : r[j].id = q[j].id
  BY <1>1
<1>4. Ordered(r)
  BY <1>2, <1>3 DEF Ordered
<1>5. ToSet(r) = (ToSet(q) \ {q[at]}) \cup {new}
  <2>1. ASSUME NEW j \in 1..Len(q) PROVE r[j] \in (ToSet(q) \ {q[at]}) \cup {new}
    <3>1. CASE j = at
      BY <1>1, <3>1
    <3>2. CASE j # at
      <4>1. r[j] = q[j] /\ q[j] \in ToSet(q) /\ q[at] \in ToSet(q)
        BY <1>1, <3>2, ToSetOf
      <4>2. q[j].id # q[at].id
        <5>1. q[j].id \in Nat /\ q[at].id \in Nat /\ (j < at \/ at < j)
          BY <3>2, <4>1, ToSetOf
        <5> QED
          BY <1>2, <5>1 DEF Ordered
      <4> QED
        BY <4>1, <4>2
    <3> QED
      BY <3>1, <3>2
  <2>2. \A x \in ToSet(r) : x \in (ToSet(q) \ {q[at]}) \cup {new}
    BY <1>2, <2>1 DEF ToSet
  <2>3. new \in ToSet(r)
    BY <1>1, <1>2 DEF ToSet
  <2>4. ASSUME NEW x \in ToSet(q) \ {q[at]} PROVE x \in ToSet(r)
    <3>1. PICK j \in 1..Len(q) : x = q[j]
      BY ToSetOf
    <3>2. r[j] = x /\ j \in DOMAIN r
      BY <1>1, <1>2, <3>1
    <3> QED
      BY <3>2 DEF ToSet
  <2> QED
    BY <2>2, <2>3, <2>4
<1> QED
  BY <1>1, <1>4, <1>5 DEF r

-----------------------------------------------------------------------------
(***************************************************************************)
(* What one step of compaction does.                                       *)
(***************************************************************************)
Moves(op, path) == op.kind = "move" /\ path \in {op.path, op.to}

LEMMA TouchesIs ==
  ASSUME NEW n, NEW op \in Op(n), NEW path
  PROVE  /\ Touches(op, path) <=> IF op.kind = "move" THEN Moves(op, path) ELSE op.path = path
         /\ ChangesIdentity(op) /\ Touches(op, path) <=> Moves(op, path)
<1>1. op.kind \in {"save", "create", "delete", "move"}
  BY OpFields
<1> QED
  BY <1>1 DEF Touches, ChangesIdentity, Moves

LEMMA LastTouchingIs ==
  ASSUME NEW S, NEW q \in Seq(S), NEW path
  PROVE  /\ LastTouching(q, path) \in 0..Len(q)
         /\ LastTouching(q, path) # 0 => Touches(q[LastTouching(q, path)], path)
         /\ \A i \in 1..Len(q) : i > LastTouching(q, path) => ~Touches(q[i], path)
<1>1. PICK I : I = {i \in 1..Len(q) : Touches(q[i], path)}
  OBVIOUS
<1>2. LastTouching(q, path) = IF I # {} THEN Max(I) ELSE 0
  BY <1>1 DEF LastTouching, SelectLastInSeq
<1>3. Len(q) \in Nat /\ I \subseteq 1..Len(q)
  BY <1>1, LenProperties
<1>4. CASE I = {}
  BY <1>1, <1>2, <1>3, <1>4
<1>5. CASE I # {}
  <2>1. Max(I) \in I /\ \A i \in I : i <= Max(I)
    BY <1>3, <1>5, MaxOf
  <2>2. Max(I) \in 1..Len(q) /\ Touches(q[Max(I)], path)
    BY <1>1, <2>1
  <2>3. \A i \in 1..Len(q) : i > Max(I) => ~Touches(q[i], path)
    BY <1>1, <2>1, <2>2
  <2> QED
    BY <1>2, <1>3, <1>5, <2>2, <2>3
<1> QED
  BY <1>4, <1>5

LEMMA SegmentStartIs ==
  ASSUME NEW n, NEW q \in Seq(Op(n)), NEW path
  PROVE  /\ SegmentStart(q, path) \in 0..Len(q)
         /\ SegmentStart(q, path) # 0 => Moves(q[SegmentStart(q, path)], path)
         /\ \A i \in 1..Len(q) : i > SegmentStart(q, path) => ~Moves(q[i], path)
<1>1. PICK I : I = {i \in 1..Len(q) : ChangesIdentity(q[i]) /\ Touches(q[i], path)}
  OBVIOUS
<1>2. SegmentStart(q, path) = IF I # {} THEN Max(I) ELSE 0
  BY <1>1 DEF SegmentStart, SelectLastInSeq
<1>3. Len(q) \in Nat /\ I \subseteq 1..Len(q)
  BY <1>1, LenProperties
<1>4. \A i \in 1..Len(q) : Moves(q[i], path) <=> i \in I
  BY <1>1, ElementOfSeq, TouchesIs
<1>5. CASE I = {}
  BY <1>2, <1>3, <1>4, <1>5
<1>6. CASE I # {}
  <2>1. Max(I) \in I /\ \A i \in I : i <= Max(I)
    BY <1>3, <1>6, MaxOf
  <2>2. Max(I) \in 1..Len(q) /\ Moves(q[Max(I)], path)
    BY <1>3, <1>4, <2>1
  <2>3. \A i \in 1..Len(q) : i > Max(I) => ~Moves(q[i], path)
    BY <1>4, <2>1, <2>2
  <2> QED
    BY <1>2, <1>3, <1>6, <2>2, <2>3
<1> QED
  BY <1>5, <1>6

\* The set of a queue's operations after one more, op: op is added, since no write before
\* it stands as it left it; or merged into one, at, that was the last to touch its path; or
\* it cancels the writes to its path that no move has touched since.
Ends(op, path) == Moves(op, path) \/ (op.kind = "delete" /\ op.path = path)
Free(Q, op) ==
  /\ op.kind # "delete"
  /\ op.kind = "save" => \A a \in Q : a.kind \in Writes /\ a.path = op.path
                                   => \E c \in Q : a.id < c.id /\ Ends(c, op.path)
Cleared(Q, gone, op) ==
  \A a \in Q \ gone : a.kind \in Writes /\ a.path = op.path
                     => \E c \in Q : a.id < c.id /\ Moves(c, op.path)
Added(R, Q, op)  == Free(Q, op) /\ R = Q \cup {op}
Merged(R, Q, op) ==
  \E at \in Q : /\ op.kind = "save" /\ at.kind \in Writes /\ at.path = op.path
                /\ \A c \in Q : at.id < c.id => ~Touches(c, op.path)
                /\ R = (Q \ {at}) \cup {Retexted(at, op.text)}
Cancels(R, Q, op) ==
  \E gone \in SUBSET Q :
    /\ op.kind = "delete"
    /\ \A a \in gone : /\ a.kind \in Writes /\ a.path = op.path
                       /\ \A c \in Q : a.id < c.id => ~Moves(c, op.path)
    /\ Cleared(Q, gone, op)
    /\ (gone # {} /\ R = Q \ gone) \/ R = (Q \ gone) \cup {op}

LEMMA MergeSaveIs ==
  ASSUME NEW n, NEW out \in Seq(Op(n)), Ordered(out), NEW op \in Op(n), op.kind = "save",
         \A x \in ToSet(out) : x.id < op.id, NEW r, r = MergeSave(out, op)
  PROVE  /\ r \in Seq(Op(n)) /\ Ordered(r)
         /\ Added(ToSet(r), ToSet(out), op) \/ Merged(ToSet(r), ToSet(out), op)
<1>1. \A x \in Op(n) : x.id \in Nat
  BY OpFields
<1>2. PICK at : at = LastTouching(out, op.path)
  OBVIOUS
<1>3. CASE at > SegmentStart(out, op.path) /\ out[at].kind \in {"save", "create"}
  <2>1. at \in 1..Len(out) /\ Touches(out[at], op.path)
        /\ \A i \in 1..Len(out) : i > at => ~Touches(out[i], op.path)
    <3>1. SegmentStart(out, op.path) \in 0..Len(out) /\ Len(out) \in Nat
      BY SegmentStartIs, LenProperties
    <3> QED
      BY <1>2, <1>3, <3>1, LastTouchingIs
  <2>2. out[at] \in Op(n) /\ out[at] \in ToSet(out)
    BY <2>1, ElementOfSeq, ToSetOf
  <2>3. out[at].path = op.path /\ out[at].kind \in Writes
    BY <1>3, <2>1, <2>2, TouchesIs DEF Writes
  <2>4. PICK new : new = Retexted(out[at], op.text)
    OBVIOUS
  <2>5. new \in Op(n) /\ new.id = out[at].id
    <3>1. op.text \in 1..n
      BY OpFields DEF Writes
    <3> QED
      BY <2>2, <2>3, <2>4, <3>1, RetextedIs
  <2>6. r = Replaced(out, at, new)
    BY <1>2, <1>3, <2>4 DEF MergeSave, Retexted, Replaced
  <2>7. r \in Seq(Op(n)) /\ Ordered(r) /\ ToSet(r) = (ToSet(out) \ {out[at]}) \cup {new}
    BY <1>1, <2>1, <2>5, <2>6, ReplaceOrdered
  <2>8. ASSUME NEW c \in ToSet(out), out[at].id < c.id PROVE ~Touches(c, op.path)
    <3>1. PICK i \in 1..Len(out) : c = out[i]
      BY ToSetOf
    <3>2. i > at
      <4>1. c.id \in Nat /\ out[at].id \in Nat /\ DOMAIN out = 1..Len(out)
        BY <1>1, <2>2, ToSetOf
      <4>2. i # at /\ ~(i < at)
        BY <2>1, <2>8, <3>1, <4>1 DEF Ordered
      <4> QED
        BY <2>1, <4>2
    <3> QED
      BY <2>1, <3>1, <3>2
  <2>9. Merged(ToSet(r), ToSet(out), op)
    BY <2>2, <2>3, <2>4, <2>7, <2>8 DEF Merged
  <2> QED
    BY <2>7, <2>9
<1>4. CASE ~(at > SegmentStart(out, op.path) /\ out[at].kind \in {"save", "create"})
  <2>1. r = Append(out, op)
    BY <1>2, <1>4 DEF MergeSave
  <2>2. ASSUME NEW a \in ToSet(out), a.kind \in Writes, a.path = op.path
        PROVE  \E c \in ToSet(out) : a.id < c.id /\ Ends(c, op.path)
    <3>1. PICK i \in 1..Len(out) : a = out[i]
      BY ToSetOf
    <3>2. PICK start : start = SegmentStart(out, op.path)
      OBVIOUS
    <3>3. /\ Len(out) \in Nat /\ DOMAIN out = 1..Len(out) /\ a \in Op(n)
          /\ \A j \in 1..Len(out) : out[j] \in ToSet(out) /\ out[j] \in Op(n)
      BY ToSetOf, ElementOfSeq
    <3>4. at \in 0..Len(out) /\ \A j \in 1..Len(out) : j > at => ~Touches(out[j], op.path)
      BY <1>2, LastTouchingIs
    <3>5. start \in 0..Len(out)
      BY <3>2, SegmentStartIs
    <3>6. Touches(a, op.path) /\ ~Ends(a, op.path)
      BY <2>2, <3>3, TouchesIs DEF Writes, Ends, Moves
    <3>7. i <= at
      BY <3>1, <3>3, <3>4, <3>6
    <3>8. PICK j \in 1..Len(out) : i <= j /\ Ends(out[j], op.path)
      <4>1. CASE out[at].kind \in {"save", "create"}
        <5>1. at <= start
          BY <1>4, <3>2, <3>4, <3>5, <4>1
        <5>2. start \in 1..Len(out) /\ start # 0 /\ i <= start
          BY <3>3, <3>4, <3>5, <3>7, <5>1
        <5>3. Moves(out[start], op.path)
          BY <3>2, <5>2, SegmentStartIs
        <5> QED
          BY <5>2, <5>3 DEF Ends
      <4>2. CASE out[at].kind \notin {"save", "create"}
        <5>3. at \in 1..Len(out) /\ at # 0
          BY <3>3, <3>4, <3>7
        <5>1. at \in 1..Len(out) /\ Touches(out[at], op.path) /\ out[at] \in Op(n)
          BY <1>2, <3>3, <5>3, LastTouchingIs
        <5>2. Ends(out[at], op.path)
          BY <4>2, <5>1, TouchesIs, OpFields DEF Ends
        <5> QED
          BY <3>7, <5>1, <5>2
      <4> QED
        BY <4>1, <4>2
    <3>9. i < j
      BY <3>1, <3>6, <3>8
    <3> QED
      BY <3>1, <3>3, <3>8, <3>9 DEF Ordered
  <2>3. Free(ToSet(out), op)
    BY <2>2 DEF Free
  <2>4. r \in Seq(Op(n)) /\ Ordered(r) /\ ToSet(r) = ToSet(out) \cup {op}
    BY <1>1, <2>1, AppendOrdered
  <2> QED
    BY <2>3, <2>4 DEF Added
<1> QED
  BY <1>3, <1>4

LEMMA CancelWritesIs ==
  ASSUME NEW n, NEW out \in Seq(Op(n)), Ordered(out), NEW op \in Op(n), op.kind = "delete",
         \A x \in ToSet(out) : x.id < op.id, NEW r, r = CancelWrites(out, op)
  PROVE  r \in Seq(Op(n)) /\ Ordered(r) /\ Cancels(ToSet(r), ToSet(out), op)
<1>1. \A x \in Op(n) : x.id \in Nat
  BY OpFields
<1>2. PICK start : start = SegmentStart(out, op.path)
  OBVIOUS
<1>3. PICK segment, before : segment = SubSeq(out, start + 1, Len(out)) /\ before = SubSeq(out, 1, start)
  OBVIOUS
<1>4. PICK written : written = {q \in ToSet(segment) : q.path = op.path /\ q.kind \in {"save", "create"}}
  OBVIOUS
<1>5. PICK rest : rest = before \o LeavingOut(segment, written)
  OBVIOUS
<1>6. r = IF \E q \in written : q.kind = "create" THEN rest ELSE Append(rest, op)
  BY <1>2, <1>3, <1>4, <1>5 DEF CancelWrites
<1>7. Len(out) \in Nat /\ DOMAIN out = 1..Len(out)
  BY LenProperties
<1>8. start \in 0..Len(out) /\ \A i \in 1..Len(out) : i > start => ~Moves(out[i], op.path)
  BY <1>2, SegmentStartIs
<1>9. /\ segment \in Seq(Op(n)) /\ Ordered(segment) /\ ToSet(segment)
                                                      = {out[i] : i \in (start + 1)..Len(out)}
      /\ before \in Seq(Op(n)) /\ Ordered(before) /\ ToSet(before) = {out[i] : i \in 1..start}
  <2>1. start + 1 \in 1..(Len(out) + 1) /\ Len(out) \in 0..Len(out) /\ 1 \in 1..(Len(out) + 1)
    BY <1>7, <1>8
  <2> QED
    BY <1>3, <1>8, <2>1, PartOrdered
<1>10. \A i \in 1..start : i \in 1..Len(out)
  BY <1>7, <1>8
<1>11. \A i \in (start + 1)..Len(out) : i \in 1..Len(out) /\ i > start
  BY <1>7, <1>8
<1>12. \A x \in ToSet(before), y \in ToSet(segment) : x.id < y.id
  <2> SUFFICES ASSUME NEW i \in 1..start, NEW j \in (start + 1)..Len(out) PROVE out[i].id < out[j].id
    BY <1>9
  <2>1. i \in DOMAIN out /\ j \in DOMAIN out /\ i < j
    BY <1>7, <1>8
  <2> QED
    BY <2>1 DEF Ordered
<1>13. PICK kept : kept = LeavingOut(segment, written)
  OBVIOUS
<1>14. kept \in Seq(Op(n)) /\ Ordered(kept) /\ ToSet(kept) = ToSet(segment) \ written
  BY <1>1, <1>9, <1>13, LeavingOutIs
<1>15. rest \in Seq(Op(n)) /\ Ordered(rest) /\ ToSet(rest) = ToSet(before) \cup (ToSet(segment) \ written)
  <2>1. rest = before \o kept
    BY <1>5, <1>13
  <2>2. \A x \in ToSet(before), y \in ToSet(kept) : x.id < y.id
    BY <1>12, <1>14
  <2>3. before \o kept \in Seq(Op(n)) /\ Ordered(before \o kept)
        /\ ToSet(before \o kept) = ToSet(before) \cup ToSet(kept)
    BY <1>1, <1>9, <1>14, <2>2, ConcatOrdered
  <2> QED
    BY <1>14, <2>1, <2>3
<1>16. ToSet(out) = ToSet(before) \cup ToSet(segment)
  <2>1. \A i \in 1..Len(out) : i \in 1..start \/ i \in (start + 1)..Len(out)
    BY <1>7, <1>8
  <2>2. \A x \in ToSet(out) : x \in ToSet(before) \cup ToSet(segment)
    BY <1>7, <1>9, <2>1 DEF ToSet
  <2>3. \A x \in ToSet(before) \cup ToSet(segment) : \E i \in 1..Len(out) : x = out[i]
    BY <1>9, <1>10, <1>11
  <2>4. \A x \in ToSet(before) \cup ToSet(segment) : x \in ToSet(out)
    BY <1>7, <2>3 DEF ToSet
  <2> QED
    BY <2>2, <2>4
<1>17. \A x \in ToSet(before) : x \notin written
  <2> SUFFICES ASSUME NEW x \in ToSet(before), x \in ToSet(segment) PROVE FALSE
    BY <1>4
  <2>1. x.id < x.id /\ x.id \in Nat
    BY <1>1, <1>9, <1>12, ToSetOf
  <2> QED
    BY <2>1
<1>18. ToSet(rest) = ToSet(out) \ written /\ written \in SUBSET ToSet(out)
  BY <1>4, <1>15, <1>16, <1>17
<1>19. ASSUME NEW a \in written PROVE /\ a.kind \in Writes /\ a.path = op.path
                                      /\ \A c \in ToSet(out) : a.id < c.id => ~Moves(c, op.path)
  <2>1. a \in ToSet(segment) /\ a.kind \in Writes /\ a.path = op.path
    BY <1>4 DEF Writes
  <2>2. ASSUME NEW c \in ToSet(out), a.id < c.id PROVE ~Moves(c, op.path)
    <3>1. c \notin ToSet(before)
      <4> SUFFICES ASSUME c \in ToSet(before) PROVE FALSE
        OBVIOUS
      <4>1. c.id < a.id /\ c.id \in Nat /\ a.id \in Nat
        BY <1>1, <1>9, <1>12, <2>1, ToSetOf
      <4> QED
        BY <2>2, <4>1
    <3>2. PICK i \in (start + 1)..Len(out) : c = out[i]
      BY <1>9, <1>16, <2>2, <3>1
    <3> QED
      BY <1>8, <1>11, <3>2
  <2> QED
    BY <2>1, <2>2
<1>22. Cleared(ToSet(out), written, op)
  <2> SUFFICES ASSUME NEW a \in ToSet(out) \ written, a.kind \in Writes, a.path = op.path
               PROVE  \E c \in ToSet(out) : a.id < c.id /\ Moves(c, op.path)
    BY DEF Cleared
  <2>1. a \in ToSet(before)
    BY <1>4, <1>16 DEF Writes
  <2>2. PICK i \in 1..start : a = out[i]
    BY <1>9, <2>1
  <2>7. start \in 1..Len(out) /\ i \in 1..Len(out) /\ start # 0
    BY <1>7, <1>8, <2>2
  <2>3. start \in 1..Len(out) /\ i \in 1..Len(out) /\ Moves(out[start], op.path)
    BY <1>2, <2>7, SegmentStartIs
  <2>4. i # start
    BY <2>2, <2>3 DEF Moves, Writes
  <2>5. out[i].id < out[start].id
    <3>1. i \in DOMAIN out /\ start \in DOMAIN out /\ i < start
      BY <1>7, <1>8, <2>2, <2>3, <2>4
    <3> QED
      BY <3>1 DEF Ordered
  <2>6. out[start] \in ToSet(out)
    BY <2>3, ToSetOf
  <2> QED
    BY <2>2, <2>3, <2>5, <2>6
<1>20. CASE r = rest /\ written # {}
  BY <1>15, <1>18, <1>19, <1>20, <1>22 DEF Cancels
<1>21. CASE r = Append(rest, op)
  <2>1. \A x \in ToSet(rest) : x.id < op.id
    BY <1>18
  <2>2. r \in Seq(Op(n)) /\ Ordered(r) /\ ToSet(r) = ToSet(rest) \cup {op}
    BY <1>1, <1>15, <1>21, <2>1, AppendOrdered
  <2> QED
    BY <1>18, <1>19, <1>22, <2>2 DEF Cancels
<1> QED
  BY <1>6, <1>20, <1>21

LEMMA CompactedIs ==
  ASSUME NEW n, NEW out \in Seq(Op(n)), Ordered(out), NEW op \in Op(n),
         \A x \in ToSet(out) : x.id < op.id, NEW r, r = Compacted(out, op)
  PROVE  /\ r \in Seq(Op(n)) /\ Ordered(r)
         /\ \/ Added(ToSet(r), ToSet(out), op) \/ Merged(ToSet(r), ToSet(out), op)
            \/ Cancels(ToSet(r), ToSet(out), op)
<1>1. \A x \in Op(n) : x.id \in Nat
  BY OpFields
<1>2. CASE op.kind = "save"
  <2>1. r = MergeSave(out, op)
    BY <1>2 DEF Compacted
  <2> QED
    BY <1>2, <2>1, MergeSaveIs
<1>3. CASE op.kind = "delete"
  <2>1. r = CancelWrites(out, op)
    BY <1>3 DEF Compacted
  <2> QED
    BY <1>3, <2>1, CancelWritesIs
<1>4. CASE op.kind \notin {"save", "delete"}
  <2>1. r = Append(out, op)
    BY <1>4 DEF Compacted
  <2>2. Free(ToSet(out), op)
    BY <1>4 DEF Free
  <2> QED
    BY <1>1, <2>1, <2>2, AppendOrdered DEF Added
<1> QED
  BY <1>2, <1>3, <1>4

-----------------------------------------------------------------------------
(***************************************************************************)
(* What is wanted of a queue, as a set Q of operations, if W are the texts *)
(* the person stands by and the server has not held, each with its path.   *)
(***************************************************************************)
Texts(W) == {w[2] : w \in W}

OnlyMovesFail(Q) == \A a \in Q : a.failed => a.kind = "move"
\* A wanted text no move follows is queued for the path where it is wanted.
InPlace(W, Q) ==
  \A w \in W, a \in Q :
    a.text = w[2] /\ (\A c \in Q : a.id < c.id => ~Moves(c, a.path)) => w[1] = a.path
\* Between it and the next write or delete at its path the note has been moved.
Parted(W, Q) ==
  \A a, b \in Q :
    a.text \in Texts(W) /\ a.id < b.id /\ b.kind # "move" /\ b.path = a.path
    => \E c \in Q : a.id < c.id /\ c.id < b.id /\ Moves(c, a.path)
OfOne(W, Q) == \A a, b \in Q : a.text = b.text /\ a.text \in Texts(W) => a.id = b.id
\* No move that was refused comes after it.
NotBehind(W, Q, id) ==
  \A a, c \in Q : c.id = id /\ a.id < id /\ Moves(c, a.path) => a.text \notin Texts(W)
NoneBehind(W, Q) == \A b \in Q : b.failed => NotBehind(W, Q, b.id)
Complete(W, Q) == \A w \in W : \E a \in Q : a.text = w[2]
Sound(W, Q) ==
  /\ OnlyMovesFail(Q) /\ InPlace(W, Q) /\ Parted(W, Q) /\ OfOne(W, Q) /\ NoneBehind(W, Q)
  /\ Complete(W, Q)

OpSet(n, Q) == Q \subseteq Op(n) /\ \A a, b \in Q : a.id = b.id => a = b

LEMMA SoundOfLess ==
  ASSUME NEW W, NEW V \in SUBSET W, NEW Q, Sound(W, Q)
  PROVE  Sound(V, Q)
<1>1. Texts(V) \subseteq Texts(W)
  BY DEF Texts
<1>2. InPlace(V, Q)
  BY DEF Sound, InPlace
<1>3. Parted(V, Q)
  BY <1>1 DEF Sound, Parted
<1>4. OfOne(V, Q)
  BY <1>1 DEF Sound, OfOne
<1>5. NoneBehind(V, Q)
  BY <1>1 DEF Sound, NoneBehind, NotBehind
<1>6. Complete(V, Q)
  BY DEF Sound, Complete
<1> QED
  BY <1>2, <1>3, <1>4, <1>5, <1>6 DEF Sound

LEMMA SoundWithout ==
  ASSUME NEW n, NEW Q, OpSet(n, Q), NEW W, Sound(W, Q), NEW gone \in SUBSET Q,
         \A a \in gone : a.text \notin Texts(W) /\ (a.kind = "move" => NotBehind(W, Q, a.id))
  PROVE  Sound(W, Q \ gone)
<1>1. PICK R : R = Q \ gone
  OBVIOUS
<1>2. ASSUME NEW a \in Q, a.text \in Texts(W), NEW c \in Q, a.id < c.id, Moves(c, a.path)
      PROVE  c \in R
  BY <1>1, <1>2 DEF NotBehind, Moves
<1>3. InPlace(W, R)
  <2> SUFFICES ASSUME NEW w \in W, NEW a \in R, a.text = w[2],
                      \A c \in R : a.id < c.id => ~Moves(c, a.path)
               PROVE  w[1] = a.path
    BY DEF InPlace
  <2>1. a.text \in Texts(W) /\ a \in Q
    BY <1>1 DEF Texts
  <2>2. \A c \in Q : a.id < c.id => ~Moves(c, a.path)
    BY <1>2, <2>1
  <2> QED
    BY <2>1, <2>2 DEF Sound, InPlace
<1>4. Parted(W, R)
  <2> SUFFICES ASSUME NEW a \in R, NEW b \in R, a.text \in Texts(W), a.id < b.id, b.kind # "move",
                      b.path = a.path
               PROVE  \E c \in R : a.id < c.id /\ c.id < b.id /\ Moves(c, a.path)
    BY DEF Parted
  <2>1. PICK c \in Q : a.id < c.id /\ c.id < b.id /\ Moves(c, a.path)
    BY <1>1 DEF Sound, Parted
  <2> QED
    BY <1>1, <1>2, <2>1
<1>5. OfOne(W, R) /\ OnlyMovesFail(R) /\ NoneBehind(W, R)
  BY <1>1 DEF Sound, OfOne, OnlyMovesFail, NoneBehind, NotBehind
<1>6. Complete(W, R)
  <2> SUFFICES ASSUME NEW w \in W PROVE \E a \in R : a.text = w[2]
    BY DEF Complete
  <2>1. PICK a \in Q : a.text = w[2]
    BY DEF Sound, Complete
  <2>2. a.text \in Texts(W)
    BY <2>1 DEF Texts
  <2> QED
    BY <1>1, <2>1, <2>2
<1> QED
  BY <1>1, <1>3, <1>4, <1>5, <1>6 DEF Sound

\* A save merged into the write it follows.
LEMMA SoundMerged ==
  ASSUME NEW n, NEW Q, OpSet(n, Q), NEW W, Sound(W, Q), NEW a \in Q, NEW b \in Q,
         a.kind \in Writes, b.kind = "save", a.path = b.path, a.id < b.id,
         \A c \in Q : a.id < c.id /\ c.id < b.id => ~Touches(c, a.path)
  PROVE  Sound(W, (Q \ {a, b}) \cup {Retexted(a, b.text)})
<1>1. PICK R, new : R = (Q \ {a, b}) \cup {new} /\ new = Retexted(a, b.text)
  OBVIOUS
<1>2. /\ a \in Op(n) /\ b \in Op(n) /\ a.id \in Nat /\ b.id \in Nat
      /\ \A c \in Q : c \in Op(n) /\ c.id \in Nat
  BY OpFields DEF OpSet
<1>3. /\ new.text = b.text /\ ~new.failed /\ new.id = a.id /\ new.path = a.path
      /\ new.kind = a.kind /\ new.kind # "move" /\ a.kind # "move"
  <2>1. b.text \in 1..n
    BY <1>2, OpFields DEF Writes
  <2>2. /\ new.text = b.text /\ ~new.failed /\ new.id = a.id
        /\ new.path = a.path /\ new.kind = a.kind
    BY <1>1, <1>2, <2>1, RetextedIs
  <2> QED
    BY <2>2 DEF Writes
<1>4. \A c \in Q : a.id < c.id /\ c.id < b.id => ~Moves(c, a.path) /\ (c.kind # "move" => c.path # a.path)
  BY <1>2, TouchesIs DEF Moves
<1>5. \A c \in Q : c.id = a.id \/ c.id = b.id => c \in {a, b}
  BY DEF OpSet
<1>6. a.text \notin Texts(W)
  <2>1. b.kind # "move"
    OBVIOUS
  <2> QED
    BY <1>4, <2>1 DEF Sound, Parted
<1>7. \A c \in Q : \A p : Moves(c, p) => c \in R
  BY <1>1, <1>3 DEF Moves
<1>8. \A c \in R : c \in Q \ {a, b} \/ c = new
  BY <1>1
<1>9. \A p : ~Moves(new, p)
  BY <1>3 DEF Moves
<1>10. InPlace(W, R)
  <2> SUFFICES ASSUME NEW w \in W, NEW x \in R, x.text = w[2],
                      \A c \in R : x.id < c.id => ~Moves(c, x.path)
               PROVE  w[1] = x.path
    BY DEF InPlace
  <2>1. \A c \in Q : x.id < c.id => ~Moves(c, x.path)
    BY <1>7
  <2>2. CASE x \in Q
    BY <2>1, <2>2 DEF Sound, InPlace
  <2>3. CASE x = new
    <3>1. \A c \in Q : b.id < c.id => ~Moves(c, b.path)
      BY <1>2, <1>3, <2>1, <2>3
    <3>2. b.text = w[2]
      BY <1>3, <2>3
    <3> QED
      BY <1>3, <2>3, <3>1, <3>2 DEF Sound, InPlace
  <2> QED
    BY <1>8, <2>2, <2>3
<1>11. Parted(W, R)
  <2> SUFFICES ASSUME NEW x \in R, NEW y \in R, x.text \in Texts(W), x.id < y.id, y.kind # "move",
                      y.path = x.path
               PROVE  \E c \in R : x.id < c.id /\ c.id < y.id /\ Moves(c, x.path)
    BY DEF Parted
  <2>1. CASE x \in Q /\ y \in Q
    <3>1. PICK c \in Q : x.id < c.id /\ c.id < y.id /\ Moves(c, x.path)
      BY <2>1 DEF Sound, Parted
    <3> QED
      BY <1>7, <3>1
  <2>2. CASE x \in Q /\ y = new
    <3>1. PICK c \in Q : x.id < c.id /\ c.id < a.id /\ Moves(c, x.path)
      BY <1>3, <2>2 DEF Sound, Parted
    <3> QED
      BY <1>3, <1>7, <2>2, <3>1
  <2>3. CASE x = new /\ y \in Q \ {a, b}
    <3>1. b.text \in Texts(W) /\ y.path = b.path /\ a.id < y.id
      BY <1>3, <2>3
    <3>2. b.id < y.id
      <4>1. y.id # b.id /\ ~(y.id < b.id)
        BY <1>3, <1>4, <1>5, <2>3, <3>1
      <4> QED
        BY <1>2, <2>3, <4>1
    <3>3. PICK c \in Q : b.id < c.id /\ c.id < y.id /\ Moves(c, b.path)
      BY <2>3, <3>1, <3>2 DEF Sound, Parted
    <3>4. c \in R /\ x.id < c.id /\ Moves(c, x.path)
      BY <1>2, <1>3, <1>7, <2>3, <3>3
    <3> QED
      BY <3>3, <3>4
  <2>4. CASE x = new /\ y = new
    BY <1>2, <1>3, <2>4
  <2> QED
    BY <1>8, <2>1, <2>2, <2>3, <2>4
<1>12. OfOne(W, R)
  <2> SUFFICES ASSUME NEW x \in R, NEW y \in R, x.text = y.text, x.text \in Texts(W)
               PROVE  x.id = y.id
    BY DEF OfOne
  <2>1. \A z \in Q \ {a, b} : b.text \in Texts(W) => z.text # b.text
    BY <1>5 DEF Sound, OfOne
  <2> QED
    BY <1>3, <1>8, <2>1 DEF Sound, OfOne
<1>13. NoneBehind(W, R)
  <2> SUFFICES ASSUME NEW f \in R, f.failed, NEW x \in R, NEW c \in R, c.id = f.id, x.id < f.id,
                      Moves(c, x.path)
               PROVE  x.text \notin Texts(W)
    BY DEF NoneBehind, NotBehind
  <2>1. f \in Q \ {a, b} /\ c \in Q \ {a, b}
    BY <1>3, <1>8, <1>9
  <2>2. CASE x \in Q
    BY <2>1, <2>2 DEF Sound, NoneBehind, NotBehind
  <2>3. CASE x = new
    <3>1. a.id < c.id /\ Moves(c, a.path)
      BY <1>3, <2>3
    <3>2. b.id < c.id
      <4>1. c.id # b.id /\ ~(c.id < b.id)
        BY <1>4, <1>5, <2>1, <3>1
      <4> QED
        BY <1>2, <2>1, <4>1
    <3>3. b.text \notin Texts(W)
      BY <2>1, <3>1, <3>2 DEF Sound, NoneBehind, NotBehind
    <3> QED
      BY <1>3, <2>3, <3>3
  <2> QED
    BY <1>8, <2>2, <2>3
<1>14. OnlyMovesFail(R)
  BY <1>3, <1>8 DEF Sound, OnlyMovesFail
<1>15. Complete(W, R)
  <2> SUFFICES ASSUME NEW w \in W PROVE \E x \in R : x.text = w[2]
    BY DEF Complete
  <2>1. PICK x \in Q : x.text = w[2]
    BY DEF Sound, Complete
  <2>2. x # a
    BY <1>6, <2>1 DEF Texts
  <2>3. CASE x = b
    BY <1>1, <1>3, <2>1, <2>3
  <2>4. CASE x # b
    BY <1>1, <2>1, <2>2, <2>4
  <2> QED
    BY <2>3, <2>4
<1> QED
  BY <1>1, <1>10, <1>11, <1>12, <1>13, <1>14, <1>15 DEF Sound

-----------------------------------------------------------------------------
(***************************************************************************)
(* Compaction keeps a sound queue sound.                                   *)
(***************************************************************************)
LEMMA LeavingOutType ==
  ASSUME NEW S, NEW q \in Seq(S), NEW gone
  PROVE  LeavingOut(q, gone) \in Seq(S)
<1>1. PICK g : /\ g[0] = <<>> /\ g[Len(q)] = LeavingOut(q, gone)
               /\ \A k \in 0..(Len(q) - 1) :
                    g[k + 1] = IF q[k + 1] \in gone THEN g[k] ELSE Append(g[k], q[k + 1])
  BY LeavingOutSteps
<1>2. Len(q) \in Nat
  BY LenProperties
<1>3. PICK P : P = {k \in 0..Len(q) : g[k] \in Seq(S)}
  OBVIOUS
<1>4. 0 \in P
  <2>1. 0 \in 0..Len(q) /\ g[0] \in Seq(S)
    BY <1>1, <1>2, EmptySeq
  <2> QED
    BY <1>3, <2>1
<1>5. ASSUME NEW k \in 0..(Len(q) - 1), k \in P PROVE k + 1 \in P
  <2>1. k + 1 \in 1..Len(q) /\ k + 1 \in 0..Len(q) /\ q[k + 1] \in S
    BY <1>2, ElementOfSeq
  <2>2. g[k] \in Seq(S) /\ Append(g[k], q[k + 1]) \in Seq(S)
    BY <1>3, <1>5, <2>1, AppendProperties
  <2> QED
    BY <1>1, <1>3, <2>1, <2>2
<1>6. Len(q) \in P
  BY <1>2, <1>4, <1>5, Reaches
<1> QED
  BY <1>1, <1>3, <1>6

LEMMA CompactedType ==
  ASSUME NEW n, NEW out \in Seq(Op(n)), NEW op \in Op(n)
  PROVE  Compacted(out, op) \in Seq(Op(n))
<1>1. Append(out, op) \in Seq(Op(n))
  BY AppendProperties
<1>2. CASE op.kind = "save"
  <2>1. PICK at : at = LastTouching(out, op.path)
    OBVIOUS
  <2>2. CASE at > SegmentStart(out, op.path) /\ out[at].kind \in {"save", "create"}
    <3>1. at \in 1..Len(out)
      <4>1. SegmentStart(out, op.path) \in 0..Len(out) /\ Len(out) \in Nat
        BY SegmentStartIs, LenProperties
      <4> QED
        BY <2>1, <2>2, <4>1, LastTouchingIs
    <3>2. out[at] \in Op(n) /\ out[at].kind \in Writes /\ op.text \in 1..n
      BY <1>2, <2>2, <3>1, ElementOfSeq, OpFields DEF Writes
    <3>3. Retexted(out[at], op.text) \in Op(n)
      BY <3>2, RetextedIs
    <3>4. Replaced(out, at, Retexted(out[at], op.text)) \in Seq(Op(n))
      BY <3>1, <3>3, ExceptSeq DEF Replaced
    <3> QED
      BY <1>2, <2>1, <2>2, <3>4 DEF Compacted, MergeSave, Retexted, Replaced
  <2>3. CASE ~(at > SegmentStart(out, op.path) /\ out[at].kind \in {"save", "create"})
    BY <1>1, <1>2, <2>1, <2>3 DEF Compacted, MergeSave
  <2> QED
    BY <2>2, <2>3
<1>3. CASE op.kind = "delete"
  <2>1. PICK start : start = SegmentStart(out, op.path)
    OBVIOUS
  <2>2. PICK segment, before : segment = SubSeq(out, start + 1, Len(out)) /\ before = SubSeq(out, 1, start)
    OBVIOUS
  <2>3. PICK written : written = {q \in ToSet(segment) : q.path = op.path /\ q.kind \in {"save", "create"}}
    OBVIOUS
  <2>4. PICK kept : kept = LeavingOut(segment, written)
    OBVIOUS
  <2>5. segment \in Seq(Op(n)) /\ before \in Seq(Op(n))
    <3>1. Len(out) \in Nat /\ start \in 0..Len(out) /\ start + 1 \in Int /\ start \in Int
      BY <2>1, SegmentStartIs, LenProperties
    <3>2. \A i \in (start + 1)..Len(out) : out[i] \in Op(n)
      BY <3>1, ElementOfSeq
    <3>3. \A i \in 1..start : out[i] \in Op(n)
      BY <3>1, ElementOfSeq
    <3> QED
      BY <2>2, <3>1, <3>2, <3>3, SubSeqProperties
  <2>6. before \o kept \in Seq(Op(n))
    BY <2>4, <2>5, LeavingOutType, ConcatProperties
  <2>7. Append(before \o kept, op) \in Seq(Op(n))
    BY <2>6, AppendProperties
  <2>8. CancelWrites(out, op) = IF \E q \in written : q.kind = "create"
                                THEN before \o kept ELSE Append(before \o kept, op)
    BY <2>1, <2>2, <2>3, <2>4 DEF CancelWrites
  <2> QED
    BY <1>3, <2>6, <2>7, <2>8 DEF Compacted
<1>4. CASE op.kind \notin {"save", "delete"}
  BY <1>1, <1>4 DEF Compacted
<1> QED
  BY <1>2, <1>3, <1>4

\* Coalesce, one operation after the other.
LEMMA CoalesceSteps ==
  ASSUME NEW n, NEW ops \in Seq(Op(n))
  PROVE  \E g : /\ g[0] = <<>> /\ g[Len(ops)] = Coalesce(ops)
                /\ \A k \in 0..(Len(ops) - 1) : g[k + 1] = Compacted(g[k], ops[k + 1])
<1> DEFINE D == DOMAIN ops
           Is(g) == g = [s \in SUBSET D |->
                           IF s = {} THEN <<>> ELSE Compacted(g[s \ {Max(s)}], ops[Max(s)])]
<1>1. Coalesce(ops) = (CHOOSE g : Is(g))[D]
  BY DEF Coalesce, FoldLeft, MapThenFoldSet
<1>2. D = 1..Len(ops) /\ Len(ops) \in Nat
  BY LenProperties
<1>3. \E g : Is(g)
  <2>1. PICK step : step = [e \in (1..Len(ops)) \X Seq(Op(n)) |-> Compacted(e[2], ops[e[1]])]
    OBVIOUS
  <2>2. step \in [(1..Len(ops)) \X Seq(Op(n)) -> Seq(Op(n))]
    BY <2>1, ElementOfSeq, CompactedType
  <2>3. <<>> \in Seq(Op(n))
    BY EmptySeq
  <2>4. PICK g : IsFold(g, Len(ops), Seq(Op(n)), <<>>, step)
    BY <1>2, <2>2, <2>3, FoldExists
  <2>5. ASSUME NEW s \in SUBSET D, s # {}
        PROVE  step[<<Max(s), g[s \ {Max(s)}]>>] = Compacted(g[s \ {Max(s)}], ops[Max(s)])
    <3>1. Max(s) \in 1..Len(ops)
      BY <1>2, <2>5, MaxOf
    <3>2. g[s \ {Max(s)}] \in Seq(Op(n))
      BY <1>2, <2>4 DEF IsFold
    <3> QED
      BY <2>1, <3>1, <3>2
  <2>6. Is(g)
    BY <1>2, <2>4, <2>5 DEF IsFold
  <2> QED
    BY <2>6
<1>4. PICK g : Is(g) /\ Coalesce(ops) = g[D]
  BY <1>1, <1>3
<1>5. PICK h : h = [k \in 0..Len(ops) |-> g[1..k]]
  OBVIOUS
<1>6. h[0] = <<>>
  <2>1. 1..0 = {} /\ 0 \in 0..Len(ops)
    BY <1>2
  <2> QED
    BY <1>4, <1>5, <2>1
<1>7. ASSUME NEW k \in 0..(Len(ops) - 1)
      PROVE  h[k + 1] = Compacted(h[k], ops[k + 1])
  <2>1. /\ 1..(k + 1) \in SUBSET D /\ 1..(k + 1) # {} /\ k + 1 \in 1..(k + 1) /\ k + 1 \in Nat
        /\ k \in 0..Len(ops) /\ k + 1 \in 0..Len(ops)
    <3>1. k + 1 \in Nat /\ k + 1 <= Len(ops) /\ k + 1 \in 1..(k + 1)
      BY <1>2
    <3>2. \A i \in 1..(k + 1) : i \in 1..Len(ops)
      BY <1>2, <3>1
    <3>3. 1..(k + 1) \subseteq D
      BY <1>2, <3>2
    <3>4. 1..(k + 1) # {}
      BY <3>1
    <3> QED
      BY <1>2, <3>1, <3>3, <3>4
  <2>2. Max(1..(k + 1)) = k + 1
    BY <2>1, MaxIs
  <2>3. (1..(k + 1)) \ {k + 1} = 1..k
    OBVIOUS
  <2> QED
    BY <1>4, <1>5, <2>1, <2>2, <2>3
<1>8. h[Len(ops)] = Coalesce(ops)
  BY <1>2, <1>4, <1>5
<1> HIDE DEF D, Is
<1> QED
  BY <1>6, <1>7, <1>8

\* One step of it, with the operations still to come.
LEMMA CompactedSound ==
  ASSUME NEW n, NEW Q, OpSet(n, Q), NEW op \in Q, NEW rest \in SUBSET Q,
         NEW W, Texts(W) \subseteq Nat,
         NEW done, Q = done \cup {op} \cup rest, Sound(W, Q),
         \A x \in done : x.id < op.id, \A x \in rest : op.id < x.id,
         NEW R, Added(R, done, op) \/ Merged(R, done, op) \/ Cancels(R, done, op)
  PROVE  Sound(W, R \cup rest)
<1>1. \A x \in Q : x \in Op(n) /\ x.id \in Nat
  BY OpFields DEF OpSet
<1>2. CASE Added(R, done, op)
  <2>1. R \cup rest = Q
    BY <1>2 DEF Added
  <2> QED
    BY <2>1
<1>3. CASE Merged(R, done, op)
  <2>1. PICK a \in done : /\ op.kind = "save" /\ a.kind \in Writes /\ a.path = op.path
                          /\ \A c \in done : a.id < c.id => ~Touches(c, op.path)
                          /\ R = (done \ {a}) \cup {Retexted(a, op.text)}
    BY <1>3 DEF Merged
  <2>2. a \in Q /\ a.id < op.id
    OBVIOUS
  <2>3. \A c \in Q : a.id < c.id /\ c.id < op.id => ~Touches(c, a.path)
    <3> SUFFICES ASSUME NEW c \in Q, a.id < c.id, c.id < op.id PROVE ~Touches(c, a.path)
      OBVIOUS
    <3>1. c # op /\ c \notin rest
      BY <1>1
    <3> QED
      BY <2>1, <3>1
  <2>4. Sound(W, (Q \ {a, op}) \cup {Retexted(a, op.text)})
    BY <2>1, <2>2, <2>3, SoundMerged
  <2>5. a \notin rest /\ op \notin rest /\ op \notin done
    BY <1>1, <2>2
  <2>6. (Q \ {a, op}) \cup {Retexted(a, op.text)} = R \cup rest
    BY <2>1, <2>5
  <2> QED
    BY <2>4, <2>6
<1>4. CASE Cancels(R, done, op)
  <2>1. PICK gone \in SUBSET done :
          /\ op.kind = "delete"
          /\ \A a \in gone : /\ a.kind \in Writes /\ a.path = op.path
                             /\ \A c \in done : a.id < c.id => ~Moves(c, op.path)
          /\ R = done \ gone \/ R = (done \ gone) \cup {op}
    BY <1>4 DEF Cancels
  <2>2. \A a \in gone \cup {op} : a.kind # "move"
    BY <2>1 DEF Writes
  <2>3. ASSUME NEW a \in gone PROVE a.text \notin Texts(W)
    <3> SUFFICES ASSUME a.text \in Texts(W) PROVE FALSE
      OBVIOUS
    <3>1. a \in Q /\ a.id < op.id /\ op.kind # "move" /\ op.path = a.path
      BY <2>1, <2>3
    <3>2. PICK c \in Q : a.id < c.id /\ c.id < op.id /\ Moves(c, a.path)
      BY <3>1 DEF Sound, Parted
    <3>3. c # op /\ c \notin rest
      BY <1>1, <3>2
    <3> QED
      BY <2>1, <2>3, <3>2, <3>3
  <2>4. op.text \notin Texts(W)
    <3>1. op.text = Nothing
      BY <1>1, <2>1, OpFields DEF Writes
    <3> QED
      BY <3>1, SyncAssumption
  <2>5. gone \in SUBSET Q /\ gone \cup {op} \in SUBSET Q
    OBVIOUS
  <2>6. Sound(W, Q \ gone) /\ Sound(W, Q \ (gone \cup {op}))
    BY <2>2, <2>3, <2>4, <2>5, SoundWithout
  <2>7. \A x \in gone : x \notin rest /\ x # op
    BY <1>1, <2>5
  <2>8. op \notin rest /\ op \notin done
    BY <1>1
  <2>9. CASE R = done \ gone
    <3>1. R \cup rest = Q \ (gone \cup {op})
      BY <2>7, <2>8, <2>9
    <3> QED
      BY <2>6, <3>1
  <2>10. CASE R = (done \ gone) \cup {op}
    <3>1. R \cup rest = Q \ gone
      BY <2>7, <2>8, <2>10
    <3> QED
      BY <2>6, <3>1
  <2> QED
    BY <2>1, <2>9, <2>10
<1> QED
  BY <1>2, <1>3, <1>4

LEMMA CoalesceIs ==
  ASSUME NEW n, NEW ops \in Seq(Op(n)), Ordered(ops)
  PROVE  /\ Coalesce(ops) \in Seq(Op(n)) /\ Ordered(Coalesce(ops))
         /\ \A W : Texts(W) \subseteq Nat /\ Sound(W, ToSet(ops)) => Sound(W, ToSet(Coalesce(ops)))
<1>1. PICK g : /\ g[0] = <<>> /\ g[Len(ops)] = Coalesce(ops)
               /\ \A k \in 0..(Len(ops) - 1) : g[k + 1] = Compacted(g[k], ops[k + 1])
  BY CoalesceSteps
<1>2. /\ Len(ops) \in Nat /\ DOMAIN ops = 1..Len(ops) /\ ToSet(ops) = {ops[i] : i \in 1..Len(ops)}
      /\ \A x \in Op(n) : x.id \in Nat
  BY LenProperties, OpFields DEF ToSet
<1> DEFINE Rest(k)  == {ops[i] : i \in (k + 1)..Len(ops)}
           Done(k)  == ToSet(g[k])
           Fine(k)  == /\ g[k] \in Seq(Op(n)) /\ Ordered(g[k])
                       /\ \A x \in Done(k) : \A y \in Rest(k) : x.id < y.id
                       /\ \A W : Texts(W) \subseteq Nat /\ Sound(W, ToSet(ops))
                                => Sound(W, Done(k) \cup Rest(k))
<1>3. PICK P : P = {k \in 0..Len(ops) : Fine(k)}
  OBVIOUS
<1>4. 0 \in P
  <2>1. DOMAIN <<>> = {}
    OBVIOUS
  <2>2. g[0] \in Seq(Op(n)) /\ Ordered(g[0]) /\ Done(0) = {}
    BY <1>1, <2>1, EmptySeq DEF Ordered, ToSet
  <2>3. Rest(0) = ToSet(ops) /\ Done(0) \cup Rest(0) = ToSet(ops)
    <3>1. (0 + 1)..Len(ops) = 1..Len(ops)
      OBVIOUS
    <3> QED
      BY <1>2, <2>2, <3>1
  <2>4. Fine(0)
    BY <2>2, <2>3
  <2> QED
    BY <1>2, <1>3, <2>4
<1>5. ASSUME NEW k \in 0..(Len(ops) - 1), k \in P PROVE k + 1 \in P
  <2>1. Fine(k)
    BY <1>3, <1>5
  <2>2. k + 1 \in 1..Len(ops) /\ k + 1 \in 0..Len(ops) /\ ops[k + 1] \in Op(n)
    BY <1>2, ElementOfSeq
  <2>3. PICK op : op = ops[k + 1]
    OBVIOUS
  <2>4. Rest(k) = {op} \cup Rest(k + 1)
    <3>1. (k + 1)..Len(ops) = {k + 1} \cup (((k + 1) + 1)..Len(ops))
      BY <1>2
    <3> QED
      BY <2>3, <3>1
  <2>5. \A y \in Rest(k + 1) : op.id < y.id
    <3> SUFFICES ASSUME NEW i \in ((k + 1) + 1)..Len(ops) PROVE op.id < ops[i].id
      OBVIOUS
    <3>1. i \in DOMAIN ops /\ k + 1 \in DOMAIN ops /\ k + 1 < i
      BY <1>2
    <3> QED
      BY <2>3, <3>1 DEF Ordered
  <2>6. \A x \in Done(k) : x.id < op.id
    BY <2>1, <2>4
  <2>7. PICK r : r = g[k + 1]
    OBVIOUS
  <2>8. r = Compacted(g[k], op)
    BY <1>1, <2>3, <2>7
  <2>9. /\ r \in Seq(Op(n)) /\ Ordered(r)
        /\ Added(ToSet(r), Done(k), op) \/ Merged(ToSet(r), Done(k), op) \/ Cancels(ToSet(r), Done(k), op)
    BY <2>1, <2>2, <2>3, <2>6, <2>8, CompactedIs
  <2>10. Done(k) \subseteq Op(n) /\ Rest(k) \subseteq Op(n)
    <3>1. \A i \in (k + 1)..Len(ops) : ops[i] \in Op(n)
      BY <1>2, ElementOfSeq
    <3> QED
      BY <2>1, <3>1, ToSetOf
  <2>11. \A x \in ToSet(r) : x.id <= op.id /\ x.id \in Nat
    <3>1. \A x \in ToSet(r) : x \in Op(n) /\ x.id \in Nat
      BY <1>2, <2>9, ToSetOf
    <3>2. op.id \in Nat
      BY <1>2, <2>2, <2>3
    <3>3. \A x \in ToSet(r) : x = op \/ x \in Done(k) \/ \E a \in Done(k) : x.id = a.id
      <4>1. CASE Merged(ToSet(r), Done(k), op)
        <5>1. PICK a \in Done(k) : /\ op.kind = "save" /\ a.kind \in Writes
                                   /\ ToSet(r) = (Done(k) \ {a}) \cup {Retexted(a, op.text)}
          BY <4>1 DEF Merged
        <5>2. a \in Op(n) /\ op \in Op(n) /\ op.text \in 1..n
          BY <2>2, <2>3, <2>10, <5>1, OpFields DEF Writes
        <5>3. Retexted(a, op.text).id = a.id
          BY <5>1, <5>2, RetextedIs
        <5> QED
          BY <5>1, <5>3
      <4>2. CASE Added(ToSet(r), Done(k), op) \/ Cancels(ToSet(r), Done(k), op)
        BY <4>2 DEF Added, Cancels
      <4> QED
        BY <2>9, <4>1, <4>2
    <3> QED
      BY <2>6, <3>1, <3>2, <3>3
  <2>12. \A x \in ToSet(r) : \A y \in Rest(k + 1) : x.id < y.id
    <3>1. \A y \in Rest(k + 1) : y.id \in Nat
      BY <1>2, <2>4, <2>10
    <3>2. op.id \in Nat
      BY <1>2, <2>2, <2>3
    <3> QED
      BY <2>5, <2>11, <3>1, <3>2
  <2>13. ASSUME NEW W, Texts(W) \subseteq Nat, Sound(W, ToSet(ops))
         PROVE Sound(W, ToSet(r) \cup Rest(k + 1))
    <3>1. PICK Q, done, rest, R
         : Q = Done(k) \cup Rest(k) /\ done = Done(k) /\ rest = Rest(k + 1) /\ R = ToSet(r)
      OBVIOUS
    <3>2. Sound(W, Q)
      BY <2>1, <2>13, <3>1
    <3>3. Q = done \cup {op} \cup rest /\ rest \in SUBSET Q /\ op \in Q
      BY <2>4, <3>1
    <3>4. OpSet(n, Q)
      <4>1. Q \subseteq Op(n)
        BY <2>10, <3>1
      <4>2. ASSUME NEW a \in Q, NEW b \in Q, a.id = b.id PROVE a = b
        <5>1. a.id \in Nat
          BY <1>2, <4>1
        <5>2. CASE a \in Done(k) /\ b \in Done(k)
          BY <1>2, <2>1, <4>2, <5>2, IdsAreDistinct
        <5>3. CASE a \in Rest(k) /\ b \in Rest(k)
          <6>1. Rest(k) \subseteq ToSet(ops)
            <7>1. \A i \in (k + 1)..Len(ops) : i \in 1..Len(ops)
              BY <1>2
            <7> QED
              BY <1>2, <7>1
          <6> QED
            BY <1>2, <4>2, <5>3, <6>1, IdsAreDistinct
        <5>4. CASE a \in Done(k) /\ b \in Rest(k)
          BY <2>1, <4>2, <5>1, <5>4
        <5>5. CASE a \in Rest(k) /\ b \in Done(k)
          BY <2>1, <4>2, <5>1, <5>5
        <5> QED
          BY <3>1, <5>2, <5>3, <5>4, <5>5
      <4> QED
        BY <4>1, <4>2 DEF OpSet
    <3>5. (\A x \in done : x.id < op.id) /\ \A x \in rest : op.id < x.id
      BY <2>5, <2>6, <3>1
    <3>6. Added(R, done, op) \/ Merged(R, done, op) \/ Cancels(R, done, op)
      BY <2>9, <3>1
    <3>7. Sound(W, R \cup rest)
      BY <2>13, <3>2, <3>3, <3>4, <3>5, <3>6, CompactedSound
    <3> QED
      BY <3>1, <3>7
  <2>14. Fine(k + 1)
    BY <2>7, <2>9, <2>12, <2>13
  <2> QED
    BY <1>3, <2>2, <2>14
<1>6. Len(ops) \in P
  <2> HIDE DEF Fine
  <2> QED
    BY <1>2, <1>4, <1>5, Reaches
<1>7. Fine(Len(ops))
  BY <1>3, <1>6
<1>8. Done(Len(ops)) \cup Rest(Len(ops)) = ToSet(Coalesce(ops))
  <2>1. (Len(ops) + 1)..Len(ops) = {}
    BY <1>2
  <2> QED
    BY <1>1, <2>1
<1> QED
  BY <1>1, <1>7, <1>8

-----------------------------------------------------------------------------
(***************************************************************************)
(* What VaultFiles does to notes none of which lies within another: each   *)
(* operation touches the note it names and no other.                       *)
(***************************************************************************)
LEMMA PlacesApart ==
  ASSUME NEW p \in Places, NEW q \in NotePath, Under(p, q)
  PROVE  p = q
<1> SUFFICES ASSUME IsWithin(p, q) PROVE FALSE
  BY DEF Under
<1>1. NotePath \subseteq Seq(STRING) /\ \A r, s \in NotePath : ~IsWithin(r, s)
  BY SyncAssumption
<1>2. PICK r \in NotePath : p \in Parents(r)
  BY <1>1 DEF Places
<1>3. PICK n \in 1..(Len(r) - 1) : p = SubSeq(r, 1, n)
  BY <1>2 DEF Parents
<1>4. r \in Seq(STRING) /\ q \in Seq(STRING) /\ Len(r) \in Nat /\ Len(q) \in Nat
  BY <1>1, LenProperties
<1>5. p \in Seq(STRING) /\ Len(p) = n
  <2>1. \A i \in 1..n : r[i] \in STRING
    BY <1>4, ElementOfSeq
  <2> QED
    BY <1>3, <2>1, SubSeqProperties
<1>6. Len(q) <= Len(p) /\ SubSeq(q, 1, Len(q)) = SubSeq(p, 1, Len(q))
  BY DEF IsWithin, IsStrictPrefix, IsPrefix
<1>7. SubSeq(p, 1, Len(q)) = SubSeq(r, 1, Len(q))
  <2>1. CASE Len(q) = 0
    BY <2>1, SubSeqEmpty
  <2>2. CASE Len(q) # 0
    <3>1. 1 \in 1..Len(r) /\ n \in 1..Len(r) /\ 1 \in 1..(n - 1 + 1) /\ Len(q) \in 1..(n - 1 + 1)
      BY <1>4, <1>5, <1>6, <2>2
    <3>2. SubSeq(SubSeq(r, 1, n), 1, Len(q)) = SubSeq(r, 1 + 1 - 1, 1 + Len(q) - 1)
      BY <1>4, <3>1, SubSeqOfSubSeq
    <3>3. 1 + 1 - 1 = 1 /\ 1 + Len(q) - 1 = Len(q)
      BY <1>4
    <3> QED
      BY <1>3, <3>2, <3>3
  <2> QED
    BY <2>1, <2>2
<1>8. Len(q) <= Len(r) /\ q # r
  BY <1>3, <1>4, <1>5, <1>6
<1>9. IsWithin(r, q)
  BY <1>6, <1>7, <1>8 DEF IsWithin, IsStrictPrefix, IsPrefix
<1> QED
  BY <1>1, <1>2, <1>9

LEMMA RebasedItself ==
  ASSUME NEW p \in NotePath, NEW q \in NotePath
  PROVE  Rebase(p, p, q) = q
<1>1. p \in Seq(STRING) /\ q \in Seq(STRING)
  BY SyncAssumption
<1>2. SubSeq(p, Len(p) + 1, Len(p)) = << >>
  BY <1>1, SubSeqEmpty, LenProperties
<1> QED
  BY <1>1, <1>2, ConcatEmptySeq DEF Rebase

\* g is f with the note at from, if there is one, at to.
WithMoved(g, f, from, to) ==
  /\ from \in DOMAIN f => DOMAIN g = (DOMAIN f \ {from}) \cup {to} /\ g[to] = f[from]
  /\ from \notin DOMAIN f => DOMAIN g = DOMAIN f
  /\ \A p \in DOMAIN g : (p = to /\ from \in DOMAIN f) \/ (p \in DOMAIN f /\ g[p] = f[p])
LEMMA RelocatedIs ==
  ASSUME NEW f, DOMAIN f \subseteq Places, NEW from \in NotePath, NEW to \in NotePath
  PROVE  WithMoved(Relocated(f, from, to), f, from, to)
<1> DEFINE g == Relocated(f, from, to)
<1>1. PICK gone, new : gone = {p \in DOMAIN f : Under(p, from)} /\ new = {Rebase(p, from, to) : p \in gone}
  OBVIOUS
<1>2. g = [q \in (DOMAIN f \ gone) \cup new |-> IF q \in new THEN f[Rebase(q, to, from)] ELSE f[q]]
  BY <1>1 DEF Relocated
<1> HIDE DEF g
<1>3. gone = IF from \in DOMAIN f THEN {from} ELSE {}
  BY <1>1, PlacesApart DEF Under
<1>4. Rebase(from, from, to) = to /\ Rebase(to, to, from) = from
  BY RebasedItself
<1>5. CASE from \in DOMAIN f
  <2>1. gone = {from} /\ new = {to}
    BY <1>1, <1>3, <1>4, <1>5
  <2>2. DOMAIN g = (DOMAIN f \ {from}) \cup {to} /\ g[to] = f[from]
    BY <1>2, <1>4, <2>1
  <2>3. \A p \in DOMAIN g : p = to \/ (p \in DOMAIN f /\ g[p] = f[p])
    BY <1>2, <2>1
  <2> QED
    BY <1>5, <2>2, <2>3 DEF WithMoved, g
<1>6. CASE from \notin DOMAIN f
  <2>1. gone = {} /\ new = {}
    BY <1>1, <1>3, <1>6
  <2>2. DOMAIN g = DOMAIN f /\ \A p \in DOMAIN g : g[p] = f[p]
    BY <1>2, <2>1
  <2> QED
    BY <1>6, <2>2 DEF WithMoved, g
<1> QED
  BY <1>5, <1>6 DEF g

LEMMA RemovedIs ==
  ASSUME NEW f, DOMAIN f \subseteq Places, NEW path \in NotePath
  PROVE  /\ DOMAIN Removed(f, path) = DOMAIN f \ {path}
         /\ \A p \in DOMAIN f \ {path} : Removed(f, path)[p] = f[p]
<1>1. {p \in DOMAIN f : ~Under(p, path)} = DOMAIN f \ {path}
  BY PlacesApart DEF Under
<1> QED
  BY <1>1 DEF Removed, Restrict

\* An operation leaves the vault what it had, but for folders and its own text, which
\* it brings if it is accepted.
LEMMA EffectIs ==
  ASSUME NEW v, DOMAIN v \subseteq Places, NEW n, NEW op \in Op(n)
  PROVE  /\ DOMAIN Effect(v, op) \subseteq Places
         /\ \A p \in DOMAIN Effect(v, op) :
              \/ Effect(v, op)[p] = Folder
              \/ \E q \in DOMAIN v : Effect(v, op)[p] = v[q]
              \/ Accepted(v, op) /\ op.kind \in Writes /\ Effect(v, op)[p] = op.text
<1>1. PICK e : e = Effect(v, op)
  OBVIOUS
<1>2. op.path \in NotePath /\ op.to \in NotePath /\ op.kind \in {"save", "create", "delete", "move"}
  BY OpFields
<1>3. NotePath \subseteq Places /\ \A p \in NotePath : Parents(p) \subseteq Places
  BY DEF Places
<1>4. CASE ~Accepted(v, op)
  <2>1. e = v
    BY <1>1, <1>4 DEF Effect
  <2> QED
    BY <1>1, <2>1
<1>5. CASE Accepted(v, op) /\ op.kind \in Writes
  <2>1. e = Put(v, op.path, op.text)
    BY <1>1, <1>5 DEF Effect, Writes
  <2>2. PICK w : w = Written(v, op.path, op.text)
    OBVIOUS
  <2>3. /\ DOMAIN w = DOMAIN v \cup {op.path}
        /\ w[op.path] = op.text /\ \A p \in DOMAIN v \ {op.path} : w[p] = v[p]
    BY <2>2 DEF Written
  <2>4. e = [p \in DOMAIN w \cup Parents(op.path) |-> IF p \in DOMAIN w THEN w[p] ELSE Folder]
    BY <2>1, <2>2 DEF Put, WithParents
  <2> QED
    BY <1>1, <1>2, <1>3, <1>5, <2>3, <2>4
<1>6. CASE Accepted(v, op) /\ op.kind = "delete"
  <2>1. e = Removed(v, op.path)
    BY <1>1, <1>6 DEF Effect
  <2>2. PICK at : at = op.path /\ at \in NotePath
    BY <1>2
  <2>3. /\ DOMAIN Removed(v, at) = DOMAIN v \ {at}
        /\ \A p \in DOMAIN v \ {at} : Removed(v, at)[p] = v[p]
    BY <2>2, RemovedIs
  <2>4. DOMAIN e = DOMAIN v \ {op.path} /\ \A p \in DOMAIN e : e[p] = v[p]
    BY <2>1, <2>2, <2>3
  <2> QED
    BY <1>1, <2>4
<1>7. CASE Accepted(v, op) /\ op.kind = "move"
  <2>1. e = Rename(v, op.path, op.to) /\ op.path \in DOMAIN v
    BY <1>1, <1>7 DEF Effect, Accepted
  <2>2. PICK w : w = Relocated(v, op.path, op.to)
    OBVIOUS
  <2>3. /\ DOMAIN w = (DOMAIN v \ {op.path}) \cup {op.to} /\ w[op.to] = v[op.path]
        /\ \A p \in DOMAIN w : p = op.to \/ (p \in DOMAIN v /\ w[p] = v[p])
    <3>1. WithMoved(w, v, op.path, op.to)
      BY <1>2, <2>2, RelocatedIs
    <3> QED
      BY <2>1, <3>1 DEF WithMoved
  <2>4. e = [p \in DOMAIN w \cup Parents(op.to) |-> IF p \in DOMAIN w THEN w[p] ELSE Folder]
    BY <2>1, <2>2 DEF Rename, WithParents
  <2> QED
    BY <1>1, <1>2, <1>3, <2>1, <2>3, <2>4
<1> QED
  BY <1>2, <1>4, <1>5, <1>6, <1>7 DEF Writes

-----------------------------------------------------------------------------
(***************************************************************************)
(* Types: what each variable is.  n stands for the number of edits made.   *)
(***************************************************************************)
FilesFit(f) == DOMAIN f \subseteq Places /\ \A p \in DOMAIN f : f[p] \in Int
CopyFits(c) ==
  DOMAIN c \subseteq NotePath /\ \A p \in DOMAIN c : c[p].text \in Int /\ c[p].hash \in Int \cup {Nothing}
LatestFits(n, l) == DOMAIN l \subseteq NotePath /\ \A p \in DOMAIN l : l[p] \in 1..n
QueueFits(n, q)  == q \in Seq(Op(n)) /\ Ordered(q)
Changes == {"drop", "mark", "dropping", "marking"}
Place(n) ==
  {x \in [at : {"off", "reading", "sending"} \cup Changes, todo : Seq(Op(n)), queue : Seq(Op(n))] :
     Ordered(x.queue) /\ (x.at \in Changes => x.todo # <<>>)}
Question(n) == {d \in [op : Op(n), hash : Int, queued : BOOLEAN] : d.op.kind \in Writes}

Types ==
  /\ made \in 0..MaxEdits /\ foreign \in Nat
  /\ FilesFit(files) /\ CopyFits(cache) /\ LatestFits(made, latest)
  /\ QueueFits(made, outbox) /\ task \in [Task -> Place(made)] /\ dialogs \subseteq Question(made)
  /\ edit.at \in {"none", "queueing"}
  /\ edit.at = "queueing" => edit.op \in Op(made) /\ QueueFits(made, edit.queue)
  /\ online \in BOOLEAN /\ probing \in BOOLEAN /\ phase \in {"idle", "syncing", "blocked"}

LEMMA SeqOfMore ==
  ASSUME NEW S, NEW T, S \subseteq T, NEW q \in Seq(S)
  PROVE  q \in Seq(T)
<1>1. q \in [1..Len(q) -> S] /\ Len(q) \in Nat
  BY LenProperties
<1>2. q \in [1..Len(q) -> T]
  BY <1>1
<1> QED
  BY <1>1, <1>2, SeqDef

LEMMA OpOfMore ==
  ASSUME NEW n \in Nat
  PROVE  Op(n) \subseteq Op(n + 1) /\ Seq(Op(n)) \subseteq Seq(Op(n + 1))
<1>1. ASSUME NEW op \in Op(n) PROVE op \in Op(n + 1)
  <2>1. 1..n \subseteq 1..(n + 1)
    OBVIOUS
  <2> QED
    BY <2>1 DEF Op
<1>2. Op(n) \subseteq Op(n + 1)
  BY <1>1
<1> QED
  BY <1>2, SeqOfMore

LEMMA PlaceOfMore ==
  ASSUME NEW n \in Nat
  PROVE  Place(n) \subseteq Place(n + 1) /\ Question(n) \subseteq Question(n + 1)
<1>1. Place(n) \subseteq Place(n + 1)
  BY OpOfMore DEF Place
<1>2. Question(n) \subseteq Question(n + 1)
  BY OpOfMore DEF Question
<1> QED
  BY <1>1, <1>2

LEMMA OffFits == ASSUME NEW n PROVE Off \in Place(n) /\ Off.at = "off"
<1>1. <<>> \in Seq(Op(n)) /\ Ordered(<<>>)
  BY EmptySeq DEF Ordered
<1> QED
  BY <1>1 DEF Off, Place, Changes

\* The three operations on functions from paths, where no note lies within another.
LEMMA CopyWritten ==
  ASSUME NEW c, CopyFits(c), NEW p \in NotePath, NEW text \in Int, NEW hash \in Int \cup {Nothing}
  PROVE  CopyFits(Written(c, p, [text |-> text, hash |-> hash]))
BY DEF CopyFits, Written

LEMMA CopyOfSome ==
  ASSUME NEW c, CopyFits(c), NEW g, DOMAIN g \subseteq NotePath,
         \A p \in DOMAIN g : \E q \in DOMAIN c : g[p] = c[q]
  PROVE  CopyFits(g)
BY DEF CopyFits

LEMMA LatestOfSome ==
  ASSUME NEW n, NEW l, LatestFits(n, l), NEW g, DOMAIN g \subseteq NotePath,
         \A p \in DOMAIN g : \E q \in DOMAIN l : g[p] = l[q]
  PROVE  LatestFits(n, g)
BY DEF LatestFits

LEMMA FewerNotes ==
  ASSUME NEW f, DOMAIN f \subseteq NotePath, NEW from \in NotePath, NEW to \in NotePath
  PROVE  /\ DOMAIN Removed(f, from) \subseteq NotePath
         /\ \A p \in DOMAIN Removed(f, from) : \E q \in DOMAIN f : Removed(f, from)[p] = f[q]
         /\ DOMAIN Relocated(f, from, to) \subseteq NotePath
         /\ \A p \in DOMAIN Relocated(f, from, to) :
              \E q \in DOMAIN f : Relocated(f, from, to)[p] = f[q]
<1>1. DOMAIN f \subseteq Places
  BY DEF Places
<1>2. PICK r, m : r = Removed(f, from) /\ m = Relocated(f, from, to)
  OBVIOUS
<1>3. DOMAIN r = DOMAIN f \ {from} /\ \A p \in DOMAIN r : r[p] = f[p]
  BY <1>1, <1>2, RemovedIs
<1>4. WithMoved(m, f, from, to)
  BY <1>1, <1>2, RelocatedIs
<1>5. DOMAIN m \subseteq NotePath /\ \A p \in DOMAIN m : \E q \in DOMAIN f : m[p] = f[q]
  <2>1. CASE from \in DOMAIN f
    BY <1>4, <2>1 DEF WithMoved
  <2>2. CASE from \notin DOMAIN f
    BY <1>4, <2>2 DEF WithMoved
  <2> QED
    BY <2>1, <2>2
<1> QED
  BY <1>2, <1>3, <1>5

-----------------------------------------------------------------------------
(***************************************************************************)
(* The parts of the actions.                                               *)
(***************************************************************************)
LEMMA OperationsAre ==
  ASSUME Types, NEW op \in Operations
  PROVE  /\ op \in Op(made + 1) /\ op.id = 0 /\ ~op.failed
         /\ op.kind \in Writes => op.text = made + 1
         /\ op.kind = "move" => op.path \in DOMAIN cache /\ op.to \in NotePath \ DOMAIN cache
<1>1. /\ made + 1 \in Nat /\ made + 1 \in 1..(made + 1) /\ DOMAIN cache \subseteq NotePath
      /\ \A p \in DOMAIN cache : cache[p].hash \in Int \cup {Nothing}
  BY DEF Types, CopyFits
<1>2. ASSUME NEW p \in DOMAIN cache, op = SaveNote(p, made + 1, cache[p].hash)
      PROVE  op \in Op(made + 1) /\ op.id = 0 /\ ~op.failed /\ op.kind = "save" /\ op.text = made + 1
  BY <1>1, <1>2 DEF SaveNote, Write, Op, Writes
<1>3. ASSUME NEW p \in NotePath, op = CreateNote(p, made + 1)
      PROVE  op \in Op(made + 1) /\ op.id = 0 /\ ~op.failed /\ op.kind = "create" /\ op.text = made + 1
  BY <1>1, <1>3 DEF CreateNote, Write, Op, Writes
<1>4. ASSUME NEW p \in DOMAIN cache, op = DeleteNote(p)
      PROVE  op \in Op(made + 1) /\ op.id = 0 /\ ~op.failed /\ op.kind = "delete"
  BY <1>1, <1>4 DEF DeleteNote, Write, Op, Writes
<1>5. ASSUME NEW p \in DOMAIN cache, NEW q \in NotePath \ DOMAIN cache, op = MoveNote(p, q)
      PROVE  /\ op \in Op(made + 1) /\ op.id = 0 /\ ~op.failed /\ op.kind = "move"
             /\ op.path = p /\ op.to = q
  BY <1>1, <1>5 DEF MoveNote, Write, Op, Writes
<1> QED
  BY <1>2, <1>3, <1>4, <1>5 DEF Operations, Writes

LEMMA HandledFits ==
  ASSUME FilesFit(files), NEW n, NEW op \in Op(n), Handled(op)
  PROVE  FilesFit(files')
<1>1. DOMAIN files' \subseteq Places
  BY EffectIs DEF FilesFit, Handled
<1>2. ASSUME NEW p \in DOMAIN files' PROVE files'[p] \in Int
  <2>1. \/ files'[p] = Folder \/ \E q \in DOMAIN files : files'[p] = files[q]
        \/ op.kind \in Writes /\ files'[p] = op.text
    BY EffectIs DEF FilesFit, Handled
  <2>2. op.kind \in Writes => op.text \in Int
    BY OpFields
  <2> QED
    BY <2>1, <2>2 DEF FilesFit, Folder
<1> QED
  BY <1>1, <1>2 DEF FilesFit

LEMMA SettledFits ==
  ASSUME CopyFits(cache), NEW n, NEW op \in Op(n), Settled(op)
  PROVE  CopyFits(cache')
<1>1. op.path \in NotePath /\ op.to \in NotePath /\ op.kind \in {"save", "create", "delete", "move"}
  BY OpFields
<1>2. CASE op.kind \in {"save", "create"}
  <2>1. op.text \in Int
    BY <1>2, OpFields DEF Writes
  <2>2. cache' = Written(cache, op.path, [text |-> op.text, hash |-> op.text])
    BY <1>2 DEF Settled
  <2> QED
    BY <1>1, <2>1, <2>2, CopyWritten
<1>3. CASE op.kind = "delete"
  <2>1. cache' = Removed(cache, op.path)
    BY <1>3 DEF Settled
  <2> QED
    BY <1>1, <2>1, FewerNotes, CopyOfSome DEF CopyFits
<1>4. CASE op.kind = "move"
  <2>1. cache' = Relocated(cache, op.path, op.to)
    BY <1>4 DEF Settled
  <2> QED
    BY <1>1, <2>1, FewerNotes, CopyOfSome DEF CopyFits
<1> QED
  BY <1>1, <1>2, <1>3, <1>4

LEMMA KeptFits ==
  ASSUME NEW n \in Nat, LatestFits(n, latest), NEW op \in Op(n + 1), Kept(op)
  PROVE  LatestFits(n + 1, latest')
<1>1. op.path \in NotePath /\ op.to \in NotePath /\ op.kind \in {"save", "create", "delete", "move"}
  BY OpFields
<1>2. LatestFits(n + 1, latest)
  BY DEF LatestFits
<1>3. CASE op.kind \in {"save", "create"}
  <2>1. op.text \in 1..(n + 1)
    BY <1>3, OpFields DEF Writes
  <2>2. latest' = Written(latest, op.path, op.text)
    BY <1>3 DEF Kept
  <2> QED
    BY <1>1, <1>2, <2>1, <2>2 DEF LatestFits, Written
<1>4. CASE op.kind = "delete"
  <2>1. latest' = Removed(latest, op.path)
    BY <1>4 DEF Kept
  <2> QED
    BY <1>1, <1>2, <2>1, FewerNotes, LatestOfSome DEF LatestFits
<1>5. CASE op.kind = "move"
  <2>1. latest' = Relocated(latest, op.path, op.to)
    BY <1>5 DEF Kept
  <2> QED
    BY <1>1, <1>2, <2>1, FewerNotes, LatestOfSome DEF LatestFits
<1> QED
  BY <1>1, <1>3, <1>4, <1>5

\* A question is of the server's text, which is there if it refused.
LEMMA RaisedFits ==
  ASSUME FilesFit(files), NEW n, dialogs \subseteq Question(n), NEW op \in Op(n), op.kind \in Writes,
         ~Accepted(files, op), NEW queued \in BOOLEAN
  PROVE  Raised(op, queued) \subseteq Question(n)
<1>1. op.path \in DOMAIN files
  BY DEF Accepted, Writes
<1>2. files[op.path] \in Int
  BY <1>1 DEF FilesFit
<1> QED
  BY <1>2 DEF Raised, Question

-----------------------------------------------------------------------------
(***************************************************************************)
(* Changes of the queue and of a task's place.                             *)
(***************************************************************************)
Numbered(op, id) == [op EXCEPT !.id = id]
Whole(q, op)     == Append(q, Numbered(op, NextId(q)))
LEMMA WholeIs ==
  ASSUME NEW n, NEW q, QueueFits(n, q), NEW op \in Op(n)
  PROVE  /\ QueueFits(n, Whole(q, op)) /\ Enqueued(q, op) = Coalesce(Whole(q, op))
         /\ ToSet(Whole(q, op)) = ToSet(q) \cup {Numbered(op, NextId(q))}
         /\ Numbered(op, NextId(q)) \in Op(n) /\ NextId(q) \in Nat
         /\ \A a \in ToSet(q) : a.id < NextId(q)
<1>1. \A x \in Op(n) : x.id \in Nat
  BY OpFields
<1>2. NextId(q) \in Nat /\ \A a \in ToSet(q) : a.id < NextId(q)
  BY <1>1, NextIdIsAbove DEF QueueFits
<1>3. Numbered(op, NextId(q)) \in Op(n) /\ Numbered(op, NextId(q)).id = NextId(q)
  BY <1>2 DEF Numbered, Op
<1>4. Enqueued(q, op) = Coalesce(Whole(q, op))
  BY DEF Enqueued, Whole, Numbered
<1> QED
  BY <1>1, <1>2, <1>3, <1>4, AppendOrdered DEF QueueFits, Whole

LEMMA EnqueuedFits ==
  ASSUME NEW n, NEW q, QueueFits(n, q), NEW op \in Op(n)
  PROVE  QueueFits(n, Enqueued(q, op))
BY WholeIs, CoalesceIs DEF QueueFits

LEMMA DroppedIs ==
  ASSUME NEW n, NEW q, QueueFits(n, q), NEW id
  PROVE  /\ QueueFits(n, Dropped(q, id))
         /\ ToSet(Dropped(q, id)) = ToSet(q) \ {a \in ToSet(q) : a.id = id}
<1>1. \A x \in Op(n) : x.id \in Nat
  BY OpFields
<1> QED
  BY <1>1, LeavingOutIs DEF QueueFits, Dropped

Failed(op) == [op EXCEPT !.failed = TRUE]
LEMMA FailedIs ==
  ASSUME NEW n, NEW op \in Op(n)
  PROVE  /\ Failed(op) \in Op(n) /\ Failed(op).failed /\ Failed(op).id = op.id
         /\ Failed(op).kind = op.kind /\ Failed(op).path = op.path /\ Failed(op).to = op.to
         /\ Failed(op).text = op.text
BY DEF Failed, Op

\* The operations of Q, those with the id marked.
Marks(Q, id) == {IF a.id = id THEN Failed(a) ELSE a : a \in Q}
LEMMA MarkedIs ==
  ASSUME NEW n, NEW q, QueueFits(n, q), NEW id
  PROVE  /\ QueueFits(n, Marked(q, id))
         /\ ToSet(Marked(q, id)) = Marks(ToSet(q), id)
<1>1. PICK r : r = Marked(q, id)
  OBVIOUS
<1>2. DOMAIN q = 1..Len(q) /\ Len(q) \in Nat /\ \A i \in 1..Len(q) : q[i] \in Op(n)
  BY ToSetOf DEF QueueFits
<1>3. r = [i \in 1..Len(q) |-> IF q[i].id = id THEN Failed(q[i]) ELSE q[i]]
  BY <1>1, <1>2 DEF Marked, Failed
<1>4. \A i \in 1..Len(q) : r[i] \in Op(n) /\ r[i].id = q[i].id
  BY <1>2, <1>3, FailedIs
<1>5. r \in Seq(Op(n)) /\ DOMAIN r = 1..Len(q)
  <2>1. r \in [1..Len(q) -> Op(n)]
    BY <1>3, <1>4
  <2> QED
    BY <1>2, <2>1, SeqDef
<1>6. Ordered(r)
  BY <1>2, <1>4, <1>5 DEF QueueFits, Ordered
<1>7. ToSet(r) = {r[i] : i \in 1..Len(q)} /\ ToSet(q) = {q[i] : i \in 1..Len(q)}
  BY <1>2, <1>5 DEF ToSet
<1>8. ToSet(r) = Marks(ToSet(q), id)
  BY <1>3, <1>7 DEF Marks
<1> QED
  BY <1>1, <1>5, <1>6, <1>8 DEF QueueFits

LEMMA AtFits ==
  ASSUME NEW n, task \in [Task -> Place(n)], NEW t \in Task,
         NEW at \in {"off", "reading", "sending"} \cup Changes,
         at \in Changes => task[t].todo # <<>>, At(t, at)
  PROVE  task' \in [Task -> Place(n)]
<1>1. task[t] \in Place(n)
  OBVIOUS
<1>2. [task[t] EXCEPT !.at = at] \in Place(n)
  BY <1>1 DEF Place
<1> QED
  BY <1>2 DEF At

LEMMA EndedFits ==
  ASSUME NEW n, task \in [Task -> Place(n)], NEW t \in Task, Ended(t)
  PROVE  task' \in [Task -> Place(n)]
BY OffFits DEF Ended

LEMMA OnwardFits ==
  ASSUME NEW n, task \in [Task -> Place(n)], NEW t \in Task, task[t].todo # <<>>, Onward(t)
  PROVE  task' \in [Task -> Place(n)]
<1>1. task[t] \in Place(n)
  OBVIOUS
<1>2. Tail(task[t].todo) \in Seq(Op(n))
  BY <1>1, HeadTailProperties DEF Place
<1>3. [task[t] EXCEPT !.at = "sending", !.todo = Tail(task[t].todo)] \in Place(n)
  BY <1>1, <1>2 DEF Place, Changes
<1> QED
  BY <1>3 DEF Onward

LEMMA HeadFits ==
  ASSUME NEW n, task \in [Task -> Place(n)], NEW t \in Task, task[t].todo # <<>>
  PROVE  Head(task[t].todo) \in Op(n)
<1>1. task[t] \in Place(n)
  OBVIOUS
<1> QED
  BY <1>1, HeadTailProperties DEF Place

\* A task that has one operation to drop.
Dropping(op) == [Off EXCEPT !.at = "drop", !.todo = <<op>>]
LEMMA DroppingFits ==
  ASSUME NEW n, NEW op \in Op(n)
  PROVE  /\ Dropping(op) \in Place(n) /\ Dropping(op).at = "drop" /\ Dropping(op).todo = <<op>>
         /\ Dropping(op).queue = <<>>
<1>1. Off \in Place(n) /\ <<op>> \in Seq(Op(n)) /\ <<op>> # <<>>
  BY OffFits
<1> QED
  BY <1>1 DEF Dropping, Place, Changes, Off

LEMMA SettlesFits ==
  ASSUME NEW n, task \in [Task -> Place(n)], dialogs \subseteq Question(n), NEW d \in dialogs,
         phase \in {"idle", "syncing", "blocked"}, Settles(d)
  PROVE  task' \in [Task -> Place(n)] /\ phase' \in {"idle", "syncing", "blocked"}
<1>1. d.op \in Op(n) /\ Dialog \in Task
  BY DEF Question, Task
<1>2. Dropping(d.op) \in Place(n)
  BY <1>1, DroppingFits
<1> QED
  BY <1>1, <1>2 DEF Settles, Dropping

-----------------------------------------------------------------------------
(***************************************************************************)
(* Every step keeps the types.                                             *)
(***************************************************************************)
LEMMA InitTypes == Init => Types
<1> SUFFICES ASSUME Init PROVE Types
  OBVIOUS
<1>1. made \in 0..MaxEdits /\ foreign \in Nat
  BY SyncAssumption DEF Init
<1>2. FilesFit(files) /\ CopyFits(cache)
  BY SyncAssumption DEF Init, FilesFit, CopyFits, Places
<1>3. LatestFits(made, latest)
  <2>1. DOMAIN <<>> = {}
    OBVIOUS
  <2> QED
    BY <2>1 DEF Init, LatestFits
<1>4. QueueFits(made, outbox)
  BY EmptySeq DEF Init, QueueFits, Ordered
<1>5. task \in [Task -> Place(made)]
  BY OffFits DEF Init
<1>6. dialogs \subseteq Question(made) /\ edit.at = "none"
  BY DEF Init, NoEdit
<1> QED
  BY <1>1, <1>2, <1>3, <1>4, <1>5, <1>6 DEF Init, Types

\* Another edit is made.
LEMMA MadeMore ==
  ASSUME Types, Edits
  PROVE  /\ edit.at = "none" /\ made \in Nat /\ made' = made + 1 /\ made' \in 0..MaxEdits
         /\ QueueFits(made', outbox) /\ task \in [Task -> Place(made')]
         /\ dialogs \subseteq Question(made')
<1>1. edit.at = "none" /\ made \in Nat /\ made' = made + 1 /\ made' \in 0..MaxEdits
  BY SyncAssumption DEF Types, Edits
<1>2. Op(made) \subseteq Op(made') /\ Seq(Op(made)) \subseteq Seq(Op(made'))
      /\ Place(made) \subseteq Place(made') /\ Question(made) \subseteq Question(made')
  BY <1>1, OpOfMore, PlaceOfMore
<1> QED
  BY <1>1, <1>2 DEF Types, QueueFits

LEMMA EditLiveTypes ==
  ASSUME Types, NEW op \in Operations, EditLive(op)
  PROVE  Types'
<1>1. /\ op \in Op(made') /\ made \in Nat /\ made' = made + 1 /\ made' \in 0..MaxEdits
      /\ edit' = edit /\ edit.at = "none"
      /\ QueueFits(made', outbox) /\ task \in [Task -> Place(made')] /\ dialogs \subseteq Question(made')
  BY OperationsAre, MadeMore DEF EditLive, Edits
<1>2. FilesFit(files')
  BY <1>1, HandledFits DEF Types, EditLive
<1>3. CASE Accepted(files, op)
  <2>1. CopyFits(cache')
    BY <1>1, <1>3, SettledFits DEF Types, EditLive
  <2>2. LatestFits(made', latest')
    BY <1>1, <1>3, KeptFits DEF Types, EditLive
  <2> QED
    BY <1>1, <1>2, <1>3, <2>1, <2>2 DEF Types, EditLive
<1>4. CASE ~Accepted(files, op)
  <2>1. dialogs' \subseteq Question(made')
    <3>1. CASE op.kind = "save"
      BY <1>1, <1>4, <3>1, RaisedFits DEF EditLive, Types, Writes
    <3>2. CASE op.kind # "save"
      BY <1>1, <1>4, <3>2 DEF EditLive
    <3> QED
      BY <3>1, <3>2
  <2>2. LatestFits(made', latest)
    BY <1>1 DEF Types, LatestFits
  <2> QED
    BY <1>1, <1>2, <1>4, <2>1, <2>2 DEF Types, EditLive
<1> QED
  BY <1>3, <1>4

LEMMA EditQueuedTypes ==
  ASSUME Types, NEW op \in Operations, EditQueued(op)
  PROVE  Types'
<1>1. /\ op \in Op(made') /\ made \in Nat /\ made' = made + 1 /\ made' \in 0..MaxEdits
      /\ QueueFits(made', outbox) /\ task \in [Task -> Place(made')] /\ dialogs \subseteq Question(made')
  BY OperationsAre, MadeMore DEF EditQueued, Edits
<1>2. FilesFit(files')
  BY <1>1, HandledFits DEF Types, EditQueued, NotHandled
<1>3. LatestFits(made', latest')
  BY <1>1, KeptFits DEF Types, EditQueued
<1>4. CopyFits(cache')
  <2>1. /\ op.path \in NotePath /\ op.to \in NotePath /\ op.kind \in {"save", "create", "delete", "move"}
        /\ op.kind \in Writes => op.text \in Int
        /\ op.base \in Int \cup {Nothing}
    BY <1>1, OpFields DEF Op
  <2>2. CASE op.kind = "save"
    <3>1. cache' = Written(cache, op.path, [text |-> op.text, hash |-> op.base])
      BY <2>2 DEF EditQueued
    <3> QED
      BY <2>1, <2>2, <3>1, CopyWritten DEF Types, Writes
  <2>3. CASE op.kind = "create"
    <3>1. cache' = Written(cache, op.path, [text |-> op.text, hash |-> Nothing])
      BY <2>3 DEF EditQueued
    <3> QED
      BY <2>1, <2>3, <3>1, CopyWritten DEF Types, Writes
  <2>4. CASE op.kind = "delete"
    <3>1. cache' = Removed(cache, op.path)
      BY <2>4 DEF EditQueued
    <3> QED
      BY <2>1, <3>1, FewerNotes, CopyOfSome DEF CopyFits, Types
  <2>5. CASE op.kind = "move"
    <3>1. cache' = Relocated(cache, op.path, op.to)
      BY <2>5 DEF EditQueued
    <3> QED
      BY <2>1, <3>1, FewerNotes, CopyOfSome DEF CopyFits, Types
  <2> QED
    BY <2>1, <2>2, <2>3, <2>4, <2>5
<1>5. /\ edit'.at = "queueing" /\ edit'.op \in Op(made') /\ QueueFits(made', edit'.queue)
      /\ outbox' = outbox /\ task' = task /\ dialogs' = dialogs
      /\ online' = FALSE /\ probing' = TRUE /\ phase' = phase /\ foreign' = foreign
  BY <1>1 DEF EditQueued, Unreachable
<1> QED
  BY <1>1, <1>2, <1>3, <1>4, <1>5 DEF Types

LEMMA AloneTypes ==
  ASSUME Types, Enqueue \/ Prune \/ Probe \/ WentOffline \/ Reload
  PROVE  Types'
<1>1. CASE Enqueue
  <2>1. QueueFits(made, outbox')
    BY <1>1, EnqueuedFits DEF Types, Enqueue
  <2> QED
    BY <1>1, <2>1 DEF Types, Enqueue, NoEdit, counts, ghosts
<1>2. CASE Prune
  <2>1. CopyFits(cache')
    BY <1>2 DEF Prune, Types, CopyFits, Restrict
  <2> QED
    BY <1>2, <2>1 DEF Types, Prune, counts, ghosts
<1>3. CASE Probe
  BY <1>3 DEF Types, Probe, counts, ghosts
<1>4. CASE WentOffline
  BY <1>4 DEF Types, WentOffline, Unreachable, ghosts
<1>5. CASE Reload
  <2>1. task' \in [Task -> Place(made)]
    BY <1>5, OffFits DEF Reload
  <2> QED
    BY <1>5, <2>1 DEF Types, Reload, NoEdit, Unreachable, ghosts
<1> QED
  BY <1>1, <1>2, <1>3, <1>4, <1>5

LEMMA NotesTypes ==
  ASSUME Types, NEW p \in NotePath, Open(p) \/ Elsewhere(p)
  PROVE  Types'
<1>1. CASE Open(p)
  <2>1. files[p] \in Int
    BY <1>1 DEF Open, Types, FilesFit
  <2>2. CopyFits(cache')
    BY <1>1, <2>1, CopyWritten DEF Open, Types
  <2> QED
    BY <1>1, <2>2 DEF Types, Open, counts, ghosts
<1>2. CASE Elsewhere(p)
  <2>1. foreign' \in Nat /\ MaxEdits + foreign + 1 \in Int /\ p \in Places
    BY <1>2, SyncAssumption DEF Types, Elsewhere, Places
  <2>2. FilesFit(files')
    BY <1>2, <2>1 DEF Elsewhere, Types, FilesFit, Written
  <2> QED
    BY <1>2, <2>1, <2>2 DEF Types, Elsewhere, ghosts
<1> QED
  BY <1>1, <1>2

LEMMA RunTypes ==
  ASSUME Types, NEW t \in Runs, Run(t) \/ Unanswered(t) \/ SignInNeeded(t)
  PROVE  Types'
<1>1. t \in Task /\ task \in [Task -> Place(made)]
  BY DEF Task, Types
<1>2. CASE Start(t)
  <2>1. task' \in [Task -> Place(made)]
    BY <1>1, <1>2, AtFits DEF Start, Changes
  <2> QED
    BY <1>2, <2>1 DEF Types, Start, counts, ghosts
<1>3. CASE ReadQueue(t)
  <2>1. task' \in [Task -> Place(made)]
    <3>1. CASE outbox = <<>>
      BY <1>1, <1>3, <3>1, EndedFits DEF ReadQueue
    <3>2. CASE outbox # <<>>
      <4>1. task[t] \in Place(made) /\ outbox \in Seq(Op(made))
        BY <1>1 DEF Types, QueueFits
      <4>2. [task[t] EXCEPT !.at = "sending", !.todo = outbox] \in Place(made)
        BY <4>1 DEF Place, Changes
      <4>3. task' = [task EXCEPT ![t] = [task[t] EXCEPT !.at = "sending", !.todo = outbox]]
        BY <1>1, <1>3, <3>2, <4>1 DEF ReadQueue, Place
      <4> QED
        BY <1>1, <4>2, <4>3
    <3> QED
      BY <3>1, <3>2
  <2> QED
    BY <1>3, <2>1 DEF Types, ReadQueue, counts, ghosts
<1>4. CASE Skip(t)
  <2>1. task' \in [Task -> Place(made)]
    BY <1>1, <1>4, OnwardFits DEF Skip, Sending
  <2> QED
    BY <1>4, <2>1 DEF Types, Skip, counts, ghosts
<1>5. CASE Answered(t)
  <2>1. PICK op \in Op(made) : op = Head(task[t].todo)
    BY <1>1, <1>5, HeadFits DEF Answered, Sending
  <2>2. FilesFit(files')
    BY <1>5, <2>1, HandledFits DEF Answered, Types
  <2>3. CASE ~Refused(op) /\ Settled(op) /\ At(t, "drop") /\ UNCHANGED <<dialogs, phase>>
    <3>1. CopyFits(cache')
      BY <2>1, <2>3, SettledFits DEF Types
    <3>2. task' \in [Task -> Place(made)]
      BY <1>1, <1>5, <2>3, AtFits DEF Answered, Sending, Changes
    <3> QED
      BY <1>5, <2>2, <2>3, <3>1, <3>2 DEF Types, Answered, counts
  <2>4. CASE /\ Refused(op) /\ op.kind \in {"save", "create"}
             /\ dialogs' = Raised(op, TRUE) /\ phase' = "blocked" /\ Ended(t) /\ UNCHANGED cache
    <3>1. dialogs' \subseteq Question(made)
      BY <2>1, <2>4, RaisedFits DEF Types, Refused, Writes
    <3>2. task' \in [Task -> Place(made)]
      BY <1>1, <2>4, EndedFits
    <3> QED
      BY <1>5, <2>2, <2>4, <3>1, <3>2 DEF Types, Answered, counts
  <2>5. CASE At(t, "mark") /\ UNCHANGED <<dialogs, phase, cache>>
    <3>1. task' \in [Task -> Place(made)]
      BY <1>1, <1>5, <2>5, AtFits DEF Answered, Sending, Changes
    <3> QED
      BY <1>5, <2>2, <2>5, <3>1 DEF Types, Answered, counts
  <2> QED
    BY <1>5, <2>1, <2>3, <2>4, <2>5 DEF Answered
<1>6. CASE Finish(t)
  <2>1. task' \in [Task -> Place(made)]
    BY <1>1, <1>6, EndedFits DEF Finish
  <2> QED
    BY <1>6, <2>1 DEF Types, Finish, counts, ghosts
<1>7. CASE Unanswered(t)
  <2>1. Head(task[t].todo) \in Op(made) /\ task' \in [Task -> Place(made)]
    BY <1>1, <1>7, HeadFits, EndedFits DEF Unanswered, Sending
  <2>2. FilesFit(files')
    BY <1>7, <2>1, HandledFits DEF Unanswered, NotHandled, Types
  <2> QED
    BY <1>7, <2>1, <2>2 DEF Types, Unanswered, Unreachable
<1>8. CASE SignInNeeded(t)
  <2>1. task' \in [Task -> Place(made)]
    BY <1>1, <1>8, EndedFits DEF SignInNeeded
  <2> QED
    BY <1>8, <2>1 DEF Types, SignInNeeded, ghosts
<1> QED
  BY <1>2, <1>3, <1>4, <1>5, <1>6, <1>7, <1>8 DEF Run

LEMMA ChangeTypes ==
  ASSUME Types, NEW t \in Task, Change(t)
  PROVE  Types'
<1>1. task \in [Task -> Place(made)] /\ task[t] \in Place(made)
  BY DEF Types
<1>2. CASE ReadToChange(t)
  <2>1. PICK at : at = IF task[t].at = "drop" THEN "dropping" ELSE "marking"
    OBVIOUS
  <2>2. [task[t] EXCEPT !.at = at, !.queue = outbox] \in Place(made)
    BY <1>1, <1>2, <2>1 DEF Place, Changes, ReadToChange, Types, QueueFits
  <2>3. task' = [task EXCEPT ![t] = [task[t] EXCEPT !.at = at, !.queue = outbox]]
    BY <1>1, <1>2, <2>1 DEF ReadToChange, Place
  <2>4. task' \in [Task -> Place(made)]
    BY <1>1, <2>2, <2>3
  <2> QED
    BY <1>2, <2>4 DEF Types, ReadToChange, counts, ghosts
<1>3. CASE WriteBack(t)
  <2>1. task[t].at \in Changes /\ task[t].todo # <<>> /\ QueueFits(made, task[t].queue)
    BY <1>1, <1>3 DEF WriteBack, Place, Changes, QueueFits
  <2>2. QueueFits(made, outbox')
    BY <1>3, <2>1, DroppedIs, MarkedIs DEF WriteBack
  <2>3. task' \in [Task -> Place(made)]
    BY <1>1, <1>3, <2>1, OnwardFits, EndedFits DEF WriteBack
  <2> QED
    BY <1>3, <2>2, <2>3 DEF Types, WriteBack, counts, ghosts
<1> QED
  BY <1>2, <1>3 DEF Change

LEMMA AnswerTypes ==
  ASSUME Types, NEW d \in dialogs, KeepMine(d) \/ TakeTheirs(d) \/ KeepBoth(d)
  PROVE  Types'
<1>1. /\ task \in [Task -> Place(made)] /\ dialogs \subseteq Question(made)
      /\ phase \in {"idle", "syncing", "blocked"}
      /\ d.op \in Op(made) /\ d.op.kind \in Writes /\ d.hash \in Int /\ d.op.path \in NotePath
      /\ d.op.text \in 1..made
  <2>1. d.op \in Op(made) /\ d.op.kind \in Writes /\ d.hash \in Int
    BY DEF Types, Question
  <2> QED
    BY <2>1, OpFields DEF Types
<1>2. CASE KeepMine(d)
  <2>1. PICK text \in {d.op.text} \cup
                 (IF Overlap /\ d.op.path \in DOMAIN latest THEN {latest[d.op.path]} ELSE {}) :
       LET op == SaveNote(d.op.path, text, d.hash)
       IN  \/ /\ Handled(op) /\ UNCHANGED <<online, probing, faults>>
              /\ IF Accepted(files, op)
                 THEN /\ Settled(op) /\ Settles(d)
                      /\ latest' = IF d.queued THEN latest ELSE Written(latest, op.path, text)
                 ELSE UNCHANGED <<cache, phase, task, latest>>
           \/ /\ Unreachable /\ UNCHANGED <<cache, phase, task>>
              /\ \/ NotHandled /\ UNCHANGED latest
                 \/ /\ Handled(op)
                    /\ latest' = IF d.queued \/ ~Accepted(files, op) THEN latest
                                 ELSE Written(latest, op.path, text)
    BY <1>2 DEF KeepMine
  <2>2. text \in 1..made
    BY <1>1 DEF Types, LatestFits
  <2>3. PICK op : op = SaveNote(d.op.path, text, d.hash)
    OBVIOUS
  <2>4. op \in Op(made) /\ op.path = d.op.path
    BY <1>1, <2>2, <2>3 DEF SaveNote, Write, Op, Writes, Types
  <2>5. FilesFit(files')
    BY <2>1, <2>3, <2>4, HandledFits DEF NotHandled, Types
  <2>6. dialogs' \subseteq Question(made) /\ UNCHANGED <<outbox, edit, made, foreign>>
    BY <1>1, <1>2 DEF KeepMine, AskedAbout
  <2>7. CASE /\ Handled(op) /\ UNCHANGED <<online, probing, faults>>
             /\ Settled(op) /\ Settles(d)
             /\ latest' = IF d.queued THEN latest ELSE Written(latest, op.path, text)
    <3>1. CopyFits(cache')
      BY <2>4, <2>7, SettledFits DEF Types
    <3>2. task' \in [Task -> Place(made)] /\ phase' \in {"idle", "syncing", "blocked"}
      BY <1>1, <2>7, SettlesFits
    <3>3. LatestFits(made, latest')
      BY <1>1, <2>2, <2>4, <2>7 DEF Types, LatestFits, Written
    <3> QED
      BY <2>5, <2>6, <2>7, <3>1, <3>2, <3>3 DEF Types
  <2>8. CASE /\ UNCHANGED <<cache, phase, task>> /\ (UNCHANGED <<online, probing>> \/ Unreachable)
             /\ UNCHANGED latest \/ latest' = Written(latest, op.path, text)
    <3>1. LatestFits(made, latest')
      BY <1>1, <2>2, <2>4, <2>8 DEF Types, LatestFits, Written
    <3> QED
      BY <2>5, <2>6, <2>8, <3>1 DEF Types, Unreachable
  <2> QED
    BY <2>1, <2>3, <2>7, <2>8
<1>3. ASSUME Theirs(d) PROVE /\ CopyFits(cache') /\ task' \in [Task -> Place(made)]
                             /\ phase' \in {"idle", "syncing", "blocked"}
  <2>1. CopyFits(cache')
    BY <1>1, <1>3, CopyWritten DEF Theirs, Types
  <2> QED
    BY <1>1, <1>3, <2>1, SettlesFits DEF Theirs
<1>4. \A gone : LatestFits(made, GivenUp(latest, d, gone))
  BY DEF Types, LatestFits, GivenUp, Restrict
<1>5. CASE TakeTheirs(d)
  <2>1. LatestFits(made, latest') /\ dialogs' \subseteq Question(made)
    BY <1>1, <1>4, <1>5 DEF TakeTheirs, AskedAbout
  <2>2. CopyFits(cache') /\ task' \in [Task -> Place(made)] /\ phase' \in {"idle", "syncing", "blocked"}
    BY <1>3, <1>5 DEF TakeTheirs
  <2> QED
    BY <1>5, <2>1, <2>2 DEF Types, TakeTheirs, counts
<1>6. CASE KeepBoth(d)
  <2>1. dialogs' \subseteq Question(made) /\ UNCHANGED <<files, outbox, edit, made, foreign>>
    BY <1>1, <1>6 DEF KeepBoth, AskedAbout
  <2>2. CASE Theirs(d) /\ latest' = GivenUp(latest, d, {}) /\ UNCHANGED <<online, probing, faults>>
    <3>1. LatestFits(made, latest')
      BY <1>4, <2>2
    <3> QED
      BY <1>3, <2>1, <2>2, <3>1 DEF Types
  <2>3. CASE Fault /\ Unreachable /\ UNCHANGED <<cache, phase, task, latest>>
    BY <2>1, <2>3 DEF Types, Unreachable
  <2> QED
    BY <1>6, <2>2, <2>3 DEF KeepBoth
<1> QED
  BY <1>2, <1>5, <1>6

LEMMA DiscardTypes ==
  ASSUME Types, NEW n \in DOMAIN outbox, Discard(n)
  PROVE  Types'
<1>1. outbox[n] \in Op(made) /\ Popover \in Task /\ task \in [Task -> Place(made)]
  <2>1. n \in 1..Len(outbox)
    BY ToSetOf DEF Types, QueueFits
  <2> QED
    BY <2>1, ElementOfSeq DEF Types, QueueFits, Task
<1>2. task' \in [Task -> Place(made)]
  BY <1>1, DroppingFits DEF Discard, Dropping
<1>3. LatestFits(made, latest')
  <2>1. outbox[n].to \in NotePath
    BY <1>1, OpFields
  <2> QED
    BY <2>1, FewerNotes, LatestOfSome DEF Types, LatestFits, Discard
<1> QED
  BY <1>2, <1>3 DEF Types, Discard, counts

LEMMA StepTypes == Types /\ [Next]_vars => Types'
<1> SUFFICES ASSUME Types, [Next]_vars PROVE Types'
  OBVIOUS
<1>1. CASE UNCHANGED vars
  BY <1>1 DEF vars, Types
<1>2. CASE Next
  BY <1>2, EditLiveTypes, EditQueuedTypes, AloneTypes, NotesTypes, RunTypes, ChangeTypes, AnswerTypes,
     DiscardTypes DEF Next
<1> QED
  BY <1>1, <1>2

\* Neither what has gone astray nor what was written elsewhere is taken back.
LEMMA StepAstray ==
  Types /\ astray \in BOOLEAN /\ [Next]_vars =>
    /\ astray' \in BOOLEAN /\ (astray => astray') /\ (foreign # 0 => foreign' # 0)
<1> SUFFICES ASSUME Types, astray \in BOOLEAN, [Next]_vars
             PROVE  /\ astray' \in BOOLEAN /\ (astray => astray')
                    /\ (foreign # 0 => foreign' # 0)
  OBVIOUS
<1> DEFINE Onwards == /\ astray' \in BOOLEAN /\ (astray => astray')
                      /\ (foreign' = foreign \/ foreign' = foreign + 1)
<1>1. ASSUME NEW op, EditLive(op) \/ EditQueued(op) PROVE Onwards
  BY <1>1 DEF EditLive, EditQueued
<1>2. ASSUME Enqueue \/ Prune \/ Probe \/ WentOffline \/ Reload PROVE Onwards
  BY <1>2 DEF Enqueue, Prune, Probe, WentOffline, Reload, counts, ghosts
<1>3. ASSUME NEW p, Open(p) \/ Elsewhere(p) PROVE Onwards
  BY <1>3 DEF Open, Elsewhere, counts, ghosts
<1>4. ASSUME NEW t, Run(t) PROVE Onwards
  <2>1. CASE Start(t)
    BY <2>1 DEF Start, counts
  <2>2. CASE ReadQueue(t) \/ Skip(t) \/ Finish(t)
    BY <2>2 DEF ReadQueue, Skip, Finish, counts, ghosts
  <2>3. CASE Answered(t)
    <3>1. UNCHANGED astray \/ astray' = TRUE
      BY <2>3, Zenon DEF Answered
    <3>2. foreign' = foreign
      BY <2>3 DEF Answered, counts
    <3> QED
      BY <3>1, <3>2
  <2> QED
    BY <1>4, <2>1, <2>2, <2>3 DEF Run
<1>5. ASSUME NEW t, Unanswered(t) \/ SignInNeeded(t) PROVE Onwards
  BY <1>5 DEF Unanswered, SignInNeeded, ghosts
<1>6. ASSUME NEW t, Change(t) PROVE Onwards
  BY <1>6 DEF Change, ReadToChange, WriteBack, counts, ghosts
<1>7. ASSUME NEW d, KeepMine(d) \/ TakeTheirs(d) \/ KeepBoth(d) PROVE Onwards
  BY <1>7 DEF KeepMine, TakeTheirs, KeepBoth, counts
<1>8. ASSUME NEW n, Discard(n) PROVE Onwards
  BY <1>8 DEF Discard, counts
<1>9. ASSUME UNCHANGED vars PROVE Onwards
  BY <1>9 DEF vars
<1>10. foreign \in Nat
  BY DEF Types
<1>11. Onwards
  <2> HIDE DEF Onwards
  <2> QED
    BY <1>1, <1>2, <1>3, <1>4, <1>5, <1>6, <1>7, <1>8, <1>9 DEF Next
<1> QED
  BY <1>10, <1>11

LEMMA TypesAlways == Spec => []Types
<1>1. Init /\ [][Next]_vars => []Types
  BY InitTypes, StepTypes, PTL
<1> QED
  BY <1>1 DEF Spec

\* In every behaviour, overlapping replays and questions included, the notes are at the
\* paths of notes, and no two changes of the stored queue have the same id, so that
\* drop_op and mark_failed change the one they are meant to (cache.rs:206-247).
THEOREM TypeCorrect == Spec => []TypeOK
<1>1. Types /\ astray \in BOOLEAN => TypeOK
  <2> SUFFICES ASSUME Types, astray \in BOOLEAN PROVE TypeOK
    OBVIOUS
  <2>1. \A i, j \in DOMAIN outbox : i # j => outbox[i].id # outbox[j].id
    <3> SUFFICES ASSUME NEW i \in DOMAIN outbox, NEW j \in DOMAIN outbox, i # j
                 PROVE  outbox[i].id # outbox[j].id
      OBVIOUS
    <3>1. i \in Nat /\ j \in Nat /\ outbox[i] \in Op(made) /\ outbox[j] \in Op(made)
      <4>1. i \in 1..Len(outbox) /\ j \in 1..Len(outbox)
        BY ToSetOf DEF Types, QueueFits
      <4> QED
        BY <4>1, ElementOfSeq DEF Types, QueueFits
    <3>2. outbox[i].id \in Nat /\ outbox[j].id \in Nat
      BY <3>1, OpFields
    <3>3. i < j \/ j < i
      BY <3>1
    <3> QED
      BY <3>2, <3>3 DEF Types, QueueFits, Ordered
  <2>2. \A t \in Task : task[t].at \in {"off", "reading", "sending", "drop", "dropping", "mark", "marking"}
    BY DEF Types, Place, Changes
  <2> QED
    BY <2>1, <2>2 DEF Types, TypeOK, FilesFit, CopyFits, LatestFits
<1> DEFINE Flag == astray \in BOOLEAN
<1>2. Init => Flag
  BY DEF Init
<1>3. Types /\ Flag /\ [Next]_vars => Flag'
  BY StepAstray
<1>4. Types /\ Flag => TypeOK
  BY <1>1
<1> HIDE DEF Flag
<1> QED
  BY <1>2, <1>3, <1>4, TypesAlways, PTL DEF Spec

-----------------------------------------------------------------------------
(***************************************************************************)
(* The texts the person stands by and the server has not held are queued:  *)
(* in the stored queue, in each copy of it a task is about to write back,  *)
(* and among what each replay has yet to send.                             *)
(***************************************************************************)
WantedOf(l, r) == {<<p, l[p]>> : p \in {q \in DOMAIN l : l[q] \notin r}}
Wanted == WantedOf(latest, reached)

\* What the stored queue is, or will be when a task's change of it is written back.
Changing(t) == task[t].at \in {"dropping", "marking"}
Stores ==
  IF edit.at = "queueing" THEN {ToSet(Whole(outbox, edit.op))}
  ELSE {ToSet(outbox)} \cup {ToSet(task[t].queue) : t \in {s \in Task : Changing(s)}}
\* The operations a replay or a question may act on.
Stored == UNION Stores
ToDo   == UNION {ToSet(task[t].todo) : t \in Task}
Asked  == {d.op : d \in {e \in dialogs : e.queued}}
Pool   == Stored \cup ToDo \cup Asked

AllSound == \A Q \in Stores : Sound(Wanted, Q)
Agree ==
  /\ OnlyMovesFail(Pool) /\ OfOne(Wanted, Pool)
  /\ \A a, b \in Pool : a.id = b.id => a.kind = b.kind /\ a.text = b.text

\* A replay has yet to send what is wanted, in the order of the ids.
Left(x) == IF x.at = "sending" THEN x.todo ELSE Tail(x.todo)
RunFits(x, W, Ss) ==
  x.at \in {"sending"} \cup Changes =>
    /\ Ordered(x.todo)
    /\ \A Q \in Ss : \A a \in Q : a.text \in Texts(W) => \E b \in ToSet(Left(x)) : b.id = a.id
\* What a task drops is not wanted, and what is wanted does not depend on it.
ChangeFits(x, W, Ss) ==
  x.at \in Changes =>
    /\ Head(x.todo).text \notin Texts(W)
    /\ x.at \in {"mark", "marking"} => Head(x.todo).kind = "move"
    /\ \A Q \in Ss : NotBehind(W, Q, Head(x.todo).id)
Resting(x) == x.at \in {"off", "reading"} => x.todo = <<>>
TasksFit ==
  /\ \A t \in Runs : RunFits(task[t], Wanted, Stores)
  /\ \A t \in Task : ChangeFits(task[t], Wanted, Stores) /\ Resting(task[t])

\* The server has held what its files hold.
Held == \A p \in DOMAIN files : files[p] \in 1..MaxEdits => files[p] \in reached
Queueing == edit.at = "queueing" => Quiet /\ dialogs = {} /\ edit.queue = outbox

Safe == AllSound /\ Agree /\ TasksFit /\ Held /\ Queueing

LEMMA WantedIs ==
  ASSUME NEW l, NEW r
  PROVE  /\ \A w \in WantedOf(l, r) : w[1] \in DOMAIN l /\ w[2] = l[w[1]] /\ w[2] \notin r
         /\ \A p \in DOMAIN l : l[p] \notin r => \E w \in WantedOf(l, r) : w[1] = p /\ w[2] = l[p]
         /\ \A x \in r : x \notin Texts(WantedOf(l, r))
<1>1. \A w \in WantedOf(l, r) : w[1] \in DOMAIN l /\ w[2] = l[w[1]] /\ w[2] \notin r
  BY DEF WantedOf
<1>2. ASSUME NEW p \in DOMAIN l, l[p] \notin r
      PROVE  \E w \in WantedOf(l, r) : w[1] = p /\ w[2] = l[p]
  <2>1. <<p, l[p]>> \in WantedOf(l, r)
    BY <1>2 DEF WantedOf
  <2> QED
    BY <2>1
<1> QED
  BY <1>1, <1>2 DEF Texts

LEMMA LessWanted ==
  ASSUME NEW l, NEW r, NEW m, NEW s,
         \A p \in DOMAIN m : m[p] \in s \/ (p \in DOMAIN l /\ m[p] = l[p] /\ m[p] \notin r)
  PROVE  WantedOf(m, s) \subseteq WantedOf(l, r)
BY DEF WantedOf

LEMMA TextsOfLess ==
  ASSUME NEW W, NEW V, V \subseteq W PROVE Texts(V) \subseteq Texts(W)
BY DEF Texts

LEMMA WantedTexts ==
  ASSUME NEW n, NEW l, LatestFits(n, l), NEW r
  PROVE  Texts(WantedOf(l, r)) \subseteq 1..n
BY WantedIs DEF Texts, LatestFits

\* A stored queue is a set of operations with ids of their own.
LEMMA QueueIsOpSet ==
  ASSUME NEW n, NEW q, QueueFits(n, q)
  PROVE  OpSet(n, ToSet(q))
<1>1. \A x \in Op(n) : x.id \in Nat
  BY OpFields
<1>2. ToSet(q) \subseteq Op(n)
  BY ToSetOf DEF QueueFits
<1>3. \A a, b \in ToSet(q) : a.id = b.id => a = b
  BY <1>1, IdsAreDistinct DEF QueueFits
<1> QED
  BY <1>2, <1>3 DEF OpSet

LEMMA StoresAre ==
  ASSUME Types, NEW Q \in Stores
  PROVE  OpSet(made, Q)
<1>1. CASE edit.at = "queueing"
  <2>1. QueueFits(made, Whole(outbox, edit.op))
    BY <1>1, WholeIs DEF Types
  <2> QED
    BY <1>1, <2>1, QueueIsOpSet DEF Stores
<1>2. CASE edit.at # "queueing"
  <2>1. \A t \in Task : QueueFits(made, task[t].queue)
    BY DEF Types, Place, QueueFits
  <2> QED
    BY <1>2, <2>1, QueueIsOpSet DEF Stores, Types
<1> QED
  BY <1>1, <1>2

LEMMA PoolIs ==
  ASSUME Types
  PROVE  /\ Pool \subseteq Op(made)
         /\ \A x \in Pool : \/ \E Q \in Stores : x \in Q
                            \/ \E t \in Task : x \in ToSet(task[t].todo)
                            \/ \E d \in dialogs : d.queued /\ x = d.op
         /\ \A Q \in Stores : Q \subseteq Pool
         /\ \A t \in Task : ToSet(task[t].todo) \subseteq Pool
         /\ \A d \in dialogs : d.queued => d.op \in Pool
<1>1. \A Q \in Stores : Q \subseteq Op(made)
  BY StoresAre DEF OpSet
<1>2. \A t \in Task : ToSet(task[t].todo) \subseteq Op(made)
  <2> SUFFICES ASSUME NEW t \in Task PROVE ToSet(task[t].todo) \subseteq Op(made)
    OBVIOUS
  <2>1. task[t].todo \in Seq(Op(made))
    BY DEF Types, Place
  <2> QED
    BY <2>1, ToSetOf
<1>3. \A d \in dialogs : d.op \in Op(made)
  BY DEF Types, Question
<1>4. /\ Stored \subseteq Op(made) /\ \A Q \in Stores : Q \subseteq Stored
      /\ \A x \in Stored : \E Q \in Stores : x \in Q
  BY <1>1 DEF Stored
<1>5. /\ ToDo \subseteq Op(made) /\ \A t \in Task : ToSet(task[t].todo) \subseteq ToDo
      /\ \A x \in ToDo : \E t \in Task : x \in ToSet(task[t].todo)
  BY <1>2 DEF ToDo
<1>6. /\ Asked \subseteq Op(made) /\ \A d \in dialogs : d.queued => d.op \in Asked
      /\ \A x \in Asked : \E d \in dialogs : d.queued /\ x = d.op
  BY <1>3 DEF Asked
<1> QED
  BY <1>4, <1>5, <1>6 DEF Pool

\* An operation on the server's side: what it holds it has held, and what has been sent
\* and not refused is no longer wanted.
LEMMA HeldOn ==
  ASSUME Types, Held, NEW n, NEW op \in Op(n), Handled(op)
  PROVE  Held' /\ reached \subseteq reached'
<1>1. reached \subseteq reached' /\ (Accepted(files, op) /\ op.text # Nothing => op.text \in reached')
  BY DEF Handled
<1>2. ASSUME NEW p \in DOMAIN files', files'[p] \in 1..MaxEdits PROVE files'[p] \in reached'
  <2>1. \/ files'[p] = Folder \/ \E q \in DOMAIN files : files'[p] = files[q]
        \/ Accepted(files, op) /\ op.kind \in Writes /\ files'[p] = op.text
    BY EffectIs DEF Handled, Types, FilesFit
  <2>2. files'[p] # Folder
    BY <1>2, SyncAssumption DEF Folder
  <2>3. CASE \E q \in DOMAIN files : files'[p] = files[q]
    BY <1>1, <1>2, <2>3 DEF Held
  <2>4. CASE Accepted(files, op) /\ op.kind \in Writes /\ files'[p] = op.text
    <3>1. op.text \in Nat
      BY <2>4, <1>2, SyncAssumption
    <3> QED
      BY <1>1, <2>4, <3>1, SyncAssumption
  <2> QED
    BY <2>1, <2>2, <2>3, <2>4
<1> QED
  BY <1>1, <1>2 DEF Held

LEMMA SentIsHeld ==
  ASSUME Types, Held, NEW op \in Op(made), Handled(op), ~Refused(op), NEW l, LatestFits(made, l)
  PROVE  op.text \notin Texts(WantedOf(l, reached'))
<1>1. Texts(WantedOf(l, reached')) \subseteq 1..made
  BY WantedTexts
<1>2. CASE op.kind \notin Writes
  <2>1. op.text = Nothing
    BY <1>2, OpFields
  <2> QED
    BY <1>1, <2>1, SyncAssumption
<1>3. CASE op.kind \in Writes
  <2>1. op.text \in 1..made /\ op.text \in 1..MaxEdits /\ op.text # Nothing
    <3>1. op.text \in 1..made
      BY <1>3, OpFields
    <3> QED
      BY <3>1, SyncAssumption DEF Types
  <2>2. op.text \in reached'
    <3>1. CASE Accepted(files, op)
      BY <2>1, <3>1 DEF Handled
    <3>2. CASE AlreadyDone(files, op)
      <4>1. op.path \in DOMAIN files /\ files[op.path] = op.text
        BY <1>3, <3>2 DEF AlreadyDone, Writes
      <4> QED
        BY <2>1, <4>1 DEF Held, Handled
    <3> QED
      BY <3>1, <3>2 DEF Refused
  <2> QED
    BY <2>2, WantedIs
<1> QED
  BY <1>2, <1>3

-----------------------------------------------------------------------------
(***************************************************************************)
(* A longer queue, and one with a change marked as refused.                *)
(***************************************************************************)
\* A write or a delete is queued last.  V is wanted of what was wanted elsewhere, and
\* the text written.
LEMMA SoundWritten ==
  ASSUME NEW n \in Nat, NEW Q, OpSet(n, Q), NEW W, Sound(W, Q), Texts(W) \subseteq 1..n,
         NEW new, new.kind # "move", ~new.failed, new.text \in {n + 1, Nothing},
         new.id \in Nat, \A a \in Q : a.id < new.id,
         NEW V, \A v \in V : \/ v \in W /\ v[1] # new.path
                             \/ v[1] = new.path /\ v[2] = n + 1 /\ new.text = n + 1
  PROVE  Sound(V, Q \cup {new})
<1>1. PICK R : R = Q \cup {new}
  OBVIOUS
<1>2. \A a \in R : a \in Q \/ a = new
  BY <1>1
<1>3. \A a \in Q : a.id \in Nat /\ a.id # new.id /\ ~(new.id < a.id) /\ a.text # n + 1
  <2> SUFFICES ASSUME NEW a \in Q
               PROVE  a.id \in Nat /\ a.id # new.id /\ ~(new.id < a.id) /\ a.text # n + 1
    OBVIOUS
  <2>1. a.id \in Nat /\ (a.text \in 1..n \/ a.text = Nothing)
    BY OpFields DEF OpSet
  <2> QED
    BY <2>1, SyncAssumption
<1>4. ASSUME NEW a \in Q, NEW v \in V, v[2] = a.text PROVE v \in W /\ v[1] # new.path
  BY <1>3, <1>4
<1>5. ASSUME NEW a \in Q, a.text \in Texts(V) PROVE a.text \in Texts(W)
  BY <1>4, <1>5 DEF Texts
<1>6. new.text \in Texts(V) => new.text = n + 1
  <2> SUFFICES ASSUME NEW v \in V, new.text = v[2] PROVE new.text = n + 1
    BY DEF Texts
  <2>1. v \in W => v[2] \in 1..n
    BY DEF Texts
  <2> QED
    BY <2>1, SyncAssumption
<1>7. InPlace(V, R)
  <2> SUFFICES ASSUME NEW v \in V, NEW a \in R, a.text = v[2],
                      \A c \in R : a.id < c.id => ~Moves(c, a.path)
               PROVE  v[1] = a.path
    BY DEF InPlace
  <2>1. CASE a \in Q
    BY <1>1, <1>4, <2>1 DEF Sound, InPlace
  <2>2. CASE a = new
    <3>1. v[2] = n + 1
      BY <1>6, <2>2 DEF Texts
    <3>2. v \in W => v[2] \in 1..n
      BY DEF Texts
    <3> QED
      BY <2>2, <3>1, <3>2
  <2> QED
    BY <1>2, <2>1, <2>2
<1>8. Parted(V, R)
  <2> SUFFICES ASSUME NEW a \in R, NEW b \in R, a.text \in Texts(V), a.id < b.id, b.kind # "move",
                      b.path = a.path
               PROVE  \E c \in R : a.id < c.id /\ c.id < b.id /\ Moves(c, a.path)
    BY DEF Parted
  <2>1. a \in Q
    BY <1>2, <1>3
  <2>2. CASE b \in Q
    <3>1. \E c \in Q : a.id < c.id /\ c.id < b.id /\ Moves(c, a.path)
      BY <1>5, <2>1, <2>2 DEF Sound, Parted
    <3> QED
      BY <1>1, <3>1
  <2>3. CASE b = new
    <3>1. PICK v \in V : a.text = v[2]
      BY DEF Texts
    <3>2. v \in W /\ v[1] # a.path
      BY <1>4, <2>1, <2>3, <3>1
    <3>3. PICK c \in Q : a.id < c.id /\ Moves(c, a.path)
      BY <2>1, <3>1, <3>2 DEF Sound, InPlace
    <3> QED
      BY <1>1, <2>3, <3>3
  <2> QED
    BY <1>2, <2>2, <2>3
<1>9. OfOne(V, R)
  <2> SUFFICES ASSUME NEW a \in R, NEW b \in R, a.text = b.text, a.text \in Texts(V) PROVE a.id = b.id
    BY DEF OfOne
  <2>1. CASE a \in Q /\ b \in Q
    BY <1>5, <2>1 DEF Sound, OfOne
  <2> QED
    BY <1>2, <1>3, <1>6, <2>1
<1>10. NoneBehind(V, R)
  <2> SUFFICES ASSUME NEW f \in R, f.failed, NEW a \in R, NEW c \in R, c.id = f.id, a.id < f.id,
                      Moves(c, a.path)
               PROVE  a.text \notin Texts(V)
    BY DEF NoneBehind, NotBehind
  <2>1. f \in Q /\ a \in Q /\ c \in Q
    BY <1>2, <1>3
  <2> QED
    BY <1>5, <2>1 DEF Sound, NoneBehind, NotBehind
<1>11. Complete(V, R)
  <2> SUFFICES ASSUME NEW v \in V PROVE \E a \in R : a.text = v[2]
    BY DEF Complete
  <2>1. CASE v \in W
    BY <1>1, <2>1 DEF Sound, Complete
  <2>2. CASE v[2] = n + 1 /\ new.text = n + 1
    BY <1>1, <2>2
  <2> QED
    BY <2>1, <2>2
<1>12. OnlyMovesFail(R)
  BY <1>2 DEF Sound, OnlyMovesFail
<1> QED
  BY <1>1, <1>7, <1>8, <1>9, <1>10, <1>11, <1>12 DEF Sound

\* A move is queued last, and what was wanted at the one path is wanted at the other.
LEMMA SoundMoved ==
  ASSUME NEW n \in Nat, NEW Q, OpSet(n, Q), NEW W, Sound(W, Q), Texts(W) \subseteq 1..n,
         NEW new, new.kind = "move", ~new.failed, new.text = Nothing,
         new.id \in Nat, \A a \in Q : a.id < new.id,
         NEW V, \A v \in V : \/ v \in W /\ v[1] # new.path
                             \/ v[1] = new.to /\ \E w \in W : w[1] = new.path /\ w[2] = v[2]
  PROVE  Sound(V, Q \cup {new})
<1>1. PICK R : R = Q \cup {new}
  OBVIOUS
<1>2. \A a \in R : a \in Q \/ a = new
  BY <1>1
<1>3. \A a \in Q : a.id \in Nat /\ a.id # new.id /\ ~(new.id < a.id)
  <2> SUFFICES ASSUME NEW a \in Q PROVE a.id \in Nat /\ a.id # new.id /\ ~(new.id < a.id)
    OBVIOUS
  <2>1. a.id \in Nat
    BY OpFields DEF OpSet
  <2> QED
    BY <2>1
<1>4. Texts(V) \subseteq Texts(W)
  BY DEF Texts
<1>5. new.text \notin Texts(V)
  BY <1>4, SyncAssumption
<1>6. InPlace(V, R)
  <2> SUFFICES ASSUME NEW v \in V, NEW a \in R, a.text = v[2],
                      \A c \in R : a.id < c.id => ~Moves(c, a.path)
               PROVE  v[1] = a.path
    BY DEF InPlace
  <2>1. v[2] \in Texts(V)
    BY DEF Texts
  <2>2. a \in Q /\ a.path # new.path
    BY <1>1, <1>2, <1>5, <2>1 DEF Moves
  <2>3. \A w \in W : w[2] = a.text => w[1] = a.path
    BY <1>1, <2>2 DEF Sound, InPlace
  <2> QED
    BY <2>2, <2>3
<1>7. Parted(V, R)
  <2> SUFFICES ASSUME NEW a \in R, NEW b \in R, a.text \in Texts(V), a.id < b.id, b.kind # "move",
                      b.path = a.path
               PROVE  \E c \in R : a.id < c.id /\ c.id < b.id /\ Moves(c, a.path)
    BY DEF Parted
  <2>1. a \in Q /\ b \in Q
    BY <1>2, <1>3
  <2>2. \E c \in Q : a.id < c.id /\ c.id < b.id /\ Moves(c, a.path)
    BY <1>4, <2>1 DEF Sound, Parted
  <2> QED
    BY <1>1, <2>2
<1>8. OfOne(V, R)
  BY <1>2, <1>4, <1>5 DEF Sound, OfOne
<1>9. NoneBehind(V, R)
  <2> SUFFICES ASSUME NEW f \in R, f.failed, NEW a \in R, NEW c \in R, c.id = f.id, a.id < f.id,
                      Moves(c, a.path)
               PROVE  a.text \notin Texts(V)
    BY DEF NoneBehind, NotBehind
  <2>1. f \in Q /\ a \in Q /\ c \in Q
    BY <1>2, <1>3
  <2> QED
    BY <1>4, <2>1 DEF Sound, NoneBehind, NotBehind
<1>10. Complete(V, R)
  <2> SUFFICES ASSUME NEW v \in V PROVE \E a \in R : a.text = v[2]
    BY DEF Complete
  <2>1. PICK w \in W : w[2] = v[2]
    OBVIOUS
  <2> QED
    BY <1>1, <2>1 DEF Sound, Complete
<1>11. OnlyMovesFail(R)
  BY <1>2 DEF Sound, OnlyMovesFail
<1> QED
  BY <1>1, <1>6, <1>7, <1>8, <1>9, <1>10, <1>11 DEF Sound

\* The operations of R are operations of Q, but that moves may be marked as refused.
Alike(x, y) ==
  /\ x.id = y.id /\ x.kind = y.kind /\ x.text = y.text /\ x.path = y.path /\ x.to = y.to
  /\ x.failed => y.failed \/ y.kind = "move"
Among(R, Q) == \A x \in R : \E y \in Q : Alike(x, y)

LEMMA AmongLess == ASSUME NEW Q, NEW R \in SUBSET Q PROVE Among(R, Q)
<1>1. \A x \in R : x \in Q /\ Alike(x, x)
  BY DEF Alike
<1> QED
  BY <1>1 DEF Among

LEMMA AmongMarked ==
  ASSUME NEW n, NEW Q, Q \subseteq Op(n), NEW id, \A a \in Q : a.id = id => a.kind = "move"
  PROVE  Among(Marks(Q, id), Q) /\ Among(Q, Marks(Q, id))
<1>1. PICK R : R = Marks(Q, id)
  OBVIOUS
<1>2. ASSUME NEW a \in Q
      PROVE  \E x \in R : Alike(x, a) /\ Alike(a, x)
  <2>1. CASE a.id = id
    <3>1. Failed(a) \in R /\ a.kind = "move"
      BY <1>1, <1>2, <2>1 DEF Marks
    <3>2. Alike(Failed(a), a) /\ Alike(a, Failed(a))
      BY <2>1, <3>1, FailedIs DEF Alike
    <3> QED
      BY <3>1, <3>2
  <2>2. CASE a.id # id
    BY <1>1, <2>2 DEF Alike, Marks
  <2> QED
    BY <2>1, <2>2
<1>3. ASSUME NEW x \in R PROVE \E a \in Q : Alike(x, a)
  <2>1. PICK a \in Q : x = IF a.id = id THEN Failed(a) ELSE a
    BY <1>1 DEF Marks
  <2>2. Alike(x, a)
    <3>1. CASE a.id = id
      BY <2>1, <3>1, FailedIs DEF Alike
    <3>2. CASE a.id # id
      BY <2>1, <3>2 DEF Alike
    <3> QED
      BY <3>1, <3>2
  <2> QED
    BY <2>2
<1> QED
  BY <1>1, <1>2, <1>3 DEF Among

LEMMA NotBehindAmong ==
  ASSUME NEW W, NEW Q, NEW R, Among(R, Q), NEW id, NotBehind(W, Q, id), NEW V \in SUBSET W
  PROVE  NotBehind(V, R, id)
<1> SUFFICES ASSUME NEW a \in R, NEW c \in R, c.id = id, a.id < id, Moves(c, a.path)
             PROVE  a.text \notin Texts(V)
  BY DEF NotBehind
<1>1. PICK b \in Q, d \in Q : Alike(a, b) /\ Alike(c, d)
  BY DEF Among
<1>2. d.id = id /\ b.id < id /\ Moves(d, b.path) /\ b.text = a.text
  BY <1>1 DEF Alike, Moves
<1> QED
  BY <1>2, TextsOfLess DEF NotBehind

LEMMA SoundMarked ==
  ASSUME NEW n, NEW Q, OpSet(n, Q), NEW W, Sound(W, Q), NEW id, NotBehind(W, Q, id),
         \A a \in Q : a.id = id => a.kind = "move"
  PROVE  Sound(W, Marks(Q, id))
<1>1. PICK R : R = Marks(Q, id)
  OBVIOUS
<1>2. Among(R, Q) /\ Among(Q, R)
  BY <1>1, AmongMarked DEF OpSet
<1>3. InPlace(W, R)
  <2> SUFFICES ASSUME NEW w \in W, NEW a \in R, a.text = w[2],
                      \A c \in R : a.id < c.id => ~Moves(c, a.path)
               PROVE  w[1] = a.path
    BY DEF InPlace
  <2>1. PICK b \in Q : Alike(a, b)
    BY <1>2 DEF Among
  <2>2. ASSUME NEW d \in Q, b.id < d.id PROVE ~Moves(d, b.path)
    <3>1. PICK c \in R : Alike(d, c)
      BY <1>2 DEF Among
    <3> QED
      BY <2>1, <2>2, <3>1 DEF Alike, Moves
  <2>3. w[1] = b.path
    BY <2>1, <2>2 DEF Alike, Sound, InPlace
  <2> QED
    BY <2>1, <2>3 DEF Alike
<1>4. Parted(W, R)
  <2> SUFFICES ASSUME NEW a \in R, NEW b \in R, a.text \in Texts(W), a.id < b.id, b.kind # "move",
                      b.path = a.path
               PROVE  \E c \in R : a.id < c.id /\ c.id < b.id /\ Moves(c, a.path)
    BY DEF Parted
  <2>1. PICK x \in Q, y \in Q : Alike(a, x) /\ Alike(b, y)
    BY <1>2 DEF Among
  <2>2. PICK z \in Q : x.id < z.id /\ z.id < y.id /\ Moves(z, x.path)
    BY <2>1 DEF Alike, Sound, Parted
  <2>3. PICK c \in R : Alike(z, c)
    BY <1>2 DEF Among
  <2> QED
    BY <2>1, <2>2, <2>3 DEF Alike, Moves
<1>5. OfOne(W, R)
  <2> SUFFICES ASSUME NEW a \in R, NEW b \in R, a.text = b.text, a.text \in Texts(W) PROVE a.id = b.id
    BY DEF OfOne
  <2>1. PICK x \in Q, y \in Q : Alike(a, x) /\ Alike(b, y)
    BY <1>2 DEF Among
  <2> QED
    BY <2>1 DEF Alike, Sound, OfOne
<1>6. OnlyMovesFail(R)
  <2> SUFFICES ASSUME NEW a \in R, a.failed PROVE a.kind = "move"
    BY DEF OnlyMovesFail
  <2>1. PICK x \in Q : Alike(a, x)
    BY <1>2 DEF Among
  <2> QED
    BY <2>1 DEF Alike, Sound, OnlyMovesFail
<1>7. NoneBehind(W, R)
  <2> SUFFICES ASSUME NEW f \in R, f.failed PROVE NotBehind(W, R, f.id)
    BY DEF NoneBehind
  <2>1. PICK a \in Q : f = IF a.id = id THEN Failed(a) ELSE a
    BY <1>1 DEF Marks
  <2>2. f.id = a.id /\ (a.id # id => a.failed)
    BY <2>1, FailedIs DEF OpSet
  <2>3. NotBehind(W, Q, f.id)
    BY <2>2 DEF Sound, NoneBehind
  <2> QED
    BY <1>2, <2>3, NotBehindAmong
<1>8. Complete(W, R)
  <2> SUFFICES ASSUME NEW w \in W PROVE \E a \in R : a.text = w[2]
    BY DEF Complete
  <2>1. PICK x \in Q : x.text = w[2]
    BY DEF Sound, Complete
  <2>2. PICK a \in R : Alike(x, a)
    BY <1>2 DEF Among
  <2> QED
    BY <2>1, <2>2 DEF Alike
<1> QED
  BY <1>1, <1>3, <1>4, <1>5, <1>6, <1>7, <1>8 DEF Sound

-----------------------------------------------------------------------------
(***************************************************************************)
(* How the invariant passes from one state to the next: where nothing is   *)
(* on its way, and where less is wanted, queued and asked about.           *)
(***************************************************************************)
Calm ==
  /\ Quiet /\ (\A d \in dialogs : ~d.queued) /\ (\A t \in Task : Resting(task[t]))
  /\ edit.at = "queueing" => dialogs = {} /\ edit.queue = outbox
  /\ AllSound /\ Held

LEMMA CalmSafe == Types /\ Calm => Safe
<1> SUFFICES ASSUME Types, Calm PROVE Safe
  OBVIOUS
<1>1. \A t \in Task : task[t].at = "off" /\ task[t].todo = <<>>
  BY DEF Calm, Quiet, Busy, Resting
<1>2. PICK Q \in Stores : Stores = {Q}
  <2>1. {s \in Task : Changing(s)} = {}
    BY <1>1 DEF Changing
  <2> QED
    BY <2>1 DEF Stores
<1>3. Pool \subseteq Q
  <2>1. ToSet(<<>>) = {}
    BY DEF ToSet
  <2>2. \A t \in Task : ToSet(task[t].todo) = {}
    BY <1>1, <2>1
  <2>3. \A d \in dialogs : ~d.queued
    BY DEF Calm
  <2> QED
    BY <1>2, <2>2, <2>3, PoolIs
<1>4. Sound(Wanted, Q) /\ OpSet(made, Q)
  BY <1>2, StoresAre DEF Calm, AllSound
<1>5. Agree
  BY <1>3, <1>4 DEF Agree, Sound, OnlyMovesFail, OfOne, OpSet
<1>6. TasksFit
  <2>1. \A t \in Runs : t \in Task
    BY DEF Task
  <2> QED
    BY <1>1, <2>1 DEF TasksFit, RunFits, ChangeFits, Changes, Resting
<1> QED
  BY <1>5, <1>6 DEF Safe, Calm, Queueing

LEMMA RunFitsAmong ==
  ASSUME NEW x, NEW W, NEW Ss, RunFits(x, W, Ss), NEW V \in SUBSET W,
         NEW Ts, \A R \in Ts : \E Q \in Ss : Among(R, Q)
  PROVE  RunFits(x, V, Ts)
<1> SUFFICES ASSUME x.at \in {"sending"} \cup Changes
             PROVE  /\ Ordered(x.todo)
                    /\ \A Q \in Ts : \A a \in Q :
                         a.text \in Texts(V) => \E b \in ToSet(Left(x)) : b.id = a.id
  BY DEF RunFits
<1>1. ASSUME NEW R \in Ts, NEW a \in R, a.text \in Texts(V) PROVE \E b \in ToSet(Left(x)) : b.id = a.id
  <2>1. PICK Q \in Ss : Among(R, Q)
    OBVIOUS
  <2>2. PICK c \in Q : Alike(a, c)
    BY <2>1 DEF Among
  <2>3. c.text \in Texts(W) /\ c.id = a.id
    BY <1>1, <2>2, TextsOfLess DEF Alike
  <2> QED
    BY <2>3 DEF RunFits
<1> QED
  BY <1>1 DEF RunFits

LEMMA ChangeFitsAmong ==
  ASSUME NEW x, NEW W, NEW Ss, ChangeFits(x, W, Ss), NEW V \in SUBSET W,
         NEW Ts, \A R \in Ts : \E Q \in Ss : Among(R, Q)
  PROVE  ChangeFits(x, V, Ts)
<1> SUFFICES ASSUME x.at \in Changes
             PROVE  /\ Head(x.todo).text \notin Texts(V)
                    /\ x.at \in {"mark", "marking"} => Head(x.todo).kind = "move"
                    /\ \A R \in Ts : NotBehind(V, R, Head(x.todo).id)
  BY DEF ChangeFits
<1>1. Head(x.todo).text \notin Texts(V)
  BY TextsOfLess DEF ChangeFits
<1>2. \A R \in Ts : NotBehind(V, R, Head(x.todo).id)
  BY NotBehindAmong DEF ChangeFits
<1> QED
  BY <1>1, <1>2 DEF ChangeFits

LEMMA SafeOfLess ==
  ASSUME Types, Types', Safe, Wanted' \subseteq Wanted,
         \A R \in Stores' : Sound(Wanted', R) /\ \E Q \in Stores : Among(R, Q),
         \A t \in Task : ToSet(task'[t].todo) \subseteq Pool,
         \A d \in dialogs' : d.queued => d.op \in Pool,
         Held', Queueing',
         \A t \in Task : \/ task'[t] = task[t]
                         \/ /\ t \in Runs => RunFits(task'[t], Wanted', Stores')
                            /\ ChangeFits(task'[t], Wanted', Stores') /\ Resting(task'[t])
  PROVE  Safe'
<1>1. AllSound'
  BY DEF AllSound
<1>2. Among(Pool', Pool)
  <2> SUFFICES ASSUME NEW x \in Pool' PROVE \E y \in Pool : Alike(x, y)
    BY DEF Among
  <2>1. \/ \E R \in Stores' : x \in R
        \/ \E t \in Task : x \in ToSet(task'[t].todo)
        \/ \E d \in dialogs' : d.queued /\ x = d.op
    <3>1. x \in Stored' \/ x \in ToDo' \/ x \in Asked'
      BY DEF Pool
    <3>2. x \in Stored' => \E R \in Stores' : x \in R
      BY DEF Stored
    <3>3. x \in ToDo' => \E t \in Task : x \in ToSet(task'[t].todo)
      BY DEF ToDo
    <3>4. x \in Asked' => \E d \in dialogs' : d.queued /\ x = d.op
      BY DEF Asked
    <3> QED
      BY <3>1, <3>2, <3>3, <3>4
  <2>2. CASE \E R \in Stores' : x \in R
    <3>1. PICK R \in Stores' : x \in R
      BY <2>2
    <3>2. PICK Q \in Stores : Among(R, Q)
      OBVIOUS
    <3>3. PICK y \in Q : Alike(x, y)
      BY <3>1, <3>2 DEF Among
    <3> QED
      BY <3>3, PoolIs
  <2>3. CASE x \in Pool
    BY <2>3 DEF Alike
  <2> QED
    BY <2>1, <2>2, <2>3
<1>3. Agree'
  <2>1. OnlyMovesFail(Pool')
    <3> SUFFICES ASSUME NEW a \in Pool', a.failed PROVE a.kind = "move"
      BY DEF OnlyMovesFail
    <3>1. PICK b \in Pool : Alike(a, b)
      BY <1>2 DEF Among
    <3> QED
      BY <3>1 DEF Safe, Agree, OnlyMovesFail, Alike
  <2>2. OfOne(Wanted', Pool')
    <3> SUFFICES ASSUME NEW a \in Pool', NEW b \in Pool', a.text = b.text, a.text \in Texts(Wanted')
                 PROVE  a.id = b.id
      BY DEF OfOne
    <3>1. PICK c \in Pool, d \in Pool : Alike(a, c) /\ Alike(b, d)
      BY <1>2 DEF Among
    <3>2. c.text \in Texts(Wanted) /\ c.text = d.text
      BY <3>1, TextsOfLess DEF Alike
    <3> QED
      BY <3>1, <3>2 DEF Safe, Agree, OfOne, Alike
  <2>3. ASSUME NEW a \in Pool', NEW b \in Pool', a.id = b.id PROVE a.kind = b.kind /\ a.text = b.text
    <3>1. PICK c \in Pool, d \in Pool : Alike(a, c) /\ Alike(b, d)
      BY <1>2 DEF Among
    <3> QED
      BY <2>3, <3>1 DEF Safe, Agree, Alike
  <2> QED
    BY <2>1, <2>2, <2>3 DEF Agree
<1>4. TasksFit'
  <2>1. ASSUME NEW t \in Runs PROVE RunFits(task'[t], Wanted', Stores')
    <3>1. t \in Task /\ RunFits(task[t], Wanted, Stores)
      BY DEF Safe, TasksFit, Task
    <3> QED
      BY <3>1, RunFitsAmong
  <2>2. ASSUME NEW t \in Task PROVE ChangeFits(task'[t], Wanted', Stores') /\ Resting(task'[t])
    <3>1. ChangeFits(task[t], Wanted, Stores) /\ Resting(task[t])
      BY DEF Safe, TasksFit
    <3> QED
      BY <3>1, ChangeFitsAmong
  <2> QED
    BY <2>1, <2>2 DEF TasksFit
<1> QED
  BY <1>1, <1>3, <1>4 DEF Safe

LEMMA StoresOfLess ==
  ASSUME Types, edit.at # "queueing", edit'.at # "queueing", outbox' = outbox,
         \A t \in Task : task'[t].at \in {"dropping", "marking"} =>
           \/ task'[t].queue = outbox
           \/ task[t].at \in {"dropping", "marking"} /\ task'[t].queue = task[t].queue
  PROVE  Stores' \subseteq Stores
<1>1. Stores' = {ToSet(outbox)} \cup
                             {ToSet(task'[t].queue) :
                                 t \in {s \in Task : task'[s].at \in {"dropping", "marking"}}}
  BY DEF Stores, Changing
<1>2. Stores = {ToSet(outbox)} \cup
                            {ToSet(task[t].queue) :
                                t \in {s \in Task : task[s].at \in {"dropping", "marking"}}}
  BY DEF Stores, Changing
<1> QED
  BY <1>1, <1>2

\* Less is queued: SafeOfLess where nothing of the queue changes.
LEMMA SafeOfFewer ==
  ASSUME Types, Types', Safe, Wanted' \subseteq Wanted, Stores' \subseteq Stores,
         \A t \in Task : ToSet(task'[t].todo) \subseteq Pool,
         \A d \in dialogs' : d.queued => d.op \in Pool,
         Held', Queueing',
         \A t \in Task : \/ task'[t] = task[t]
                         \/ /\ t \in Runs => RunFits(task'[t], Wanted', Stores)
                            /\ ChangeFits(task'[t], Wanted', Stores) /\ Resting(task'[t])
  PROVE  Safe'
<1>1. ASSUME NEW R \in Stores' PROVE Sound(Wanted', R) /\ \E Q \in Stores : Among(R, Q)
  <2>1. R \in Stores /\ Sound(Wanted, R) /\ Among(R, R)
    BY AmongLess DEF Safe, AllSound
  <2> QED
    BY <2>1, SoundOfLess
<1>2. ASSUME NEW t \in Task
      PROVE  \/ task'[t] = task[t]
             \/ /\ t \in Runs => RunFits(task'[t], Wanted', Stores')
                /\ ChangeFits(task'[t], Wanted', Stores') /\ Resting(task'[t])
  BY <1>1, RunFitsAmong, ChangeFitsAmong
<1> QED
  BY <1>1, <1>2, SafeOfLess

LEMMA InitSafe == Init => Safe
<1> SUFFICES ASSUME Init PROVE Safe
  OBVIOUS
<1>1. Types
  BY InitTypes
<1>2. Wanted = {} /\ ToSet(outbox) = {}
  <2>1. DOMAIN <<>> = {}
    OBVIOUS
  <2> QED
    BY <2>1 DEF Init, Wanted, WantedOf, ToSet
<1>3. Sound({}, {})
  BY DEF Sound, OnlyMovesFail, InPlace, Parted, OfOne, NoneBehind, NotBehind, Complete
<1>4. edit.at = "none" /\ \A t \in Task : task[t].at = "off" /\ task[t].todo = <<>>
  BY DEF Init, NoEdit, Off
<1>5. AllSound
  <2>1. Stores = {ToSet(outbox)}
    BY <1>4 DEF Stores, Changing
  <2> QED
    BY <1>2, <1>3, <2>1 DEF AllSound
<1>6. Held
  BY SyncAssumption DEF Init, Held
<1>7. Calm
  BY <1>4, <1>5, <1>6 DEF Calm, Quiet, Busy, Resting, Init
<1> QED
  BY <1>1, <1>7, CalmSafe

-----------------------------------------------------------------------------
(***************************************************************************)
(* The steps: the person's operations and the page.                        *)
(***************************************************************************)
LEMMA SafeFrame ==
  ASSUME Safe, UNCHANGED <<outbox, task, dialogs, edit, latest, reached>>, Held'
  PROVE  Safe'
<1>1. Stores' = Stores /\ Wanted' = Wanted
  BY DEF Stores, Changing, Wanted
<1>2. Pool' = Pool
  BY <1>1 DEF Pool, Stored, ToDo, Asked
<1>3. AllSound' /\ Agree'
  BY <1>1, <1>2 DEF Safe, AllSound, Agree
<1>4. TasksFit'
  BY <1>1 DEF Safe, TasksFit
<1>5. Queueing'
  BY DEF Safe, Queueing, Quiet, Busy
<1> QED
  BY <1>3, <1>4, <1>5 DEF Safe

LEMMA QuietStore == Quiet /\ edit.at # "queueing" => Stores = {ToSet(outbox)}
<1> SUFFICES ASSUME Quiet, edit.at # "queueing" PROVE Stores = {ToSet(outbox)}
  OBVIOUS
<1>1. {s \in Task : Changing(s)} = {}
  BY DEF Quiet, Busy, Changing
<1> QED
  BY <1>1 DEF Stores

LEMMA QuietStoreNext ==
  ASSUME Quiet', edit'.at # "queueing"
  PROVE  Stores' = {ToSet(outbox')}
<1>1. {s \in Task : Changing(s)'} = {}
  BY DEF Quiet, Busy, Changing
<1> QED
  BY <1>1 DEF Stores

LEMMA AloneSafe ==
  ASSUME Types, Types', Safe,
         Prune \/ Probe \/ WentOffline \/ UNCHANGED vars \/ \E p \in NotePath : Open(p) \/ Elsewhere(p)
  PROVE  Safe'
<1>1. UNCHANGED <<outbox, task, dialogs, edit, latest, reached>>
  BY DEF Prune, Probe, WentOffline, vars, Open, Elsewhere, ghosts, counts
<1>2. CASE UNCHANGED files
  BY <1>1, <1>2, SafeFrame DEF Safe, Held
<1>3. CASE \E p \in NotePath : Elsewhere(p)
  <2>1. PICK p \in NotePath : files' = Written(files, p, MaxEdits + foreign + 1)
    BY <1>3 DEF Elsewhere
  <2>2. MaxEdits + foreign + 1 \notin 1..MaxEdits
    BY SyncAssumption DEF Types
  <2>3. Held'
    BY <1>1, <2>1, <2>2 DEF Safe, Held, Written
  <2> QED
    BY <1>1, <2>3, SafeFrame
<1> QED
  BY <1>2, <1>3 DEF Prune, Probe, WentOffline, vars, Open

LEMMA EnqueueSafe ==
  ASSUME Types, Types', Safe, Enqueue
  PROVE  Safe'
<1>1. edit.at = "queueing" /\ Quiet /\ dialogs = {} /\ edit.queue = outbox /\ edit.op \in Op(made)
  BY DEF Safe, Queueing, Enqueue, Types
<1>2. /\ QueueFits(made, Whole(outbox, edit.op)) /\ outbox' = Coalesce(Whole(outbox, edit.op))
      /\ Stores = {ToSet(Whole(outbox, edit.op))}
  BY <1>1, WholeIs DEF Enqueue, Types, Stores
<1>3. Texts(Wanted) \subseteq Nat
  BY WantedTexts DEF Wanted, Types
<1>4. Sound(Wanted, ToSet(outbox'))
  BY <1>2, <1>3, CoalesceIs DEF Safe, AllSound, QueueFits
<1>5. edit'.at = "none" /\ Quiet' /\ Wanted' = Wanted /\ UNCHANGED <<files, reached, dialogs, task>>
  BY <1>1 DEF Enqueue, NoEdit, Wanted, Quiet, Busy, ghosts
<1>6. Stores' = {ToSet(outbox')}
  BY <1>5, QuietStoreNext
<1>7. Calm'
  BY <1>1, <1>4, <1>5, <1>6 DEF Calm, AllSound, Safe, Held, TasksFit
<1> QED
  BY <1>7, CalmSafe, PTL

LEMMA ReloadSafe ==
  ASSUME ~Overlap, Types, Types', Safe, Reload
  PROVE  Safe'
<1>1. /\ edit.at = "none" /\ edit'.at = "none" /\ Wanted' = Wanted /\ dialogs' = {}
      /\ UNCHANGED <<files, reached, outbox>>
      /\ \A t \in Task : task'[t].at = "off" /\ task'[t].todo = <<>>
  BY DEF Reload, NoEdit, Wanted, ghosts, Off
<1>2. Quiet' /\ \A t \in Task : Resting(task'[t])
  BY <1>1 DEF Quiet, Busy, Resting
<1>3. Stores' = {ToSet(outbox')}
  BY <1>1, <1>2, QuietStoreNext
<1>4. ToSet(outbox) \in Stores
  BY <1>1 DEF Stores
<1>5. Calm'
  BY <1>1, <1>2, <1>3, <1>4 DEF Calm, AllSound, Safe, Held
<1> QED
  BY <1>5, CalmSafe, PTL

LEMMA NothingWanted ==
  ASSUME NEW W, Sound(W, {})
  PROVE  W = {}
BY DEF Sound, Complete

LEMMA EditLiveSafe ==
  ASSUME ~Overlap, Types, Types', Safe, NEW op \in Operations, EditLive(op)
  PROVE  Safe'
<1>1. /\ Quiet /\ dialogs = {} /\ outbox = <<>> /\ edit.at = "none" /\ op \in Op(made + 1)
      /\ UNCHANGED <<outbox, task, edit>>
  BY OperationsAre DEF EditLive, Edits
<1>2. Stores = {ToSet(outbox)} /\ ToSet(outbox) = {}
  <2>1. ToSet(<<>>) = {}
    BY DEF ToSet
  <2> QED
    BY <1>1, <2>1, QuietStore
<1>3. \A p \in DOMAIN latest : latest[p] \in reached
  <2>1. Wanted = {}
    BY <1>2, NothingWanted DEF Safe, AllSound
  <2> QED
    BY <2>1, WantedIs DEF Wanted
<1>4. Held' /\ reached \subseteq reached'
  BY <1>1, HeldOn DEF Safe, EditLive
<1>5. \A p \in DOMAIN latest' : latest'[p] \in reached'
  <2>1. CASE ~Accepted(files, op)
    BY <1>3, <1>4, <2>1 DEF EditLive
  <2>2. CASE Accepted(files, op)
    <3>1. Kept(op) /\ op.path \in NotePath /\ op.to \in NotePath /\ DOMAIN latest \subseteq NotePath
          /\ op.kind \in {"save", "create", "delete", "move"}
      BY <1>1, <2>2, OpFields DEF EditLive, Types, LatestFits
    <3>2. CASE op.kind \in {"save", "create"}
      <4>1. op.text # Nothing
        BY <1>1, <3>2, OpFields, SyncAssumption DEF Writes
      <4>2. op.text \in reached'
        BY <2>2, <4>1 DEF EditLive, Handled
      <4>3. latest' = Written(latest, op.path, op.text)
        BY <3>1, <3>2 DEF Kept
      <4> QED
        BY <1>3, <1>4, <4>2, <4>3 DEF Written
    <3>3. CASE op.kind = "delete"
      <4>1. latest' = Removed(latest, op.path)
        BY <3>1, <3>3 DEF Kept
      <4> QED
        BY <1>3, <1>4, <3>1, <4>1, FewerNotes
    <3>4. CASE op.kind = "move"
      <4>1. latest' = Relocated(latest, op.path, op.to)
        BY <3>1, <3>4 DEF Kept
      <4> QED
        BY <1>3, <1>4, <3>1, <4>1, FewerNotes
    <3> QED
      BY <3>1, <3>2, <3>3, <3>4
  <2> QED
    BY <2>1, <2>2
<1>6. Wanted' = {}
  BY <1>5 DEF Wanted, WantedOf
<1>7. Quiet' /\ edit'.at = "none" /\ \A t \in Task : Resting(task'[t])
  BY <1>1 DEF Quiet, Busy, Safe, TasksFit
<1>8. Stores' = {ToSet(outbox')}
  BY <1>7, QuietStoreNext
<1>9. AllSound'
  <2>1. Sound(Wanted, ToSet(outbox')) /\ Wanted' \in SUBSET Wanted
    BY <1>1, <1>2, <1>6 DEF Safe, AllSound
  <2>2. Sound(Wanted', ToSet(outbox'))
    BY <2>1, SoundOfLess
  <2> QED
    BY <1>8, <2>2 DEF AllSound
<1>10. \A d \in dialogs' : ~d.queued
  BY <1>1 DEF EditLive, Raised
<1>11. Calm'
  BY <1>4, <1>7, <1>9, <1>10 DEF Calm
<1> QED
  BY <1>11, CalmSafe, PTL

LEMMA NumberedIs ==
  ASSUME NEW n, NEW op \in Op(n), NEW id \in Nat
  PROVE  LET new == Numbered(op, id)
         IN  /\ new.id = id /\ new.kind = op.kind /\ new.path = op.path /\ new.to = op.to
             /\ new.text = op.text /\ new.failed = op.failed
BY DEF Numbered, Op

\* What is wanted after an operation: what was wanted elsewhere, and its text.
LEMMA WantedWritten ==
  ASSUME Types, NEW op \in Op(made + 1), op.kind # "move", op.kind \in Writes => op.text = made + 1,
         Kept(op), NEW s, reached \subseteq s
  PROVE  \A v \in WantedOf(latest', s) :
           \/ v \in Wanted /\ v[1] # op.path
           \/ v[1] = op.path /\ v[2] = made + 1 /\ op.text = made + 1
<1> SUFFICES ASSUME NEW p \in DOMAIN latest', latest'[p] \notin s,
                    NEW v, v = <<p, latest'[p]>>
             PROVE  \/ v \in Wanted /\ v[1] # op.path
                    \/ v[1] = op.path /\ v[2] = made + 1 /\ op.text = made + 1
  BY DEF WantedOf
<1>1. op.path \in NotePath /\ op.kind \in {"save", "create", "delete"} /\ DOMAIN latest \subseteq Places
  BY OpFields DEF Types, LatestFits, Places
<1>2. CASE op.kind = "delete"
  <2>1. latest' = Removed(latest, op.path)
    BY <1>2 DEF Kept
  <2>2. p \in DOMAIN latest /\ p # op.path /\ latest'[p] = latest[p]
    <3>1. DOMAIN latest' = DOMAIN latest \ {op.path}
      BY <1>1, <2>1, RemovedIs
    <3>2. \A q \in DOMAIN latest \ {op.path} : latest'[q] = latest[q]
      BY <1>1, <2>1, RemovedIs
    <3> QED
      BY <3>1, <3>2
  <2> QED
    BY <2>2 DEF Wanted, WantedOf
<1>3. CASE op.kind \in Writes
  <2>1. latest' = Written(latest, op.path, op.text) /\ op.text = made + 1
    BY <1>3 DEF Kept, Writes
  <2>2. CASE p = op.path
    BY <2>1, <2>2 DEF Written
  <2>3. CASE p # op.path
    <3>1. p \in DOMAIN latest /\ latest'[p] = latest[p]
      BY <2>1, <2>3 DEF Written
    <3> QED
      BY <2>3, <3>1 DEF Wanted, WantedOf
  <2> QED
    BY <2>2, <2>3
<1> QED
  BY <1>1, <1>2, <1>3 DEF Writes

LEMMA WantedMoved ==
  ASSUME Types, NEW n, NEW op \in Op(n), op.kind = "move", Kept(op), NEW s, reached \subseteq s
  PROVE  \A v \in WantedOf(latest', s) :
           \/ v \in Wanted /\ v[1] # op.path
           \/ v[1] = op.to /\ \E w \in Wanted : w[1] = op.path /\ w[2] = v[2]
<1> SUFFICES ASSUME NEW p \in DOMAIN latest', latest'[p] \notin s,
                    NEW v, v = <<p, latest'[p]>>
             PROVE  \/ v \in Wanted /\ v[1] # op.path
                    \/ v[1] = op.to /\ \E w \in Wanted : w[1] = op.path /\ w[2] = v[2]
  BY DEF WantedOf
<1>1. op.path \in NotePath /\ op.to \in NotePath /\ DOMAIN latest \subseteq Places
  BY OpFields DEF Types, LatestFits, Places
<1>2. WithMoved(latest', latest, op.path, op.to)
  <2>1. latest' = Relocated(latest, op.path, op.to)
    BY DEF Kept
  <2> QED
    BY <1>1, <2>1, RelocatedIs
<1>3. CASE p = op.to /\ op.path \in DOMAIN latest
  <2>1. latest'[p] = latest[op.path] /\ latest[op.path] \notin reached
    BY <1>2, <1>3 DEF WithMoved
  <2>2. <<op.path, latest[op.path]>> \in Wanted
    BY <1>3, <2>1 DEF Wanted, WantedOf
  <2> QED
    BY <1>3, <2>1, <2>2
<1>4. CASE ~(p = op.to /\ op.path \in DOMAIN latest)
  <2>1. p \in DOMAIN latest /\ latest'[p] = latest[p] /\ p # op.path
    BY <1>2, <1>4 DEF WithMoved
  <2> QED
    BY <2>1 DEF Wanted, WantedOf
<1> QED
  BY <1>3, <1>4

LEMMA EditQueuedSafe ==
  ASSUME ~Overlap, Types, Types', Safe, NEW op \in Operations, EditQueued(op)
  PROVE  Safe'
<1>1. /\ Quiet /\ dialogs = {} /\ edit.at = "none" /\ op \in Op(made') /\ made' = made + 1
      /\ UNCHANGED <<outbox, task, dialogs>> /\ QueueFits(made', outbox) /\ ~op.failed
      /\ op.kind \in Writes => op.text = made + 1
      /\ edit'.at = "queueing" /\ edit'.op = op /\ edit'.queue = outbox /\ Kept(op)
  BY OperationsAre, MadeMore DEF EditQueued, Edits
<1>2. Stores = {ToSet(outbox)}
  BY <1>1, QuietStore
<1>3. Sound(Wanted, ToSet(outbox)) /\ OpSet(made, ToSet(outbox)) /\ made \in Nat
      /\ Texts(Wanted) \subseteq 1..made
  <2>1. made \in Nat /\ Texts(Wanted) \subseteq 1..made
    BY WantedTexts, SyncAssumption DEF Wanted, Types
  <2> QED
    BY <1>2, <2>1, StoresAre DEF Safe, AllSound
<1>4. PICK new : new = Numbered(op, NextId(outbox))
  OBVIOUS
<1>5. /\ ToSet(Whole(outbox, op)) = ToSet(outbox) \cup {new}
      /\ NextId(outbox) \in Nat /\ \A a \in ToSet(outbox) : a.id < NextId(outbox)
  BY <1>1, <1>4, WholeIs
<1>6. /\ new.id = NextId(outbox) /\ new.kind = op.kind /\ new.path = op.path /\ new.to = op.to
      /\ new.text = op.text /\ ~new.failed
  BY <1>1, <1>4, <1>5, NumberedIs
<1>7. Held' /\ reached \subseteq reached'
  BY <1>1, HeldOn DEF Safe, EditQueued, NotHandled, Held
<1>8. Sound(Wanted', ToSet(outbox) \cup {new})
  <2>1. PICK V : V = Wanted' /\ V = WantedOf(latest', reached')
    BY DEF Wanted
  <2>2. \A a \in ToSet(outbox) : a.id < new.id
    BY <1>5, <1>6
  <2>3. CASE op.kind # "move"
    <3>1. op.text \in {made + 1, Nothing}
      BY <1>1, OpFields
    <3>2. \A v \in V : \/ v \in Wanted /\ v[1] # new.path
                       \/ v[1] = new.path /\ v[2] = made + 1 /\ new.text = made + 1
      BY <1>1, <1>6, <1>7, <2>1, <2>3, WantedWritten
    <3> QED
      BY <1>3, <1>5, <1>6, <2>1, <2>2, <2>3, <3>1, <3>2, SoundWritten
  <2>4. CASE op.kind = "move"
    <3>1. op.text = Nothing
      BY <1>1, <2>4, OpFields DEF Writes
    <3>2. \A v \in V : \/ v \in Wanted /\ v[1] # new.path
                       \/ v[1] = new.to /\ \E w \in Wanted : w[1] = new.path /\ w[2] = v[2]
      BY <1>1, <1>6, <1>7, <2>1, <2>4, WantedMoved
    <3> QED
      BY <1>3, <1>5, <1>6, <2>1, <2>2, <2>4, <3>1, <3>2, SoundMoved
  <2> QED
    BY <2>3, <2>4
<1>9. AllSound'
  <2>1. Stores' = {ToSet(Whole(outbox', edit'.op))}
    BY <1>1 DEF Stores
  <2>2. Stores' = {ToSet(outbox) \cup {new}}
    BY <1>1, <1>5, <2>1
  <2> QED
    BY <1>8, <2>2 DEF AllSound
<1>10. Calm'
  BY <1>1, <1>7, <1>9 DEF Calm, Quiet, Busy, Safe, TasksFit
<1> QED
  BY <1>10, CalmSafe, PTL

-----------------------------------------------------------------------------
(***************************************************************************)
(* The steps: the replay, the changes of the stored queue and the answers. *)
(***************************************************************************)
LEMMA HeadAndTail ==
  ASSUME NEW n, NEW q \in Seq(Op(n)), q # <<>>
  PROVE  /\ Head(q) \in ToSet(q) /\ ToSet(Tail(q)) \subseteq ToSet(q)
         /\ \A x \in ToSet(q) : x = Head(q) \/ x \in ToSet(Tail(q))
         /\ Ordered(q) => Ordered(Tail(q)) /\ \A x \in ToSet(q) : Head(q).id <= x.id
<1>1. /\ Len(q) \in Nat /\ Len(q) # 0 /\ DOMAIN q = 1..Len(q)
      /\ \A i \in 1..Len(q) : q[i] \in Op(n) /\ q[i].id \in Nat
  BY LenProperties, EmptySeq, ElementOfSeq, OpFields
<1>2. PICK r : r = Tail(q)
  OBVIOUS
<1>3. /\ r \in Seq(Op(n)) /\ Len(r) = Len(q) - 1 /\ DOMAIN r = 1..(Len(q) - 1)
      /\ \A i \in 1..(Len(q) - 1) : r[i] = q[i + 1]
  <2>1. r \in Seq(Op(n)) /\ Len(r) = Len(q) - 1 /\ \A i \in 1..Len(r) : r[i] = q[i + 1]
    BY <1>2, HeadTailProperties
  <2> QED
    BY <2>1, LenProperties
<1>4. Head(q) = q[1] /\ 1 \in DOMAIN q
  BY <1>1
<1>5. \A i \in DOMAIN r : i + 1 \in DOMAIN q /\ r[i] = q[i + 1]
  BY <1>1, <1>3
<1>6. \A i \in DOMAIN q : i = 1 \/ (i - 1 \in DOMAIN r /\ r[i - 1] = q[i])
  <2> SUFFICES ASSUME NEW i \in DOMAIN q, i # 1 PROVE i - 1 \in DOMAIN r /\ r[i - 1] = q[i]
    OBVIOUS
  <2>1. i - 1 \in 1..(Len(q) - 1) /\ (i - 1) + 1 = i
    BY <1>1
  <2> QED
    BY <1>3, <2>1
<1>7. ToSet(q) = {q[i] : i \in DOMAIN q} /\ ToSet(r) = {r[i] : i \in DOMAIN r}
  BY DEF ToSet
<1>8. Ordered(q) => Ordered(r)
  <2> SUFFICES ASSUME Ordered(q), NEW i \in DOMAIN r, NEW j \in DOMAIN r, i < j
               PROVE  r[i].id < r[j].id
    BY DEF Ordered
  <2>1. i + 1 \in DOMAIN q /\ j + 1 \in DOMAIN q /\ i + 1 < j + 1
    BY <1>3, <1>5
  <2> QED
    BY <1>5, <2>1 DEF Ordered
<1>9. Ordered(q) => \A x \in ToSet(q) : Head(q).id <= x.id
  <2> SUFFICES ASSUME Ordered(q), NEW i \in DOMAIN q PROVE q[1].id <= q[i].id
    BY <1>4, <1>7
  <2>1. CASE i = 1
    BY <1>1, <2>1
  <2>2. CASE i # 1
    BY <1>1, <1>4, <2>2 DEF Ordered
  <2> QED
    BY <2>1, <2>2
<1>10. Head(q) \in ToSet(q) /\ ToSet(r) \subseteq ToSet(q)
  BY <1>4, <1>5, <1>7
<1>11. ASSUME NEW x \in ToSet(q) PROVE x = Head(q) \/ x \in ToSet(r)
  <2>1. PICK i \in DOMAIN q : x = q[i]
    BY <1>7
  <2> QED
    BY <1>4, <1>6, <1>7, <2>1
<1> QED
  BY <1>2, <1>8, <1>9, <1>10, <1>11

LEMMA BusyIsNotQueueing ==
  ASSUME Safe, NEW t \in Task, Busy(t)
  PROVE  edit.at # "queueing"
BY DEF Safe, Queueing, Quiet

\* One task has another place, and the queue is as it was.
LEMMA TaskSafe ==
  ASSUME Types, Types', Safe, NEW t \in Task, NEW x, task' = [task EXCEPT ![t] = x],
         edit.at # "queueing", edit' = edit, outbox' = outbox, Wanted' \subseteq Wanted, Held',
         \A d \in dialogs' : d.queued => d.op \in Pool,
         \/ x = task[t]
         \/ /\ x.at \in {"dropping", "marking"} => x.queue = outbox
            /\ ToSet(x.todo) \subseteq Pool /\ Resting(x)
            /\ t \in Runs => RunFits(x, Wanted', Stores)
            /\ ChangeFits(x, Wanted', Stores)
  PROVE  Safe'
<1>1. \A s \in Task : task'[s] = IF s = t THEN x ELSE task[s]
  BY DEF Types
<1>2. Stores' \subseteq Stores
  BY <1>1, StoresOfLess
<1>3. \A s \in Task : ToSet(task'[s].todo) \subseteq Pool
  BY <1>1, PoolIs
<1>4. Queueing'
  BY DEF Queueing
<1> QED
  BY <1>1, <1>2, <1>3, <1>4, SafeOfFewer

LEMMA EndedSafe ==
  ASSUME Types, Types', Safe, NEW t \in Task, Ended(t),
         edit.at # "queueing", edit' = edit, outbox' = outbox, Wanted' \subseteq Wanted, Held',
         \A d \in dialogs' : d.queued => d.op \in Pool
  PROVE  Safe'
<1>1. Off.at = "off" /\ Off.todo = <<>> /\ ToSet(<<>>) = {}
  BY DEF Off, ToSet
<1>2. /\ Resting(Off) /\ RunFits(Off, Wanted', Stores) /\ ChangeFits(Off, Wanted', Stores)
  BY <1>1 DEF Resting, RunFits, ChangeFits, Changes
<1> QED
  BY <1>1, <1>2, TaskSafe DEF Ended

\* A replay moves on from an operation that is not wanted, or no longer.
LEMMA NotWantedFirst ==
  ASSUME Types, Safe, NEW t \in Runs, Sending(t), NEW V \in SUBSET Wanted,
         Head(task[t].todo).text \notin Texts(V)
  PROVE  /\ \A Q \in Stores : \A a \in Q :
              a.text \in Texts(V) => \E b \in ToSet(Tail(task[t].todo)) : b.id = a.id
         /\ \A Q \in Stores : NotBehind(V, Q, Head(task[t].todo).id)
         /\ Ordered(task[t].todo) /\ Ordered(Tail(task[t].todo))
<1>1. PICK todo : todo = task[t].todo
  OBVIOUS
<1>2. t \in Task /\ todo \in Seq(Op(made)) /\ todo # <<>> /\ task[t].at = "sending"
  BY <1>1 DEF Types, Place, Task, Sending
<1>3. /\ Ordered(todo)
      /\ \A Q \in Stores : \A a \in Q : a.text \in Texts(Wanted) => \E b \in ToSet(todo) : b.id = a.id
  BY <1>1, <1>2 DEF Safe, TasksFit, RunFits, Left
<1>4. /\ Head(todo) \in ToSet(todo) /\ \A x \in ToSet(todo) : x = Head(todo) \/ x \in ToSet(Tail(todo))
      /\ Ordered(Tail(todo)) /\ \A x \in ToSet(todo) : Head(todo).id <= x.id
  BY <1>2, <1>3, HeadAndTail
<1>5. Texts(V) \subseteq Texts(Wanted)
  BY TextsOfLess
<1>6. Head(todo) \in Pool
  BY <1>1, <1>2, <1>4, PoolIs
<1>7. ASSUME NEW Q \in Stores, NEW a \in Q, a.text \in Texts(V)
      PROVE  \E b \in ToSet(Tail(todo)) : b.id = a.id
  <2>1. PICK b \in ToSet(todo) : b.id = a.id
    BY <1>3, <1>5, <1>7
  <2>2. a \in Pool
    BY <1>7, PoolIs
  <2>3. b # Head(todo)
    BY <1>1, <1>6, <1>7, <2>1, <2>2 DEF Safe, Agree
  <2> QED
    BY <1>4, <2>1, <2>3
<1>8. ASSUME NEW Q \in Stores PROVE NotBehind(V, Q, Head(todo).id)
  <2> SUFFICES ASSUME NEW a \in Q, a.id < Head(todo).id, a.text \in Texts(V) PROVE FALSE
    BY DEF NotBehind
  <2>1. PICK b \in ToSet(todo) : b.id = a.id
    BY <1>3, <1>5
  <2>2. Head(todo).id <= a.id
    BY <1>4, <2>1
  <2>3. a.id \in Nat /\ Head(todo).id \in Nat
    BY <1>6, PoolIs, OpFields
  <2> QED
    BY <2>2, <2>3
<1> QED
  BY <1>1, <1>3, <1>4, <1>7, <1>8

LEMMA MovesHaveNoText ==
  ASSUME Types, NEW op \in Op(made), op.kind = "move", NEW V \in SUBSET Wanted
  PROVE  op.text \notin Texts(V)
<1>1. op.text = Nothing
  BY OpFields DEF Writes
<1>2. Texts(V) \subseteq 1..made
  BY WantedTexts, TextsOfLess DEF Wanted, Types
<1> QED
  BY <1>1, <1>2, SyncAssumption

LEMMA StartSafe ==
  ASSUME ~Overlap, Types, Types', Safe, NEW t \in Runs, Start(t)
  PROVE  Safe'
<1>1. t \in Task /\ edit.at = "none" /\ task[t].at = "off" /\ task[t].todo = <<>>
  BY DEF Start, Busy, Task, Safe, TasksFit, Resting
<1>2. CASE UNCHANGED task
  BY <1>2, SafeFrame DEF Start, counts, ghosts, Safe, Held
<1>3. CASE At(t, "reading")
  <2>1. PICK x : x = [task[t] EXCEPT !.at = "reading"]
    OBVIOUS
  <2>2. x.at = "reading" /\ x.todo = <<>> /\ task' = [task EXCEPT ![t] = x]
    <3>1. task[t] \in Place(made)
      BY <1>1 DEF Types
    <3> QED
      BY <1>1, <1>3, <2>1, <3>1 DEF At, Place
  <2>3. Resting(x) /\ RunFits(x, Wanted', Stores) /\ ChangeFits(x, Wanted', Stores)
    BY <2>2 DEF Resting, RunFits, ChangeFits, Changes
  <2>4. ToSet(x.todo) \subseteq Pool
    BY <2>2 DEF ToSet
  <2>5. /\ edit' = edit /\ outbox' = outbox /\ Wanted' = Wanted /\ Held'
        /\ \A d \in dialogs' : d.queued => d.op \in Pool
    BY PoolIs DEF Start, counts, ghosts, Wanted, Safe, Held
  <2> QED
    BY <1>1, <2>2, <2>3, <2>4, <2>5, TaskSafe
<1> QED
  BY <1>2, <1>3 DEF Start

LEMMA ReadQueueSafe ==
  ASSUME ~Overlap, Types, Types', Safe, NEW t \in Runs, ReadQueue(t)
  PROVE  Safe'
<1>1. t \in Task /\ task[t].at = "reading" /\ Busy(t)
  BY DEF ReadQueue, Busy, Task
<1>2. edit.at # "queueing"
  BY <1>1, BusyIsNotQueueing
<1>3. /\ edit' = edit /\ outbox' = outbox /\ Wanted' = Wanted /\ Held'
      /\ \A d \in dialogs' : d.queued => d.op \in Pool
  BY PoolIs DEF ReadQueue, counts, ghosts, Wanted, Safe, Held
<1>4. CASE outbox = <<>>
  BY <1>1, <1>2, <1>3, <1>4, EndedSafe DEF ReadQueue
<1>5. CASE outbox # <<>>
  <2>1. PICK x : x = [task[t] EXCEPT !.at = "sending", !.todo = outbox]
    OBVIOUS
  <2>2. x.at = "sending" /\ x.todo = outbox /\ task' = [task EXCEPT ![t] = x]
    <3>1. task[t] \in Place(made)
      BY <1>1 DEF Types
    <3> QED
      BY <1>1, <1>5, <2>1, <3>1 DEF ReadQueue, Place
  <2>3. ToSet(outbox) \in Stores /\ ToSet(outbox) \subseteq Pool
    BY <1>2, PoolIs DEF Stores
  <2>4. Resting(x) /\ ChangeFits(x, Wanted', Stores)
    BY <2>2 DEF Resting, ChangeFits, Changes
  <2>5. ASSUME NEW Q \in Stores, NEW a \in Q, a.text \in Texts(Wanted)
        PROVE  \E b \in ToSet(outbox) : b.id = a.id
    <3>1. PICK w \in Wanted : w[2] = a.text
      BY <2>5 DEF Texts
    <3>2. PICK b \in ToSet(outbox) : b.text = w[2]
      BY <2>3 DEF Safe, AllSound, Sound, Complete
    <3>3. a \in Pool /\ b \in Pool
      BY <2>3, <2>5, PoolIs
    <3> QED
      BY <2>5, <3>1, <3>2, <3>3 DEF Safe, Agree, OfOne
  <2>6. RunFits(x, Wanted', Stores)
    BY <1>3, <2>2, <2>5 DEF RunFits, Left, Types, QueueFits
  <2> QED
    BY <1>1, <1>2, <1>3, <2>2, <2>3, <2>4, <2>6, TaskSafe
<1> QED
  BY <1>4, <1>5

LEMMA SkipSafe ==
  ASSUME ~Overlap, Types, Types', Safe, NEW t \in Runs, Skip(t)
  PROVE  Safe'
<1>1. t \in Task /\ Sending(t) /\ Busy(t) /\ task[t].todo \in Seq(Op(made)) /\ task[t].todo # <<>>
  BY DEF Skip, Sending, Busy, Task, Types, Place
<1>2. edit.at # "queueing"
  BY <1>1, BusyIsNotQueueing
<1>3. /\ edit' = edit /\ outbox' = outbox /\ Wanted' = Wanted /\ Held'
      /\ \A d \in dialogs' : d.queued => d.op \in Pool
  BY PoolIs DEF Skip, counts, ghosts, Wanted, Safe, Held
<1>4. ToSet(task[t].todo) \subseteq Pool /\ ToSet(Tail(task[t].todo)) \subseteq Pool
      /\ Head(task[t].todo) \in Pool
  BY <1>1, PoolIs, HeadAndTail
<1>5. Head(task[t].todo).text \notin Texts(Wanted)
  <2>1. Head(task[t].todo).kind = "move"
    BY <1>4 DEF Skip, Safe, Agree, OnlyMovesFail
  <2> QED
    BY <1>4, <2>1, MovesHaveNoText, PoolIs
<1>6. PICK x : x = [task[t] EXCEPT !.at = "sending", !.todo = Tail(task[t].todo)]
  OBVIOUS
<1>7. x.at = "sending" /\ x.todo = Tail(task[t].todo) /\ task' = [task EXCEPT ![t] = x]
  <2>1. task[t] \in Place(made)
    BY <1>1 DEF Types
  <2> QED
    BY <1>1, <1>6, <2>1 DEF Skip, Onward, Place
<1>8. Resting(x) /\ ChangeFits(x, Wanted', Stores)
  BY <1>7 DEF Resting, ChangeFits, Changes
<1>9. RunFits(x, Wanted', Stores)
  <2>1. /\ \A Q \in Stores : \A a \in Q :
             a.text \in Texts(Wanted) => \E b \in ToSet(Tail(task[t].todo)) : b.id = a.id
        /\ Ordered(Tail(task[t].todo))
    BY <1>1, <1>5, NotWantedFirst
  <2> QED
    BY <1>3, <1>7, <2>1 DEF RunFits, Left
<1> QED
  BY <1>1, <1>2, <1>3, <1>4, <1>7, <1>8, <1>9, TaskSafe

\* What is wanted when the server has held more.
LEMMA LessWantedNow ==
  ASSUME latest' = latest, reached \subseteq reached'
  PROVE  Wanted' \subseteq Wanted
BY DEF Wanted, WantedOf

LEMMA AnsweredSafe ==
  ASSUME ~Overlap, Types, Types', Safe, NEW t \in Runs, Answered(t)
  PROVE  Safe'
<1>1. /\ t \in Task /\ Sending(t) /\ Busy(t) /\ task[t].todo \in Seq(Op(made)) /\ task[t].todo # <<>>
      /\ task[t] \in Place(made)
  BY DEF Answered, Sending, Busy, Task, Types, Place
<1>2. edit.at # "queueing"
  BY <1>1, BusyIsNotQueueing
<1>3. PICK op : op = Head(task[t].todo)
  OBVIOUS
<1>4. op \in Op(made) /\ op \in Pool /\ ToSet(task[t].todo) \subseteq Pool
  BY <1>1, <1>3, PoolIs, HeadAndTail
<1>5. Held' /\ reached \subseteq reached' /\ Handled(op)
  BY <1>3, <1>4, HeldOn DEF Safe, Answered
<1>6. edit' = edit /\ outbox' = outbox /\ latest' = latest /\ Wanted' \subseteq Wanted
  <2>1. edit' = edit /\ outbox' = outbox /\ latest' = latest
    BY DEF Answered
  <2> QED
    BY <1>5, <2>1, LessWantedNow
<1>7. ASSUME NEW at \in {"drop", "mark"}, At(t, at), dialogs' = dialogs, op.text \notin Texts(Wanted'),
             at = "mark" => op.kind = "move"
      PROVE  Safe'
  <2>1. PICK x : x = [task[t] EXCEPT !.at = at]
    OBVIOUS
  <2>2. x.at = at /\ x.todo = task[t].todo /\ task' = [task EXCEPT ![t] = x]
    BY <1>1, <1>7, <2>1 DEF At, Place
  <2>3. /\ \A Q \in Stores : \A a \in Q :
             a.text \in Texts(Wanted') => \E b \in ToSet(Tail(task[t].todo)) : b.id = a.id
        /\ \A Q \in Stores : NotBehind(Wanted', Q, op.id)
        /\ Ordered(task[t].todo)
    BY <1>1, <1>3, <1>6, <1>7, NotWantedFirst
  <2>4. RunFits(x, Wanted', Stores) /\ ChangeFits(x, Wanted', Stores) /\ Resting(x)
    BY <1>3, <1>7, <2>2, <2>3 DEF RunFits, Left, ChangeFits, Resting
  <2>5. \A d \in dialogs' : d.queued => d.op \in Pool
    BY <1>7, PoolIs
  <2>6. x.at \notin {"dropping", "marking"}
    BY <2>2
  <2> QED
    BY <1>1, <1>2, <1>4, <1>5, <1>6, <2>2, <2>4, <2>5, <2>6, TaskSafe
<1>8. CASE ~Refused(op) /\ At(t, "drop") /\ dialogs' = dialogs
  <2>1. op.text \notin Texts(WantedOf(latest, reached'))
    BY <1>4, <1>5, <1>8, SentIsHeld DEF Safe, Types
  <2> QED
    BY <1>6, <1>7, <1>8, <2>1 DEF Wanted
<1>9. CASE dialogs' = Raised(op, TRUE) /\ Ended(t)
  <2>1. \A d \in dialogs' : d.queued => d.op \in Pool
    BY <1>4, <1>9, PoolIs DEF Raised
  <2> QED
    BY <1>1, <1>2, <1>5, <1>6, <1>9, <2>1, EndedSafe
<1>10. CASE op.kind = "move" /\ At(t, "mark") /\ dialogs' = dialogs
  BY <1>4, <1>6, <1>7, <1>10, MovesHaveNoText
<1> QED
  BY <1>3, <1>8, <1>9, <1>10 DEF Answered

LEMMA StoppedSafe ==
  ASSUME ~Overlap, Types, Types', Safe, NEW t \in Runs, Finish(t) \/ Unanswered(t) \/ SignInNeeded(t)
  PROVE  Safe'
<1>1. t \in Task /\ Busy(t) /\ task[t].todo \in Seq(Op(made))
  BY DEF Finish, Unanswered, SignInNeeded, Sending, Busy, Task, Types, Place
<1>2. edit.at # "queueing"
  BY <1>1, BusyIsNotQueueing
<1>3. Ended(t) /\ edit' = edit /\ outbox' = outbox /\ latest' = latest /\ dialogs' = dialogs
  BY DEF Finish, Unanswered, SignInNeeded, ghosts
<1>4. Held' /\ reached \subseteq reached'
  <2>1. CASE UNCHANGED <<files, reached>>
    BY <2>1 DEF Safe, Held
  <2>2. CASE Unanswered(t) /\ Handled(Head(task[t].todo))
    <3>1. Head(task[t].todo) \in Op(made)
      BY <1>1, <2>2, HeadTailProperties DEF Unanswered, Sending
    <3> QED
      BY <2>2, <3>1, HeldOn DEF Safe
  <2> QED
    BY <2>1, <2>2 DEF Finish, Unanswered, SignInNeeded, NotHandled, ghosts
<1>5. Wanted' \subseteq Wanted
  BY <1>3, <1>4, LessWantedNow
<1> QED
  BY <1>1, <1>2, <1>3, <1>4, <1>5, EndedSafe, PoolIs

LEMMA ReadToChangeSafe ==
  ASSUME ~Overlap, Types, Types', Safe, NEW t \in Task, ReadToChange(t)
  PROVE  Safe'
<1>1. task[t] \in Place(made) /\ task[t].at \in {"drop", "mark"} /\ Busy(t)
  BY DEF ReadToChange, Busy, Types
<1>2. edit.at # "queueing"
  BY <1>1, BusyIsNotQueueing
<1>3. /\ edit' = edit /\ outbox' = outbox /\ Wanted' = Wanted /\ Held'
      /\ \A d \in dialogs' : d.queued => d.op \in Pool
  BY PoolIs DEF ReadToChange, counts, ghosts, Wanted, Safe, Held
<1>4. PICK at : at = IF task[t].at = "drop" THEN "dropping" ELSE "marking"
  OBVIOUS
<1>5. PICK x : x = [task[t] EXCEPT !.at = at, !.queue = outbox]
  OBVIOUS
<1>6. /\ x.at = at /\ x.todo = task[t].todo /\ x.queue = outbox /\ task' = [task EXCEPT ![t] = x]
  BY <1>1, <1>4, <1>5 DEF ReadToChange, Place
<1>7. Resting(x) /\ ToSet(x.todo) \subseteq Pool
  BY <1>4, <1>6, PoolIs DEF Resting
<1>8. t \in Runs => RunFits(x, Wanted', Stores)
  <2> SUFFICES ASSUME t \in Runs PROVE RunFits(x, Wanted', Stores)
    OBVIOUS
  <2>1. RunFits(task[t], Wanted, Stores)
    BY DEF Safe, TasksFit
  <2>2. Left(x) = Left(task[t]) /\ task[t].at \in Changes
    BY <1>1, <1>4, <1>6 DEF Left, Changes
  <2> QED
    BY <1>3, <1>6, <2>1, <2>2 DEF RunFits
<1>9. ChangeFits(x, Wanted', Stores)
  <2>1. ChangeFits(task[t], Wanted, Stores)
    BY DEF Safe, TasksFit
  <2> QED
    BY <1>1, <1>3, <1>4, <1>6, <2>1 DEF ChangeFits, Changes
<1> QED
  BY <1>1, <1>2, <1>3, <1>6, <1>7, <1>8, <1>9, TaskSafe

LEMMA WriteBackSafe ==
  ASSUME ~Overlap, Types, Types', Safe, NEW t \in Task, WriteBack(t)
  PROVE  Safe'
<1>1. /\ task[t] \in Place(made) /\ Changing(t) /\ task[t].at \in Changes /\ Busy(t)
      /\ task[t].todo \in Seq(Op(made)) /\ task[t].todo # <<>> /\ QueueFits(made, task[t].queue)
      /\ task \in [Task -> Place(made)]
  BY DEF WriteBack, Busy, Types, Changing, Changes, Place, QueueFits
<1>2. edit.at # "queueing" /\ edit' = edit /\ Wanted' = Wanted /\ Held' /\ dialogs' = dialogs
  BY <1>1, BusyIsNotQueueing DEF WriteBack, counts, ghosts, Wanted, Safe, Held
<1>3. PICK op, Q, R : op = Head(task[t].todo) /\ Q = ToSet(task[t].queue) /\ R = ToSet(outbox')
  OBVIOUS
<1>4. Q \in Stores /\ Sound(Wanted, Q) /\ OpSet(made, Q) /\ Q \subseteq Op(made)
  <2>1. Q \in Stores
    BY <1>1, <1>2, <1>3 DEF Stores
  <2> QED
    BY <2>1, StoresAre DEF Safe, AllSound, OpSet
<1>5. /\ op.text \notin Texts(Wanted) /\ (task[t].at = "marking" => op.kind = "move")
      /\ NotBehind(Wanted, Q, op.id)
  BY <1>1, <1>3, <1>4 DEF Safe, TasksFit, ChangeFits
<1>6. \A a \in Q : a.id = op.id => a.kind = op.kind /\ a.text = op.text
  <2>1. op \in Pool /\ Q \subseteq Pool
    BY <1>1, <1>3, <1>4, PoolIs, HeadAndTail
  <2> QED
    BY <2>1 DEF Safe, Agree
<1>7. Sound(Wanted, R) /\ Among(R, Q)
  <2>1. CASE task[t].at = "dropping" /\ outbox' = Dropped(task[t].queue, op.id)
    <3>1. PICK gone : gone = {a \in Q : a.id = op.id}
      OBVIOUS
    <3>2. R = Q \ gone /\ gone \in SUBSET Q
      BY <1>1, <1>3, <2>1, <3>1, DroppedIs
    <3>3. \A a \in gone : a.text \notin Texts(Wanted) /\ (a.kind = "move" => NotBehind(Wanted, Q, a.id))
      BY <1>5, <1>6, <3>1
    <3> QED
      BY <1>4, <3>2, <3>3, SoundWithout, AmongLess
  <2>2. CASE task[t].at = "marking" /\ outbox' = Marked(task[t].queue, op.id)
    <3>1. R = Marks(Q, op.id)
      BY <1>1, <1>3, <2>2, MarkedIs
    <3>2. \A a \in Q : a.id = op.id => a.kind = "move"
      BY <1>5, <1>6, <2>2
    <3> QED
      BY <1>4, <1>5, <3>1, <3>2, SoundMarked, AmongMarked
  <2> QED
    BY <1>3, <2>1, <2>2 DEF WriteBack
<1>8. PICK x : x = IF t \in Runs THEN [task[t] EXCEPT !.at = "sending", !.todo = Tail(task[t].todo)]
                    ELSE Off
  OBVIOUS
<1>9. /\ task' = [task EXCEPT ![t] = x] /\ x.at = (IF t \in Runs THEN "sending" ELSE "off")
      /\ x.todo = IF t \in Runs THEN Tail(task[t].todo) ELSE <<>>
  BY <1>1, <1>8 DEF WriteBack, Onward, Ended, Off, Place
<1>10. \A s \in Task : task'[s] = IF s = t THEN x ELSE task[s]
  BY <1>1, <1>9
<1>11. ASSUME NEW P \in Stores' PROVE Sound(Wanted', P) /\ \E S \in Stores : Among(P, S)
  <2>1. P = R \/ \E s \in Task : s # t /\ Changing(s) /\ P = ToSet(task[s].queue)
    BY <1>2, <1>3, <1>9, <1>10 DEF Stores, Changing
  <2>2. CASE P = R
    BY <1>2, <1>4, <1>7, <2>2
  <2>3. CASE P \in Stores
    BY <1>2, <2>3, AmongLess DEF Safe, AllSound
  <2> QED
    BY <1>2, <2>1, <2>2, <2>3 DEF Stores
<1>12. \A s \in Task : ToSet(task'[s].todo) \subseteq Pool
  <2>1. ToSet(x.todo) \subseteq Pool
    <3>1. CASE t \in Runs
      BY <1>1, <1>9, <3>1, HeadAndTail, PoolIs
    <3>2. CASE t \notin Runs
      BY <1>9, <3>2 DEF ToSet
    <3> QED
      BY <3>1, <3>2
  <2> QED
    BY <1>10, <2>1, PoolIs
<1>13. ChangeFits(x, Wanted', Stores') /\ Resting(x)
  BY <1>9 DEF ChangeFits, Resting, Changes
<1>14. t \in Runs => RunFits(x, Wanted', Stores')
  <2> SUFFICES ASSUME t \in Runs PROVE RunFits(x, Wanted', Stores')
    OBVIOUS
  <2>1. RunFits(task[t], Wanted, Stores)
    BY DEF Safe, TasksFit
  <2>2. Left(task[t]) = Tail(task[t].todo) /\ Left(x) = Tail(task[t].todo) /\ x.at = "sending"
    BY <1>1, <1>9 DEF Left, Changing
  <2>3. Ordered(task[t].todo) /\ Ordered(Tail(task[t].todo))
    BY <1>1, <2>1, HeadAndTail DEF RunFits
  <2>4. RunFits(x, Wanted, Stores)
    BY <1>1, <1>9, <2>1, <2>2, <2>3 DEF RunFits
  <2> QED
    BY <1>2, <1>11, <2>4, RunFitsAmong
<1>15. Queueing' /\ \A d \in dialogs' : d.queued => d.op \in Pool
  BY <1>2, PoolIs DEF Queueing
<1> QED
  BY <1>2, <1>10, <1>11, <1>12, <1>13, <1>14, <1>15, SafeOfLess

\* A question is settled: the operation it was about, if it is queued, is to be dropped.
LEMMA SettledSafe ==
  ASSUME Types, Types', Safe, NEW d \in dialogs, Settles(d), edit.at # "queueing",
         edit' = edit, outbox' = outbox, dialogs' = dialogs \ {d}, Held',
         Wanted' \subseteq Wanted, d.op.text \notin Texts(Wanted')
  PROVE  Safe'
<1>1. Dialog \in Task /\ Dialog \notin Runs /\ d.op \in Op(made) /\ d.op.kind \in Writes
  BY SyncAssumption DEF Task, Types, Question
<1>2. \A e \in dialogs' : e.queued => e.op \in Pool
  BY PoolIs
<1>3. CASE d.queued
  <2>1. d.op \in Pool
    BY <1>3, PoolIs
  <2>2. PICK x : x = Dropping(d.op)
    OBVIOUS
  <2>3. x.at = "drop" /\ x.todo = <<d.op>> /\ task' = [task EXCEPT ![Dialog] = x]
    BY <1>1, <1>3, <2>2, DroppingFits DEF Settles, Dropping
  <2>4. Head(x.todo) = d.op /\ ToSet(x.todo) \subseteq Pool
    BY <2>1, <2>3 DEF ToSet
  <2>5. ASSUME NEW Q \in Stores PROVE NotBehind(Wanted', Q, d.op.id)
    <3>1. \A c \in Q : c.id = d.op.id => c.kind = d.op.kind
      BY <2>1, PoolIs DEF Safe, Agree
    <3>2. d.op.kind # "move"
      BY <1>1 DEF Writes
    <3> QED
      BY <3>1, <3>2 DEF NotBehind, Moves
  <2>6. ChangeFits(x, Wanted', Stores) /\ Resting(x) /\ x.at \notin {"dropping", "marking"}
    BY <2>3, <2>4, <2>5 DEF ChangeFits, Resting
  <2> QED
    BY <1>1, <1>2, <2>3, <2>4, <2>6, TaskSafe
<1>4. CASE ~d.queued
  <2>1. task' = [task EXCEPT ![Dialog] = task[Dialog]]
    <3>1. task' = task /\ task \in [Task -> Place(made)]
      BY <1>4 DEF Settles, Types
    <3> QED
      BY <3>1
  <2> QED
    BY <1>1, <1>2, <2>1, TaskSafe
<1> QED
  BY <1>3, <1>4

\* A question goes, and nothing else of the device changes.
LEMMA AskedSafe ==
  ASSUME Types, Types', Safe, NEW d \in dialogs, task' = task, edit.at # "queueing",
         edit' = edit, outbox' = outbox, dialogs' = dialogs \ {d}, Held', Wanted' \subseteq Wanted
  PROVE  Safe'
<1>1. Dialog \in Task /\ task' = [task EXCEPT ![Dialog] = task[Dialog]]
  <2>1. task \in [Task -> Place(made)]
    BY DEF Types
  <2> QED
    BY <2>1 DEF Task
<1>2. \A e \in dialogs' : e.queued => e.op \in Pool
  BY PoolIs
<1> QED
  BY <1>1, <1>2, TaskSafe

LEMMA KeepMineSafe ==
  ASSUME ~Overlap, Types, Types', Safe, NEW d \in dialogs, KeepMine(d)
  PROVE  Safe'
<1>1. /\ d.op \in Op(made) /\ d.op.kind \in Writes /\ d.hash \in Int /\ d.op.path \in NotePath
      /\ d.op.text \in 1..made
  <2>1. d.op \in Op(made) /\ d.op.kind \in Writes /\ d.hash \in Int
    BY DEF Types, Question
  <2> QED
    BY <2>1, OpFields
<1>2. /\ edit.at # "queueing" /\ edit' = edit /\ outbox' = outbox /\ dialogs' = dialogs \ {d}
  BY DEF KeepMine, AskedAbout
<1>3. PICK op : op = SaveNote(d.op.path, d.op.text, d.hash)
  OBVIOUS
<1>4. op \in Op(made) /\ op.path = d.op.path /\ op.text = d.op.text
  BY <1>1, <1>3 DEF SaveNote, Write, Op, Writes, Types
<1>5. \/ /\ Handled(op)
         /\ IF Accepted(files, op)
            THEN /\ Settles(d)
                 /\ latest' = IF d.queued THEN latest ELSE Written(latest, op.path, d.op.text)
            ELSE UNCHANGED <<task, latest>>
      \/ NotHandled /\ UNCHANGED <<task, latest>>
      \/ /\ Handled(op) /\ UNCHANGED task
         /\ latest' = IF d.queued \/ ~Accepted(files, op) THEN latest
                      ELSE Written(latest, op.path, d.op.text)
  BY <1>3 DEF KeepMine
<1>6. Held' /\ reached \subseteq reached'
  <2>1. CASE Handled(op)
    BY <1>4, <2>1, HeldOn DEF Safe
  <2>2. CASE NotHandled
    BY <2>2 DEF NotHandled, Safe, Held
  <2> QED
    BY <1>5, <2>1, <2>2
<1>7. CASE UNCHANGED <<task, latest>>
  BY <1>2, <1>6, <1>7, AskedSafe, LessWantedNow
<1>8. CASE /\ Handled(op) /\ Accepted(files, op) /\ (Settles(d) \/ UNCHANGED task)
           /\ latest' = IF d.queued THEN latest ELSE Written(latest, op.path, d.op.text)
  <2>1. d.op.text \in reached'
    <3>1. op.text # Nothing
      BY <1>1, <1>4, SyncAssumption
    <3> QED
      BY <1>4, <1>8, <3>1 DEF Handled
  <2>2. \A p \in DOMAIN latest' : latest'[p] \in reached' \/ (p \in DOMAIN latest /\ latest'[p] = latest[p])
    BY <1>8, <2>1 DEF Written
  <2>3. Wanted' \subseteq Wanted
    BY <1>6, <2>2 DEF Wanted, WantedOf
  <2>4. d.op.text \notin Texts(Wanted')
    BY <2>1, WantedIs DEF Wanted
  <2>5. CASE Settles(d)
    BY <1>2, <1>6, <2>3, <2>4, <2>5, SettledSafe
  <2>6. CASE UNCHANGED task
    BY <1>2, <1>6, <2>3, <2>6, AskedSafe
  <2> QED
    BY <1>8, <2>5, <2>6
<1> QED
  BY <1>5, <1>7, <1>8

LEMMA TheirsSafe ==
  ASSUME ~Overlap, Types, Types', Safe, NEW d \in dialogs, TakeTheirs(d) \/ KeepBoth(d)
  PROVE  Safe'
<1>1. /\ edit.at # "queueing" /\ edit' = edit /\ outbox' = outbox
      /\ dialogs' = dialogs \ {d} /\ files' = files
  BY DEF TakeTheirs, KeepBoth, AskedAbout
<1>2. CASE UNCHANGED <<task, latest, reached>>
  BY <1>1, <1>2, AskedSafe, LessWantedNow DEF Safe, Held
<1>3. ASSUME NEW gone, latest' = GivenUp(latest, d, gone), reached \subseteq reached', Settles(d)
      PROVE  Safe'
  <2>1. \A p \in DOMAIN latest' : p \in DOMAIN latest /\ latest'[p] = latest[p] /\ latest'[p] # d.op.text
    BY <1>3 DEF GivenUp, Restrict
  <2>2. Wanted' \subseteq Wanted
    BY <1>3, <2>1 DEF Wanted, WantedOf
  <2>3. d.op.text \notin Texts(Wanted')
    BY <2>1, WantedIs DEF Wanted, Texts
  <2>4. Held'
    BY <1>1, <1>3 DEF Safe, Held
  <2> QED
    BY <1>1, <1>3, <2>2, <2>3, <2>4, SettledSafe
<1>4. CASE TakeTheirs(d)
  BY <1>3, <1>4 DEF TakeTheirs, Theirs
<1>5. CASE KeepBoth(d)
  BY <1>2, <1>3, <1>5 DEF KeepBoth, Theirs, ghosts
<1> QED
  BY <1>4, <1>5

LEMMA DiscardSafe ==
  ASSUME ~Overlap, Types, Types', Safe, NEW n \in DOMAIN outbox, Discard(n)
  PROVE  Safe'
<1>1. Quiet /\ edit.at = "none" /\ Popover \in Task /\ Popover \notin Runs
  BY SyncAssumption DEF Discard, Task
<1>2. PICK op : op = outbox[n]
  OBVIOUS
<1>3. Stores = {ToSet(outbox)} /\ op \in ToSet(outbox) /\ op.failed
  BY <1>1, <1>2, QuietStore DEF ToSet, Discard
<1>4. Sound(Wanted, ToSet(outbox)) /\ op \in Pool /\ op \in Op(made)
  BY <1>3, PoolIs DEF Safe, AllSound
<1>5. Wanted' \subseteq Wanted
  <2>1. /\ DOMAIN latest \subseteq Places /\ op.to \in NotePath
        /\ latest' = Removed(latest, op.to) /\ reached' = reached
    BY <1>2, <1>4, OpFields DEF Types, LatestFits, Places, Discard
  <2>2. /\ DOMAIN latest' = DOMAIN latest \ {op.to}
        /\ \A p \in DOMAIN latest \ {op.to} : latest'[p] = latest[p]
    BY <2>1, RemovedIs
  <2> QED
    BY <2>1, <2>2 DEF Wanted, WantedOf
<1>6. NotBehind(Wanted', ToSet(outbox), op.id) /\ op.text \notin Texts(Wanted')
  <2>1. op.kind = "move" /\ NotBehind(Wanted, ToSet(outbox), op.id)
    BY <1>3, <1>4 DEF Sound, OnlyMovesFail, NoneBehind
  <2>2. Among(ToSet(outbox), ToSet(outbox))
    BY AmongLess
  <2> QED
    BY <1>4, <1>5, <2>1, <2>2, NotBehindAmong, MovesHaveNoText
<1>7. PICK x : x = Dropping(op)
  OBVIOUS
<1>8. x.at = "drop" /\ x.todo = <<op>> /\ task' = [task EXCEPT ![Popover] = x]
  BY <1>2, <1>4, <1>7, DroppingFits DEF Discard, Dropping
<1>9. Head(x.todo) = op /\ ToSet(x.todo) \subseteq Pool
  BY <1>4, <1>8 DEF ToSet
<1>10. ChangeFits(x, Wanted', Stores) /\ Resting(x) /\ x.at \notin {"dropping", "marking"}
  BY <1>3, <1>6, <1>8, <1>9 DEF ChangeFits, Resting
<1>11. /\ edit' = edit /\ outbox' = outbox /\ Held'
       /\ \A d \in dialogs' : d.queued => d.op \in Pool
  BY PoolIs DEF Discard, counts, Safe, Held
<1> QED
  BY <1>1, <1>5, <1>8, <1>9, <1>10, <1>11, TaskSafe

LEMMA StepSafe ==
  ASSUME ~Overlap
  PROVE  Types /\ Types' /\ Safe /\ [Next]_vars => Safe'
<1> SUFFICES ASSUME Types, Types', Safe, [Next]_vars PROVE Safe'
  OBVIOUS
<1>1. CASE UNCHANGED vars
  BY <1>1, AloneSafe
<1>2. ASSUME NEW op \in Operations, EditLive(op) \/ EditQueued(op) PROVE Safe'
  BY <1>2, EditLiveSafe, EditQueuedSafe
<1>3. CASE Enqueue \/ Prune \/ Probe \/ WentOffline \/ Reload
  BY <1>3, EnqueueSafe, AloneSafe, ReloadSafe
<1>4. ASSUME NEW p \in NotePath, Open(p) \/ Elsewhere(p) PROVE Safe'
  BY <1>4, AloneSafe
<1>5. ASSUME NEW t \in Runs, Run(t) \/ Unanswered(t) \/ SignInNeeded(t) PROVE Safe'
  BY <1>5, StartSafe, ReadQueueSafe, SkipSafe, AnsweredSafe, StoppedSafe DEF Run
<1>6. ASSUME NEW t \in Task, Change(t) PROVE Safe'
  BY <1>6, ReadToChangeSafe, WriteBackSafe DEF Change
<1>7. ASSUME NEW d \in dialogs, KeepMine(d) \/ TakeTheirs(d) \/ KeepBoth(d) PROVE Safe'
  BY <1>7, KeepMineSafe, TheirsSafe
<1>8. ASSUME NEW n \in DOMAIN outbox, Discard(n) PROVE Safe'
  BY <1>8, DiscardSafe
<1> QED
  BY <1>1, <1>2, <1>3, <1>4, <1>5, <1>6, <1>7, <1>8 DEF Next

LEMMA SafeKeepsTexts == Types /\ Safe => TextNeverLost
<1> SUFFICES ASSUME Types, Safe, NEW p \in DOMAIN latest, latest[p] \notin reached
             PROVE  \/ \E n \in DOMAIN outbox : outbox[n].text = latest[p]
                    \/ edit.at # "none" /\ edit.op.text = latest[p]
  BY DEF TextNeverLost
<1>1. PICK w \in Wanted : w[2] = latest[p]
  BY WantedIs DEF Wanted
<1>2. \A Q \in Stores : \E a \in Q : a.text = latest[p]
  BY <1>1 DEF Safe, AllSound, Sound, Complete
<1>3. CASE edit.at = "queueing"
  <2>1. edit.op \in Op(made) /\ QueueFits(made, outbox)
    BY <1>3 DEF Types
  <2>2. PICK new : new = Numbered(edit.op, NextId(outbox))
    OBVIOUS
  <2>3. Stores = {ToSet(outbox) \cup {new}} /\ new.text = edit.op.text
    BY <1>3, <2>1, <2>2, WholeIs, NumberedIs DEF Stores
  <2> QED
    BY <1>2, <1>3, <2>3 DEF ToSet
<1>4. CASE edit.at # "queueing"
  <2>1. ToSet(outbox) \in Stores
    BY <1>4 DEF Stores
  <2>2. PICK a \in ToSet(outbox) : a.text = latest[p]
    BY <1>2, <2>1
  <2> QED
    BY <2>2 DEF ToSet
<1> QED
  BY <1>3, <1>4

\* Whatever is lost on the way - requests, answers, the page - what the person last wrote
\* is on the server, in the stored queue or on its way there, however many replays are
\* under way, however the queue is compacted, and whichever changes are refused, dropped
\* and discarded ("recorded here as an operation to replay later", queue.rs:3-4).  The
\* person's operations must not overlap with a replay or an answer: where they do, a
\* write-back of the queue loses what was queued since it was read.
THEOREM NothingWrittenIsLost ==
  ASSUME ~Overlap
  PROVE  Spec => []TextNeverLost
<1>1. Types /\ Types' /\ Safe /\ [Next]_vars => Safe'
  BY StepSafe
<1>2. Spec => []Safe
  <2>1. []Types /\ Init /\ [][Next]_vars => []Safe
    BY <1>1, InitSafe, PTL
  <2> QED
    BY <2>1, TypesAlways, PTL DEF Spec
<1> QED
  BY <1>2, TypesAlways, SafeKeepsTexts, PTL

-----------------------------------------------------------------------------
(***************************************************************************)
(* A compact queue, which compaction leaves as it is.                      *)
(***************************************************************************)
\* Between a write and a later save or delete at its path the note has been moved, or,
\* if it is a save, deleted.
Compact(Q) ==
  \A a, b \in Q :
    a.kind \in Writes /\ b.kind \in {"save", "delete"} /\ b.path = a.path /\ a.id < b.id
    => \E c \in Q : /\ a.id < c.id /\ c.id < b.id /\ Ends(c, a.path)
                    /\ b.kind = "delete" => Moves(c, a.path)

Joins(R, Q, op) == Added(R, Q, op) \/ Merged(R, Q, op) \/ Cancels(R, Q, op)

\* A part of it that leaves out nothing between two of its operations.
LEMMA CompactPart ==
  ASSUME NEW Q, Compact(Q), NEW R \in SUBSET Q,
         \A a, b \in R : \A c \in Q : a.id < c.id /\ c.id < b.id => c \in R
  PROVE  Compact(R)
<1> SUFFICES ASSUME NEW a \in R, NEW b \in R, a.kind \in Writes, b.kind \in {"save", "delete"},
                    b.path = a.path, a.id < b.id
             PROVE  \E c \in R : /\ a.id < c.id /\ c.id < b.id /\ Ends(c, a.path)
                                 /\ b.kind = "delete" => Moves(c, a.path)
  BY DEF Compact
<1>1. PICK c \in Q : /\ a.id < c.id /\ c.id < b.id /\ Ends(c, a.path)
                     /\ b.kind = "delete" => Moves(c, a.path)
  BY DEF Compact
<1> QED
  BY <1>1

LEMMA EndsIs ==
  ASSUME NEW n, NEW op \in Op(n), NEW path, Ends(op, path)
  PROVE  op.kind \notin Writes /\ Touches(op, path)
BY TouchesIs DEF Ends, Moves, Writes

\* One more operation, compacted with it, leaves it compact.
LEMMA CompactMore ==
  ASSUME NEW n, NEW Q \in SUBSET Op(n), NEW op \in Op(n), \A x \in Q : x.id < op.id,
         Compact(Q), NEW R, Joins(R, Q, op)
  PROVE  Compact(R)
<1>1. \A x \in Q \cup {op} : x \in Op(n) /\ x.id \in Nat
  BY OpFields
<1> DEFINE Parts(a, b, S) == \E c \in S : /\ a.id < c.id /\ c.id < b.id /\ Ends(c, a.path)
                                          /\ b.kind = "delete" => Moves(c, a.path)
<1>2. ASSUME NEW a \in Q, NEW b \in Q, a.kind \in Writes, b.kind \in {"save", "delete"},
             b.path = a.path, a.id < b.id
      PROVE  Parts(a, b, Q)
  BY <1>2 DEF Compact
<1>3. \A c \in Q : \A path : Ends(c, path) => c.kind \notin Writes
  BY EndsIs
<1> SUFFICES ASSUME NEW a \in R, NEW b \in R, a.kind \in Writes, b.kind \in {"save", "delete"},
                    b.path = a.path, a.id < b.id
             PROVE  Parts(a, b, R)
  BY DEF Compact
<1>4. CASE Added(R, Q, op)
  <2>1. R = Q \cup {op} /\ Free(Q, op)
    BY <1>4 DEF Added
  <2>2. a \in Q
    BY <1>1, <2>1
  <2>3. CASE b \in Q
    BY <1>2, <2>1, <2>2, <2>3
  <2>4. CASE b = op
    <3>1. b.kind = "save"
      BY <2>1, <2>4 DEF Free
    <3>2. PICK c \in Q : a.id < c.id /\ Ends(c, a.path)
      BY <2>1, <2>2, <2>4, <3>1 DEF Free
    <3> QED
      BY <2>1, <2>4, <3>1, <3>2
  <2> QED
    BY <2>1, <2>3, <2>4
<1>5. CASE Merged(R, Q, op)
  <2>1. PICK at \in Q : /\ op.kind = "save" /\ at.kind \in Writes
                        /\ R = (Q \ {at}) \cup {Retexted(at, op.text)}
    BY <1>5 DEF Merged
  <2>2. op.text \in 1..n
    BY <2>1, OpFields DEF Writes
  <2>3. PICK new : new = Retexted(at, op.text)
    OBVIOUS
  <2>4. new.id = at.id /\ new.path = at.path /\ new.kind = at.kind
    BY <2>1, <2>2, <2>3, RetextedIs
  <2>5. \A x \in R : \E y \in Q : y.id = x.id /\ y.path = x.path /\ y.kind = x.kind
    BY <2>1, <2>3, <2>4
  <2>6. PICK x \in Q, y \in Q : /\ x.id = a.id /\ x.path = a.path /\ x.kind = a.kind
                                /\ y.id = b.id /\ y.path = b.path /\ y.kind = b.kind
    BY <2>5
  <2>7. PICK c \in Q : /\ x.id < c.id /\ c.id < y.id /\ Ends(c, x.path)
                       /\ y.kind = "delete" => Moves(c, x.path)
    BY <1>2, <2>6
  <2>8. c \in R
    BY <1>3, <2>1, <2>7
  <2> QED
    BY <2>6, <2>7, <2>8
<1>6. CASE Cancels(R, Q, op)
  <2>1. PICK gone \in SUBSET Q :
          /\ op.kind = "delete" /\ \A x \in gone : x.kind \in Writes
          /\ Cleared(Q, gone, op)
          /\ R = Q \ gone \/ R = (Q \ gone) \cup {op}
    BY <1>6 DEF Cancels
  <2>2. a \in Q \ gone
    BY <1>1, <2>1
  <2>3. \A c \in Q : \A path : Ends(c, path) => c \in R
    BY <1>3, <2>1
  <2>4. CASE b \in Q
    <3>1. Parts(a, b, Q)
      BY <1>2, <2>2, <2>4
    <3> QED
      BY <2>3, <3>1
  <2>5. CASE b = op
    <3>1. PICK c \in Q : a.id < c.id /\ Moves(c, a.path)
      BY <2>1, <2>2, <2>5 DEF Cleared
    <3> QED
      BY <2>3, <2>5, <3>1 DEF Ends
  <2> QED
    BY <2>1, <2>4, <2>5
<1> QED
  BY <1>4, <1>5, <1>6 DEF Joins

\* And if it stays compact as it is, nothing is compacted.
LEMMA CompactSame ==
  ASSUME NEW n, NEW Q \in SUBSET Op(n), NEW op \in Op(n), \A x \in Q : x.id < op.id,
         Compact(Q \cup {op}), NEW R, Joins(R, Q, op)
  PROVE  R = Q \cup {op}
<1>1. \A x \in Q \cup {op} : x \in Op(n) /\ x.id \in Nat
  BY OpFields
<1>2. ASSUME NEW a \in Q, a.kind \in Writes, op.kind \in {"save", "delete"}, a.path = op.path
      PROVE  \E c \in Q : a.id < c.id /\ Ends(c, op.path) /\ (op.kind = "delete" => Moves(c, op.path))
  <2>1. PICK c \in Q \cup {op} : /\ a.id < c.id /\ c.id < op.id /\ Ends(c, a.path)
                                 /\ op.kind = "delete" => Moves(c, a.path)
    BY <1>2 DEF Compact
  <2>2. c # op
    BY <1>1, <2>1
  <2> QED
    BY <1>2, <2>1, <2>2
<1>3. CASE Merged(R, Q, op)
  <2>1. PICK at \in Q : /\ op.kind = "save" /\ at.kind \in Writes /\ at.path = op.path
                        /\ \A c \in Q : at.id < c.id => ~Touches(c, op.path)
    BY <1>3 DEF Merged
  <2>2. PICK c \in Q : at.id < c.id /\ Ends(c, op.path)
    BY <1>2, <2>1
  <2> QED
    BY <2>1, <2>2, EndsIs
<1>4. CASE Cancels(R, Q, op)
  <2>1. PICK gone \in SUBSET Q :
          /\ op.kind = "delete"
          /\ \A a \in gone : /\ a.kind \in Writes /\ a.path = op.path
                             /\ \A c \in Q : a.id < c.id => ~Moves(c, op.path)
          /\ (gone # {} /\ R = Q \ gone) \/ R = (Q \ gone) \cup {op}
    BY <1>4 DEF Cancels
  <2>2. \A a \in gone : FALSE
    BY <1>2, <2>1
  <2> QED
    BY <2>1, <2>2
<1> QED
  BY <1>3, <1>4 DEF Joins, Added

LEMMA CoalesceLast ==
  ASSUME NEW n, NEW q \in Seq(Op(n)), Ordered(q), Compact(ToSet(q)), NEW op \in Op(n),
         \A x \in ToSet(q) : x.id < op.id, NEW R, R = ToSet(Coalesce(Append(q, op)))
  PROVE  Joins(R, ToSet(q), op) /\ Compact(R)
<1>1. /\ Len(q) \in Nat /\ DOMAIN q = 1..Len(q)
      /\ \A i \in 1..Len(q) : q[i] \in ToSet(q) /\ q[i] \in Op(n) /\ q[i].id \in Nat
  BY ToSetOf, ElementOfSeq, OpFields
<1>2. PICK ops : ops = Append(q, op)
  OBVIOUS
<1>3. /\ ops \in Seq(Op(n)) /\ Len(ops) = Len(q) + 1
      /\ \A i \in 1..Len(q) : ops[i] = q[i]
  BY <1>1, <1>2, AppendProperties
<1>10. ops[Len(q) + 1] = op
  BY <1>2, AppendProperties
<1>4. PICK g : /\ g[0] = <<>> /\ g[Len(ops)] = Coalesce(ops)
               /\ \A k \in 0..(Len(ops) - 1) : g[k + 1] = Compacted(g[k], ops[k + 1])
  BY <1>3, CoalesceSteps
<1> DEFINE First(k) == {q[i] : i \in 1..k}
<1>5. ToSet(q) = First(Len(q))
  BY <1>1 DEF ToSet
<1>6. PICK P : P = {k \in 0..Len(q) : g[k] \in Seq(Op(n)) /\ Ordered(g[k]) /\ ToSet(g[k]) = First(k)}
  OBVIOUS
<1>7. 0 \in P
  <2>1. DOMAIN <<>> = {} /\ First(0) = {}
    OBVIOUS
  <2>2. <<>> \in Seq(Op(n)) /\ Ordered(<<>>) /\ ToSet(<<>>) = First(0)
    BY <2>1, EmptySeq DEF Ordered, ToSet
  <2>3. 0 \in 0..Len(q) /\ g[0] \in Seq(Op(n)) /\ Ordered(g[0]) /\ ToSet(g[0]) = First(0)
    BY <1>1, <1>4, <2>2
  <2> HIDE DEF First
  <2> QED
    BY <1>6, <2>3
<1>8. ASSUME NEW k \in 0..(Len(q) - 1), k \in P PROVE k + 1 \in P
  <2>1. k + 1 \in 1..Len(q) /\ k + 1 \in 0..Len(q) /\ k \in 0..(Len(ops) - 1)
    BY <1>1, <1>3
  <2>2. PICK new : new = q[k + 1]
    OBVIOUS
  <2>3. g[k + 1] = Compacted(g[k], new) /\ new \in Op(n) /\ new \in ToSet(q)
    BY <1>1, <1>3, <1>4, <2>1, <2>2
  <2>4. g[k] \in Seq(Op(n)) /\ Ordered(g[k]) /\ ToSet(g[k]) = First(k)
    BY <1>6, <1>8
  <2>5. First(k) \subseteq ToSet(q) /\ First(k) \subseteq Op(n) /\ First(k + 1) = First(k) \cup {new}
    <3>1. 1..(k + 1) = 1..k \cup {k + 1} /\ \A i \in 1..k : i \in 1..Len(q)
      BY <1>1, <2>1
    <3> QED
      BY <1>1, <2>2, <3>1
  <2>6. ASSUME NEW i \in 1..k PROVE q[i].id < new.id
    <3>1. i \in DOMAIN q /\ k + 1 \in DOMAIN q /\ i < k + 1
      BY <1>1, <2>1
    <3> QED
      BY <2>2, <3>1 DEF Ordered
  <2>7. \A x \in First(k) : x.id < new.id
    BY <2>6
  <2>8. ASSUME NEW c \in ToSet(q), c.id < new.id PROVE c \in First(k)
    <3>1. PICK i \in 1..Len(q) : c = q[i]
      BY ToSetOf
    <3>2. ~(k + 1 < i) /\ i # k + 1
      <4>1. k + 1 \in DOMAIN q /\ i \in DOMAIN q /\ c.id \in Nat /\ new.id \in Nat
        BY <1>1, <2>1, <2>2, <3>1
      <4> QED
        BY <2>2, <2>8, <3>1, <4>1 DEF Ordered
    <3>3. i \in 1..k
      BY <1>1, <2>1, <3>2
    <3> QED
      BY <3>1, <3>3
  <2>9. Compact(First(k) \cup {new})
    <3>1. First(k) \cup {new} \in SUBSET ToSet(q)
      BY <2>3, <2>5
    <3>2. ASSUME NEW a \in First(k) \cup {new}, NEW b \in First(k) \cup {new}, NEW c \in ToSet(q),
                 a.id < c.id, c.id < b.id
          PROVE  c \in First(k)
      <4>1. b.id <= new.id /\ b.id \in Nat /\ c.id \in Nat /\ new.id \in Nat
        <5>1. \A x \in ToSet(q) : x.id \in Nat
          BY <1>1, ToSetOf
        <5> QED
          BY <2>7, <3>1, <5>1
      <4>2. c.id < new.id
        BY <3>2, <4>1
      <4> QED
        BY <2>8, <4>2
    <3> HIDE DEF First
    <3> QED
      BY <3>1, <3>2, CompactPart
  <2>10. PICK r : r = g[k + 1]
    OBVIOUS
  <2>11. r \in Seq(Op(n)) /\ Ordered(r) /\ Joins(ToSet(r), ToSet(g[k]), new)
    BY <2>3, <2>4, <2>7, <2>10, CompactedIs DEF Joins
  <2>12. ToSet(r) = First(k) \cup {new}
    <3> HIDE DEF First
    <3> QED
      BY <2>3, <2>4, <2>5, <2>7, <2>9, <2>11, CompactSame
  <2> QED
    BY <1>6, <2>1, <2>5, <2>10, <2>11, <2>12
<1>9. Len(q) \in P
  <2> HIDE DEF First
  <2> QED
    BY <1>1, <1>7, <1>8, Reaches
<1>11. g[Len(q)] \in Seq(Op(n)) /\ Ordered(g[Len(q)]) /\ ToSet(g[Len(q)]) = ToSet(q)
  BY <1>5, <1>6, <1>9
<1>12. Coalesce(ops) = Compacted(g[Len(q)], op)
  <2>1. Len(q) \in 0..(Len(ops) - 1)
    BY <1>1, <1>3
  <2> QED
    BY <1>3, <1>4, <1>10, <2>1
<1>13. Joins(R, ToSet(q), op)
  BY <1>2, <1>11, <1>12, CompactedIs DEF Joins
<1>14. Compact(R)
  <2>1. ToSet(q) \in SUBSET Op(n)
    BY ToSetOf
  <2> QED
    BY <1>13, <2>1, CompactMore
<1> QED
  BY <1>13, <1>14

-----------------------------------------------------------------------------
(***************************************************************************)
(* What a queue, as a set of operations with distinct ids, makes of the    *)
(* notes when it is replayed in the order of its ids and no move is        *)
(* refused.  The notes are a function from the paths to {text}, or {} if   *)
(* there is no note.                                                       *)
(***************************************************************************)
Notes == [NotePath -> SUBSET Int]
Shows(v) == [p \in NotePath |-> IF p \in DOMAIN v THEN {v[p]} ELSE {}]

Goes(op, m) == op.kind = "move" => m[op.path] # {} /\ m[op.to] = {}
StepOf(op, m) ==
  CASE op.kind = "move"   -> [m EXCEPT ![op.to] = m[op.path], ![op.path] = {}]
    [] op.kind = "delete" -> [m EXCEPT ![op.path] = {}]
    [] OTHER              -> [m EXCEPT ![op.path] = {op.text}]

\* The operation of an id takes x to y; where there is none y is x.
Stepped(Q, i, x, y) ==
  /\ \A a \in Q : a.id = i => Goes(a, x) /\ y = StepOf(a, x)
  /\ (\A a \in Q : a.id # i) => y = x
Replay(Q, n, r, m) ==
  r \in [0..n -> Notes] /\ r[0] = m /\ \A i \in 0..(n - 1) : Stepped(Q, i, r[i], r[i + 1])

\* However far such a replay goes, all of L is then as L says.
AsIn(m, L) == \A p \in DOMAIN L : m[p] = {L[p]}
Leads(m, Q, L) ==
  \A n \in Nat : \A r : Replay(Q, n, r, m) /\ (\A a \in Q : a.id < n) => AsIn(r[n], L)

LEMMA StepIs ==
  ASSUME NEW n, NEW op \in Op(n), NEW m \in Notes
  PROVE  /\ StepOf(op, m) \in Notes
         /\ \A p \in NotePath : p # op.path /\ ~Moves(op, p) => StepOf(op, m)[p] = m[p]
         /\ op.kind = "delete" => StepOf(op, m)[op.path] = {}
         /\ op.kind \in Writes => StepOf(op, m)[op.path] = {op.text}
         /\ op.kind = "move" /\ op.path # op.to
              => StepOf(op, m)[op.path] = {} /\ StepOf(op, m)[op.to] = m[op.path]
<1>1. /\ op.path \in NotePath /\ op.to \in NotePath
      /\ op.kind \in {"save", "create", "delete", "move"}
      /\ op.kind \in Writes => op.text \in Int
  BY OpFields
<1>2. m \in [NotePath -> SUBSET Int]
  BY DEF Notes
<1>3. PICK w : w = StepOf(op, m)
  OBVIOUS
<1>4. CASE op.kind = "move"
  <2>1. w = [m EXCEPT ![op.to] = m[op.path], ![op.path] = {}]
    BY <1>3, <1>4 DEF StepOf
  <2>2. w \in [NotePath -> SUBSET Int]
    BY <1>1, <1>2, <2>1
  <2>3. \A p \in NotePath : p # op.path /\ p # op.to => w[p] = m[p]
    BY <1>1, <1>2, <2>1
  <2>4. op.path # op.to => w[op.path] = {} /\ w[op.to] = m[op.path]
    BY <1>1, <1>2, <2>1
  <2> QED
    BY <1>3, <1>4, <2>2, <2>3, <2>4 DEF Notes, Moves, Writes
<1>5. CASE op.kind = "delete"
  <2>1. w = [m EXCEPT ![op.path] = {}]
    BY <1>3, <1>5 DEF StepOf
  <2>2. w \in [NotePath -> SUBSET Int] /\ w[op.path] = {}
        /\ \A p \in NotePath : p # op.path => w[p] = m[p]
    BY <1>1, <1>2, <2>1
  <2> QED
    BY <1>3, <1>5, <2>2 DEF Notes, Writes
<1>6. CASE op.kind \in Writes
  <2>1. w = [m EXCEPT ![op.path] = {op.text}]
    BY <1>3, <1>6 DEF StepOf, Writes
  <2>2. w \in [NotePath -> SUBSET Int] /\ w[op.path] = {op.text}
        /\ \A p \in NotePath : p # op.path => w[p] = m[p]
    BY <1>1, <1>2, <1>6, <2>1
  <2> QED
    BY <1>3, <1>6, <2>2 DEF Notes, Writes
<1> QED
  BY <1>1, <1>4, <1>5, <1>6 DEF Writes

LEMMA Goings ==
  ASSUME NEW n, NEW op \in Op(n), NEW m, Goes(op, m), op.kind = "move"
  PROVE  m[op.path] # {} /\ m[op.to] = {} /\ op.path # op.to
BY DEF Goes

\* Where there is no operation nothing changes.
LEMMA ReplayStill ==
  ASSUME NEW Q, NEW n \in Nat, NEW r, NEW m, Replay(Q, n, r, m), NEW i \in 0..n, NEW j \in i..n,
         \A a \in Q : a.id \notin i..(j - 1)
  PROVE  r[j] = r[i]
<1>1. PICK P : P = {k \in 0..(j - i) : r[i + k] = r[i]}
  OBVIOUS
<1>2. 0 \in P
  BY <1>1
<1>3. ASSUME NEW k \in 0..((j - i) - 1), k \in P PROVE k + 1 \in P
  <2>1. i + k \in 0..(n - 1) /\ i + k \in i..(j - 1) /\ (i + k) + 1 = i + (k + 1) /\ k + 1 \in 0..(j - i)
    OBVIOUS
  <2>2. Stepped(Q, i + k, r[i + k], r[(i + k) + 1])
    BY <2>1 DEF Replay
  <2>3. r[(i + k) + 1] = r[i + k]
    BY <2>1, <2>2 DEF Stepped
  <2> QED
    BY <1>1, <1>3, <2>1, <2>3
<1>4. j - i \in Nat
  OBVIOUS
<1>5. j - i \in P
  BY <1>2, <1>3, <1>4, Reaches
<1>6. i + (j - i) = j
  OBVIOUS
<1> QED
  BY <1>1, <1>5, <1>6

\* A replay goes on, with nothing left.
LEMMA ReplayLonger ==
  ASSUME NEW Q, NEW n \in Nat, NEW r, NEW m, Replay(Q, n, r, m), \A a \in Q : a.id \in Nat /\ a.id < n,
         NEW k \in Nat, k >= n
  PROVE  \E s : Replay(Q, k, s, m) /\ s[k] = r[n]
<1>1. PICK s : s = [i \in 0..k |-> IF i <= n THEN r[i] ELSE r[n]]
  OBVIOUS
<1>2. r \in [0..n -> Notes] /\ r[0] = m
  BY DEF Replay
<1>3. s \in [0..k -> Notes]
  <2>1. \A i \in 0..k : (i <= n => i \in 0..n) /\ n \in 0..n
    OBVIOUS
  <2> QED
    BY <1>1, <1>2, <2>1
<1>4. s[0] = m /\ s[k] = r[n]
  BY <1>1, <1>2
<1>5. ASSUME NEW i \in 0..(k - 1) PROVE Stepped(Q, i, s[i], s[i + 1])
  <2>1. i \in 0..k /\ i + 1 \in 0..k
    OBVIOUS
  <2>2. CASE i < n
    <3>1. s[i] = r[i] /\ s[i + 1] = r[i + 1] /\ i \in 0..(n - 1)
      BY <1>1, <2>1, <2>2
    <3> QED
      BY <3>1 DEF Replay
  <2>3. CASE ~(i < n)
    <3>1. s[i] = r[n] /\ s[i + 1] = r[n]
      BY <1>1, <2>1, <2>3
    <3>2. \A a \in Q : a.id # i
      BY <2>3
    <3> QED
      BY <3>1, <3>2 DEF Stepped
  <2> QED
    BY <2>2, <2>3
<1> QED
  BY <1>3, <1>4, <1>5 DEF Replay

\* A replay of another queue beside one, within G.
LEMMA Beside ==
  ASSUME NEW Q, NEW n \in Nat, NEW m, NEW G, \A i \in 0..n : G[i] \subseteq Notes, m \in G[0],
         \A i \in 0..(n - 1) : \A x \in G[i] : \E y \in G[i + 1] : Stepped(Q, i, x, y)
  PROVE  \E r : Replay(Q, n, r, m) /\ r[n] \in G[n]
<1> DEFINE Goal(k, r) == /\ r \in [0..k -> Notes] /\ r[0] = m /\ r[k] \in G[k]
                         /\ \A i \in 0..(k - 1) : Stepped(Q, i, r[i], r[i + 1])
<1>1. PICK P : P = {k \in 0..n : \E r : Goal(k, r)}
  OBVIOUS
<1>2. 0 \in P
  <2>1. Goal(0, [i \in 0..0 |-> m])
    <3>1. m \in Notes /\ 0 \in 0..0 /\ 0..(0 - 1) = {}
      OBVIOUS
    <3> QED
      BY <3>1
  <2>2. 0 \in 0..n
    OBVIOUS
  <2> HIDE DEF Goal
  <2> QED
    BY <1>1, <2>1, <2>2
<1>3. ASSUME NEW k \in 0..(n - 1), k \in P PROVE k + 1 \in P
  <2>1. PICK r : Goal(k, r)
    BY <1>1, <1>3
  <2>2. PICK y \in G[k + 1] : Stepped(Q, k, r[k], y)
    BY <2>1
  <2>3. PICK s : s = [i \in 0..(k + 1) |-> IF i = k + 1 THEN y ELSE r[i]]
    OBVIOUS
  <2>4. k + 1 \in 0..n /\ y \in Notes
    BY <2>2
  <2>5. \A i \in 0..(k + 1) : i # k + 1 => i \in 0..k
    OBVIOUS
  <2>6. s \in [0..(k + 1) -> Notes] /\ s[0] = m /\ s[k + 1] = y
    BY <2>1, <2>3, <2>4, <2>5
  <2>7. ASSUME NEW i \in 0..((k + 1) - 1) PROVE Stepped(Q, i, s[i], s[i + 1])
    <3>1. i \in 0..k /\ i # k + 1 /\ i \in 0..(k + 1) /\ i + 1 \in 0..(k + 1)
      OBVIOUS
    <3>2. s[i] = r[i]
      BY <2>3, <3>1
    <3>3. CASE i = k
      BY <2>2, <2>3, <3>1, <3>2, <3>3
    <3>4. CASE i # k
      <4>1. i \in 0..(k - 1) /\ i + 1 # k + 1
        BY <3>1, <3>4
      <4>2. s[i + 1] = r[i + 1]
        BY <2>3, <3>1, <4>1
      <4> QED
        BY <2>1, <3>2, <4>1, <4>2
    <3> QED
      BY <3>3, <3>4
  <2>8. Goal(k + 1, s)
    BY <2>2, <2>6, <2>7
  <2> QED
    BY <1>1, <2>4, <2>8
<1>4. n \in P
  <2> HIDE DEF Goal
  <2> QED
    BY <1>2, <1>3, Reaches
<1> QED
  BY <1>1, <1>4 DEF Replay

LEMMA LeadsNow ==
  ASSUME NEW m \in Notes, NEW L
  PROVE  Leads(m, {}, L) <=> AsIn(m, L)
<1>1. ASSUME Leads(m, {}, L) PROVE AsIn(m, L)
  <2>1. PICK r : r = [i \in 0..0 |-> m]
    OBVIOUS
  <2>2. Replay({}, 0, r, m) /\ r[0] = m
    <3>1. 0..(0 - 1) = {} /\ 0 \in 0..0
      OBVIOUS
    <3> QED
      BY <2>1, <3>1 DEF Replay
  <2> QED
    BY <1>1, <2>2 DEF Leads
<1>2. ASSUME AsIn(m, L), NEW n \in Nat, NEW r, Replay({}, n, r, m) PROVE AsIn(r[n], L)
  <2>1. r[n] = r[0]
    <3>1. 0 \in 0..n /\ n \in 0..n
      OBVIOUS
    <3> QED
      BY <1>2, <3>1, ReplayStill
  <2> QED
    BY <1>2, <2>1 DEF Replay
<1> QED
  BY <1>1, <1>2 DEF Leads

LEMMA LeadsLess ==
  ASSUME NEW m, NEW Q, NEW L, Leads(m, Q, L), NEW K, DOMAIN K \subseteq DOMAIN L,
         \A p \in DOMAIN K : K[p] = L[p]
  PROVE  Leads(m, Q, K)
BY DEF Leads, AsIn

-----------------------------------------------------------------------------
(***************************************************************************)
(* The first operation of a queue is sent.                                 *)
(***************************************************************************)
IsFirst(h, Q) == h \in Q /\ \A x \in Q : h.id <= x.id

LEMMA FirstIs ==
  ASSUME NEW n, NEW Q, OpSet(n, Q), NEW h, IsFirst(h, Q)
  PROVE  /\ h \in Op(n) /\ h.id \in Nat /\ OpSet(n, Q \ {h})
         /\ \A x \in Q \ {h} : x.id \in Nat /\ h.id < x.id
<1>1. \A x \in Q : x \in Op(n) /\ x.id \in Nat
  BY OpFields DEF OpSet
<1>2. OpSet(n, Q \ {h})
  BY DEF OpSet
<1>3. \A x \in Q \ {h} : x.id # h.id
  BY DEF OpSet, IsFirst
<1> QED
  BY <1>1, <1>2, <1>3 DEF IsFirst

LEMMA OfThatId ==
  ASSUME NEW n, NEW Q, OpSet(n, Q), NEW a \in Q, NEW x, NEW y, Goes(a, x), y = StepOf(a, x)
  PROVE  Stepped(Q, a.id, x, y)
BY DEF OpSet, Stepped

\* What it leads to is what the rest does after it.
LEMMA LeadsFirst ==
  ASSUME NEW n, NEW Q, OpSet(n, Q), NEW h, IsFirst(h, Q), NEW m \in Notes, NEW L
  PROVE  /\ Leads(m, Q, L) /\ Goes(h, m) => Leads(StepOf(h, m), Q \ {h}, L)
         /\ (Goes(h, m) => Leads(StepOf(h, m), Q \ {h}, L)) => Leads(m, Q, L)
<1>1. /\ h \in Op(n) /\ h.id \in Nat /\ h \in Q
      /\ \A x \in Q \ {h} : x.id \in Nat /\ h.id < x.id
  BY FirstIs DEF IsFirst
<1>2. PICK w, R, at : w = StepOf(h, m) /\ R = Q \ {h} /\ at = h.id
  OBVIOUS
<1>3. w \in Notes
  BY <1>1, <1>2, StepIs
<1>4. at \in Nat /\ \A a \in Q : a.id \in Nat /\ (a.id < at => FALSE) /\ (a # h => a \in R /\ a.id # at)
  BY <1>1, <1>2
<1>5. ASSUME Leads(m, Q, L), Goes(h, m), NEW k \in Nat, NEW s, Replay(R, k, s, w), \A a \in R : a.id < k
      PROVE  AsIn(s[k], L)
  <2>1. PICK l \in Nat : l >= k /\ l > at
    <3>1. k + at + 1 \in Nat /\ k + at + 1 >= k /\ k + at + 1 > at
      BY <1>4
    <3> QED
      BY <3>1
  <2>2. PICK r : Replay(R, l, r, w) /\ r[l] = s[k]
    <3>1. \A a \in R : a.id \in Nat
      BY <1>1, <1>2
    <3> QED
      BY <1>5, <2>1, <3>1, ReplayLonger
  <2>3. r \in [0..l -> Notes] /\ r[0] = w /\ \A i \in 0..(l - 1) : Stepped(R, i, r[i], r[i + 1])
    BY <2>2 DEF Replay
  <2>4. r[at + 1] = w
    <3>1. 0 \in 0..l /\ at + 1 \in 0..l
      BY <1>4, <2>1
    <3>2. \A a \in R : a.id \notin 0..((at + 1) - 1)
      BY <1>1, <1>2
    <3> QED
      BY <2>2, <2>3, <3>1, <3>2, ReplayStill
  <2>5. PICK q : q = [i \in 0..l |-> IF i <= at THEN m ELSE r[i]]
    OBVIOUS
  <2>6. q \in [0..l -> Notes] /\ q[0] = m /\ q[l] = r[l]
    BY <1>4, <2>1, <2>3, <2>5
  <2>7. ASSUME NEW i \in 0..(l - 1) PROVE Stepped(Q, i, q[i], q[i + 1])
    <3>1. i \in 0..l /\ i + 1 \in 0..l
      BY <2>1
    <3>2. CASE i < at
      <4>1. q[i] = m /\ q[i + 1] = m
        BY <1>4, <2>5, <3>1, <3>2
      <4>2. \A a \in Q : a.id # i
        BY <1>4, <3>2
      <4> QED
        BY <4>1, <4>2 DEF Stepped
    <3>3. CASE i = at
      <4>1. q[i] = m /\ q[i + 1] = w
        BY <1>4, <2>4, <2>5, <3>1, <3>3
      <4> QED
        BY <1>1, <1>2, <1>5, <3>3, <4>1, OfThatId
    <3>4. CASE i > at
      <4>1. q[i] = r[i] /\ q[i + 1] = r[i + 1]
        BY <1>4, <2>5, <3>1, <3>4
      <4>2. Stepped(R, i, q[i], q[i + 1])
        BY <2>3, <4>1
      <4>3. h.id # i
        BY <1>2, <1>4, <3>4
      <4> QED
        BY <1>2, <4>2, <4>3 DEF Stepped
    <3> QED
      BY <1>4, <3>2, <3>3, <3>4
  <2>8. Replay(Q, l, q, m)
    BY <2>6, <2>7 DEF Replay
  <2>9. \A a \in Q : a.id < l
    <3>1. ASSUME NEW a \in Q PROVE a.id < l
      <4>1. CASE a = h
        BY <1>2, <2>1, <4>1
      <4>2. CASE a # h
        BY <1>4, <1>5, <2>1, <4>2
      <4> QED
        BY <4>1, <4>2
    <3> QED
      BY <3>1
  <2> QED
    BY <1>5, <2>1, <2>2, <2>6, <2>8, <2>9 DEF Leads
<1>6. ASSUME Goes(h, m) => Leads(w, R, L), NEW k \in Nat, NEW r, Replay(Q, k, r, m), \A a \in Q : a.id < k
      PROVE  AsIn(r[k], L)
  <2>1. r \in [0..k -> Notes] /\ r[0] = m /\ \A i \in 0..(k - 1) : Stepped(Q, i, r[i], r[i + 1])
    BY <1>6 DEF Replay
  <2>2. at \in 0..(k - 1) /\ at \in 0..k /\ at + 1 \in 0..k /\ 0 \in 0..k
    BY <1>1, <1>2, <1>6
  <2>3. r[at] = m
    <3>1. \A a \in Q : a.id \notin 0..(at - 1)
      BY <1>4
    <3> QED
      BY <1>6, <2>1, <2>2, <3>1, ReplayStill
  <2>4. Goes(h, m) /\ r[at + 1] = w
    BY <1>1, <1>2, <2>1, <2>2, <2>3 DEF Stepped
  <2>5. PICK s : s = [i \in 0..k |-> IF i <= at THEN w ELSE r[i]]
    OBVIOUS
  <2>6. s \in [0..k -> Notes] /\ s[0] = w /\ s[k] = r[k]
    BY <1>3, <2>1, <2>2, <2>5
  <2>7. ASSUME NEW i \in 0..(k - 1) PROVE Stepped(R, i, s[i], s[i + 1])
    <3>1. i \in 0..k /\ i + 1 \in 0..k
      OBVIOUS
    <3>2. CASE i <= at
      <4>1. s[i] = w /\ s[i + 1] = w
        BY <2>2, <2>4, <2>5, <3>1, <3>2
      <4>2. \A a \in R : a.id # i
        BY <1>1, <1>2, <3>2
      <4> QED
        BY <4>1, <4>2 DEF Stepped
    <3>3. CASE i > at
      <4>1. s[i] = r[i] /\ s[i + 1] = r[i + 1]
        BY <2>2, <2>5, <3>1, <3>3
      <4>2. Stepped(Q, i, s[i], s[i + 1])
        BY <2>1, <4>1
      <4>3. h.id # i
        BY <1>2, <2>2, <3>3
      <4> QED
        BY <1>2, <4>2, <4>3 DEF Stepped
    <3> QED
      BY <2>2, <3>2, <3>3
  <2>8. Replay(R, k, s, w)
    BY <2>6, <2>7 DEF Replay
  <2>9. \A a \in R : a.id < k
    BY <1>2, <1>6
  <2>10. AsIn(s[k], L)
    BY <1>6, <2>4, <2>8, <2>9 DEF Leads
  <2> QED
    BY <2>6, <2>10
<1> QED
  BY <1>2, <1>5, <1>6 DEF Leads

\* Sent again, when its answer was lost, it leads where the rest does: a write or a delete
\* changes nothing more, and a move is refused.
LEMMA LeadsSent ==
  ASSUME NEW n, NEW Q, OpSet(n, Q), NEW h, IsFirst(h, Q), NEW m \in Notes, NEW L,
         Leads(m, Q, L), Goes(h, m)
  PROVE  Leads(StepOf(h, m), Q \ {h}, L) /\ Leads(StepOf(h, m), Q, L)
<1>1. PICK w : w = StepOf(h, m)
  OBVIOUS
<1>2. Leads(w, Q \ {h}, L) /\ h \in Op(n)
  BY <1>1, LeadsFirst, FirstIs
<1>3. w \in Notes
  BY <1>1, <1>2, StepIs
<1>4. Goes(h, w) => StepOf(h, w) = w
  <2>1. h.path \in NotePath /\ h.to \in NotePath /\ h.kind \in {"save", "create", "delete", "move"}
    BY <1>2, OpFields
  <2>2. CASE h.kind = "move"
    <3>1. h.path # h.to
      BY <1>2, <2>2, Goings
    <3>2. w[h.path] = {}
      BY <1>1, <1>2, <2>2, <3>1, StepIs
    <3> QED
      BY <2>2, <3>2 DEF Goes
  <2>3. CASE h.kind # "move"
    <3>1. PICK v : v = StepOf(h, w)
      OBVIOUS
    <3>2. v \in Notes /\ \A p \in NotePath : p # h.path => v[p] = w[p]
      BY <1>2, <1>3, <2>3, <3>1, StepIs DEF Moves
    <3>3. v[h.path] = w[h.path]
      <4>1. CASE h.kind = "delete"
        BY <1>1, <1>2, <1>3, <3>1, <4>1, StepIs
      <4>2. CASE h.kind \in Writes
        <5>1. w[h.path] = {h.text}
          BY <1>1, <1>2, <4>2, StepIs
        <5>2. v[h.path] = {h.text}
          BY <1>2, <1>3, <3>1, <4>2, StepIs
        <5> QED
          BY <5>1, <5>2
      <4> QED
        BY <2>1, <2>3, <4>1, <4>2 DEF Writes
    <3> QED
      BY <1>3, <3>1, <3>2, <3>3 DEF Notes
  <2> QED
    BY <2>2, <2>3
<1>5. Leads(w, Q, L)
  BY <1>2, <1>3, <1>4, LeadsFirst
<1> QED
  BY <1>1, <1>2, <1>5

-----------------------------------------------------------------------------
(***************************************************************************)
(* The person goes on: K is what she stands by after op, if before it was  *)
(* L.                                                                      *)
(***************************************************************************)
After(K, L, op) ==
  CASE op.kind = "delete" ->
         op.path \notin DOMAIN K /\ \A p \in DOMAIN K : p \in DOMAIN L /\ K[p] = L[p]
    [] op.kind = "move" -> WithMoved(K, L, op.path, op.to)
    [] OTHER -> \A p \in DOMAIN K : IF p = op.path THEN K[p] = op.text
                                    ELSE p \in DOMAIN L /\ K[p] = L[p]

LEMMA AsInAfter ==
  ASSUME NEW n, NEW op \in Op(n), NEW m \in Notes, NEW L, NEW K, DOMAIN K \subseteq NotePath,
         After(K, L, op), AsIn(m, L), Goes(op, m)
  PROVE  AsIn(StepOf(op, m), K)
<1>1. PICK w : w = StepOf(op, m)
  OBVIOUS
<1>2. op.kind \in {"save", "create", "delete", "move"}
  BY OpFields
<1> SUFFICES ASSUME NEW p \in DOMAIN K PROVE w[p] = {K[p]}
  BY <1>1 DEF AsIn
<1>3. p \in NotePath /\ \A q \in NotePath : q # op.path /\ ~Moves(op, q) => w[q] = m[q]
  BY <1>1, StepIs
<1>4. CASE op.kind = "delete"
  <2>1. p # op.path /\ p \in DOMAIN L /\ K[p] = L[p]
    BY <1>4 DEF After
  <2>2. w[p] = m[p]
    BY <1>3, <1>4, <2>1 DEF Moves
  <2> QED
    BY <2>1, <2>2 DEF AsIn
<1>5. CASE op.kind = "move"
  <2>1. m[op.path] # {} /\ m[op.to] = {} /\ op.path # op.to
    BY <1>5, Goings
  <2>2. w[op.to] = m[op.path]
    BY <1>1, <1>5, <2>1, StepIs
  <2>3. WithMoved(K, L, op.path, op.to)
    BY <1>5 DEF After
  <2>4. CASE p = op.to /\ op.path \in DOMAIN L
    <3>1. K[p] = L[op.path]
      BY <2>3, <2>4 DEF WithMoved
    <3> QED
      BY <2>2, <2>4, <3>1 DEF AsIn
  <2>5. CASE ~(p = op.to /\ op.path \in DOMAIN L)
    <3>1. p \in DOMAIN L /\ K[p] = L[p] /\ p # op.path
      BY <2>1, <2>3, <2>5 DEF WithMoved
    <3>2. p # op.to
      BY <2>1, <3>1 DEF AsIn
    <3>3. w[p] = m[p]
      BY <1>3, <3>1, <3>2 DEF Moves
    <3> QED
      BY <3>1, <3>3 DEF AsIn
  <2> QED
    BY <2>4, <2>5
<1>6. CASE op.kind \in Writes
  <2>1. IF p = op.path THEN K[p] = op.text ELSE p \in DOMAIN L /\ K[p] = L[p]
    BY <1>6 DEF After, Writes
  <2>2. CASE p = op.path
    <3>1. w[op.path] = {op.text}
      BY <1>1, <1>6, StepIs
    <3> QED
      BY <2>1, <2>2, <3>1
  <2>3. CASE p # op.path
    <3>1. w[p] = m[p]
      BY <1>3, <1>6, <2>3 DEF Moves, Writes
    <3> QED
      BY <2>1, <2>3, <3>1 DEF AsIn
  <2> QED
    BY <2>2, <2>3
<1> QED
  BY <1>2, <1>4, <1>5, <1>6 DEF Writes

LEMMA LeadsMore ==
  ASSUME NEW n, NEW Q, NEW op \in Op(n), OpSet(n, Q \cup {op}), \A x \in Q : x.id < op.id,
         NEW m \in Notes, NEW L, Leads(m, Q, L),
         NEW K, DOMAIN K \subseteq NotePath, After(K, L, op)
  PROVE  Leads(m, Q \cup {op}, K)
<1> SUFFICES ASSUME NEW k \in Nat, NEW r, Replay(Q \cup {op}, k, r, m),
                    \A a \in Q \cup {op} : a.id < k
             PROVE  AsIn(r[k], K)
  BY DEF Leads
<1>1. PICK at : at = op.id
  OBVIOUS
<1>2. at \in Nat /\ at < k /\ \A a \in Q : a.id \in Nat /\ a.id < at
  BY <1>1, OpFields DEF OpSet
<1>3. /\ r \in [0..k -> Notes] /\ r[0] = m
      /\ \A i \in 0..(k - 1) : Stepped(Q \cup {op}, i, r[i], r[i + 1])
  BY DEF Replay
<1>4. PICK q : q = [i \in 0..at |-> r[i]]
  OBVIOUS
<1>5. Replay(Q, at, q, m)
  <2>1. q \in [0..at -> Notes] /\ q[0] = m
    <3>1. \A i \in 0..at : i \in 0..k
      BY <1>2
    <3>2. 0 \in 0..at
      BY <1>2
    <3> QED
      BY <1>3, <1>4, <3>1, <3>2
  <2>2. ASSUME NEW i \in 0..(at - 1) PROVE Stepped(Q, i, q[i], q[i + 1])
    <3>1. i \in 0..(k - 1) /\ i \in 0..at /\ i + 1 \in 0..at /\ op.id # i
      BY <1>1, <1>2
    <3>2. q[i] = r[i] /\ q[i + 1] = r[i + 1]
      BY <1>4, <3>1
    <3>3. Stepped(Q \cup {op}, i, q[i], q[i + 1])
      BY <1>3, <3>1, <3>2
    <3> QED
      BY <3>1, <3>3 DEF Stepped
  <2> QED
    BY <2>1, <2>2 DEF Replay
<1>6. AsIn(r[at], L) /\ r[at] \in Notes
  <2>1. q[at] = r[at] /\ at \in 0..k
    BY <1>2, <1>4
  <2>2. AsIn(q[at], L)
    BY <1>2, <1>5 DEF Leads
  <2> QED
    BY <1>3, <2>1, <2>2
<1>7. Goes(op, r[at]) /\ r[at + 1] = StepOf(op, r[at])
  <2>1. at \in 0..(k - 1)
    BY <1>2
  <2> QED
    BY <1>1, <1>3, <2>1 DEF Stepped
<1>8. r[k] = r[at + 1]
  <2>1. PICK i, Q1 : i = at + 1 /\ Q1 = Q \cup {op}
    OBVIOUS
  <2>2. i \in 0..k /\ k \in i..k
    BY <1>2, <2>1
  <2>3. \A a \in Q1 : a.id \notin i..(k - 1)
    BY <1>1, <1>2, <2>1
  <2>4. r[k] = r[i]
    BY <2>1, <2>2, <2>3, ReplayStill
  <2> QED
    BY <2>1, <2>4
<1> QED
  BY <1>6, <1>7, <1>8, AsInAfter

-----------------------------------------------------------------------------
(***************************************************************************)
(* A compacted queue leads where the queue did: any replay of it has one   *)
(* of the queue beside it.                                                 *)
(***************************************************************************)
\* The same but for the note at one path.
But(path, x) == {y \in Notes : \A p \in NotePath : p # path => y[p] = x[p]}

LEMMA StepBut ==
  ASSUME NEW n, NEW op \in Op(n), NEW path \in NotePath, ~Moves(op, path),
         NEW x \in Notes, NEW y \in But(path, x), Goes(op, x)
  PROVE  Goes(op, y) /\ StepOf(op, y) \in But(path, StepOf(op, x))
<1>1. /\ op.path \in NotePath /\ op.to \in NotePath
      /\ op.kind \in {"save", "create", "delete", "move"}
      /\ y \in Notes /\ \A p \in NotePath : p # path => y[p] = x[p]
  BY OpFields DEF But
<1>2. PICK v, w : v = StepOf(op, x) /\ w = StepOf(op, y)
  OBVIOUS
<1>3. /\ w \in Notes /\ v \in Notes
      /\ \A p \in NotePath : p # op.path /\ ~Moves(op, p) => w[p] = y[p] /\ v[p] = x[p]
  <2>1. w \in Notes /\ \A p \in NotePath : p # op.path /\ ~Moves(op, p) => w[p] = y[p]
    BY <1>1, <1>2, StepIs
  <2>2. v \in Notes /\ \A p \in NotePath : p # op.path /\ ~Moves(op, p) => v[p] = x[p]
    BY <1>2, StepIs
  <2> QED
    BY <2>1, <2>2
<1>4. CASE op.kind = "move"
  <2>1. op.path # path /\ op.to # path
    BY <1>4 DEF Moves
  <2>2. x[op.path] # {} /\ x[op.to] = {} /\ op.path # op.to
    BY <1>4, Goings
  <2>3. Goes(op, y)
    BY <1>1, <2>1, <2>2 DEF Goes
  <2>4. w[op.path] = {} /\ w[op.to] = y[op.path]
    BY <1>1, <1>2, <1>4, <2>2, StepIs
  <2>5. v[op.path] = {} /\ v[op.to] = x[op.path]
    BY <1>2, <1>4, <2>2, StepIs
  <2>6. \A p \in NotePath : p # path => w[p] = v[p]
    BY <1>1, <1>3, <2>1, <2>4, <2>5 DEF Moves
  <2> QED
    BY <1>2, <1>3, <2>3, <2>6 DEF But
<1>5. CASE op.kind # "move"
  <2>1. w[op.path] = v[op.path]
    <3>1. CASE op.kind = "delete"
      <4>1. w[op.path] = {}
        BY <1>1, <1>2, <3>1, StepIs
      <4>2. v[op.path] = {}
        BY <1>2, <3>1, StepIs
      <4> QED
        BY <4>1, <4>2
    <3>2. CASE op.kind \in Writes
      <4>1. w[op.path] = {op.text}
        BY <1>1, <1>2, <3>2, StepIs
      <4>2. v[op.path] = {op.text}
        BY <1>2, <3>2, StepIs
      <4> QED
        BY <4>1, <4>2
    <3> QED
      BY <1>1, <1>5, <3>1, <3>2 DEF Writes
  <2>2. \A p \in NotePath : p # path => w[p] = v[p]
    BY <1>1, <1>3, <1>5, <2>1 DEF Moves
  <2>3. Goes(op, y)
    BY <1>5 DEF Goes
  <2> QED
    BY <1>2, <1>3, <2>2, <2>3 DEF But
<1> QED
  BY <1>4, <1>5

\* A write or delete at the path changes nothing else.
LEMMA StepAt ==
  ASSUME NEW n, NEW op \in Op(n), op.kind # "move", NEW x, NEW y \in But(op.path, x)
  PROVE  StepOf(op, y) \in But(op.path, x)
<1>1. y \in Notes /\ \A p \in NotePath : p # op.path => y[p] = x[p]
  BY DEF But
<1>2. PICK w : w = StepOf(op, y)
  OBVIOUS
<1>3. w \in Notes /\ \A p \in NotePath : p # op.path => w[p] = y[p]
  BY <1>1, <1>2, StepIs DEF Moves
<1> QED
  BY <1>1, <1>2, <1>3 DEF But

LEMMA ButItself == ASSUME NEW x \in Notes, NEW path PROVE x \in But(path, x)
BY DEF But

LEMMA SteppedNotes ==
  ASSUME NEW n, NEW Q, OpSet(n, Q), NEW a \in Q, NEW x, NEW y, Stepped(Q, a.id, x, y)
  PROVE  Goes(a, x) /\ y = StepOf(a, x)
BY DEF Stepped

\* One queue for another: what a replay of R does, one of Q does too, but for what L is not
\* about.
LEMMA LeadsBeside ==
  ASSUME NEW Q, NEW R, NEW m \in Notes, NEW L, Leads(m, Q, L), \A a \in Q \cup R : a.id \in Nat,
         NEW k \in Nat, \A a \in Q : a.id < k, NEW r, Replay(R, k, r, m),
         NEW G, \A i \in 0..k : G[i] \subseteq Notes, m \in G[0],
         \A i \in 0..(k - 1) : \A x \in G[i] : \E y \in G[i + 1] : Stepped(Q, i, x, y),
         NEW K, \A y \in G[k] : AsIn(y, L) => AsIn(r[k], K)
  PROVE  AsIn(r[k], K)
<1>1. PICK q : Replay(Q, k, q, m) /\ q[k] \in G[k]
  BY Beside
<1>2. AsIn(q[k], L)
  BY <1>1 DEF Leads
<1> QED
  BY <1>1, <1>2

\* A replay of R from m that is past an id as well, and ends at y.
Past(R, m, at, y) ==
  \E k \in Nat : \E r : k > at /\ (\A a \in R : a.id < k) /\ Replay(R, k, r, m) /\ r[k] = y

LEMMA Longer ==
  ASSUME NEW R, \A a \in R : a.id \in Nat, NEW k \in Nat, \A a \in R : a.id < k, NEW at \in Nat,
         NEW r, NEW m, Replay(R, k, r, m)
  PROVE  Past(R, m, at, r[k])
<1>1. PICK l \in Nat : l >= k /\ l > at
  <2>1. k + at + 1 \in Nat /\ k + at + 1 >= k /\ k + at + 1 > at
    OBVIOUS
  <2> QED
    BY <2>1
<1>2. PICK s : Replay(R, l, s, m) /\ s[l] = r[k]
  BY <1>1, ReplayLonger
<1>3. \A a \in R : a.id < l
  BY <1>1
<1> QED
  BY <1>1, <1>2, <1>3 DEF Past

LEMMA LeadsMerged ==
  ASSUME NEW n, NEW Q, NEW op \in Op(n), OpSet(n, Q \cup {op}), \A x \in Q : x.id < op.id,
         NEW m \in Notes, NEW L, Leads(m, Q \cup {op}, L), NEW R, Merged(R, Q, op)
  PROVE  Leads(m, R, L)
<1>1. PICK old \in Q : /\ op.kind = "save" /\ old.kind \in Writes /\ old.path = op.path
                       /\ \A c \in Q : old.id < c.id => ~Touches(c, op.path)
                       /\ R = (Q \ {old}) \cup {Retexted(old, op.text)}
  BY DEF Merged
<1>2. PICK new, Q1, at, path : /\ new = Retexted(old, op.text) /\ Q1 = Q \cup {op} /\ at = old.id
                               /\ path = op.path
  OBVIOUS
<1>3. /\ \A a \in Q1 : a \in Op(n) /\ a.id \in Nat
      /\ \A a, b \in Q1 : a.id = b.id => a = b
  BY <1>2, OpFields DEF OpSet
<1>4. /\ new \in Op(n) /\ new.id = at /\ new.path = path /\ new.kind \in Writes /\ new.text = op.text
      /\ old.path = path /\ at \in Nat /\ at < op.id /\ op.id \in Nat /\ path \in NotePath
  <2>1. old \in Op(n) /\ op.text \in 1..n /\ op.path \in NotePath
    BY <1>1, <1>2, <1>3, OpFields DEF Writes
  <2>2. /\ new \in Op(n) /\ new.id = at /\ new.path = path /\ new.kind \in Writes
        /\ new.text = op.text
    BY <1>1, <1>2, <2>1, RetextedIs
  <2> QED
    BY <1>1, <1>2, <1>3, <2>1, <2>2
<1>5. \A a \in R : a = new \/ (a \in Q1 /\ a.id # at /\ a.id # op.id /\ a.id < op.id)
  BY <1>1, <1>2, <1>3
<1>6. \A a \in Q1 : a = old \/ a = op \/ a \in R
  BY <1>1, <1>2
<1>7. new \in R /\ old \in Q1 /\ op \in Q1 /\ \A a \in R : a.id \in Nat /\ a \in Op(n)
  BY <1>1, <1>2, <1>3, <1>4, <1>5
<1>8. ASSUME NEW a \in R, a.id > at PROVE ~Moves(a, path) /\ a.path # path
  <2>1. a \in Q /\ a \in Op(n) /\ old.id < a.id
    BY <1>1, <1>2, <1>4, <1>5, <1>7, <1>8
  <2> QED
    BY <1>1, <1>2, <2>1, TouchesIs DEF Moves
<1>9. OpSet(n, R)
  BY <1>3, <1>4, <1>5, <1>7 DEF OpSet
<1> SUFFICES ASSUME NEW j \in Nat, NEW s, Replay(R, j, s, m), \A a \in R : a.id < j
             PROVE  AsIn(s[j], L)
  BY DEF Leads
<1>10. PICK k \in Nat : \E r : k > op.id /\ Replay(R, k, r, m) /\ r[k] = s[j]
  <2>1. Past(R, m, op.id, s[j])
    BY <1>4, <1>7, Longer
  <2> QED
    BY <2>1 DEF Past
<1>11. PICK r : k > op.id /\ Replay(R, k, r, m) /\ r[k] = s[j]
  BY <1>10
<1>12. r \in [0..k -> Notes] /\ r[0] = m /\ \A i \in 0..(k - 1) : Stepped(R, i, r[i], r[i + 1])
  BY <1>11 DEF Replay
<1>13. PICK G : G = [i \in 0..k |-> IF at < i /\ i <= op.id
                                    THEN {x \in But(path, r[i]) : r[i][path] = {op.text}}
                                    ELSE {r[i]}]
  OBVIOUS
<1>14. \A i \in 0..k : G[i] \subseteq Notes /\ r[i] \in Notes
  BY <1>12, <1>13 DEF But
<1>15. m \in G[0]
  <2>1. 0 \in 0..k /\ ~(at < 0)
    BY <1>4
  <2> QED
    BY <1>12, <1>13, <2>1
<1>16. ASSUME NEW i \in 0..(k - 1), NEW x \in G[i] PROVE \E y \in G[i + 1] : Stepped(Q1, i, x, y)
  <2>1. i \in 0..k /\ i + 1 \in 0..k
    OBVIOUS
  <2>2. Stepped(R, i, r[i], r[i + 1]) /\ r[i] \in Notes /\ r[i + 1] \in Notes
    BY <1>12, <1>14, <2>1
  <2>3. CASE i < at \/ i > op.id
    <3>1. x = r[i] /\ G[i + 1] = {r[i + 1]}
      BY <1>4, <1>13, <2>1, <2>3
    <3>2. \A a \in Q1 : a.id = i => a \in R
      BY <1>2, <1>4, <1>6, <2>3
    <3>3. \A a \in R : a.id = i => a \in Q1
      BY <1>4, <1>5, <2>3
    <3>4. Stepped(Q1, i, x, r[i + 1])
      BY <2>2, <3>1, <3>2, <3>3 DEF Stepped
    <3> QED
      BY <3>1, <3>4
  <2>4. CASE i = at
    <3>1. x = r[i] /\ G[i + 1] = {y \in But(path, r[i + 1]) : r[i + 1][path] = {op.text}}
      BY <1>4, <1>13, <2>1, <2>4
    <3>2. r[i + 1] = StepOf(new, r[i])
      BY <1>4, <1>7, <1>9, <2>2, <2>4, SteppedNotes
    <3>3. r[i + 1][path] = {op.text}
      BY <1>4, <2>2, <3>2, StepIs
    <3>4. PICK y : y = StepOf(old, x)
      OBVIOUS
    <3>5. y \in But(path, r[i])
      BY <1>1, <1>2, <1>3, <1>4, <2>2, <3>1, <3>4, StepAt, ButItself DEF Writes
    <3>6. r[i + 1] \in But(path, r[i])
      BY <1>4, <2>2, <3>2, StepAt, ButItself DEF Writes
    <3>7. y \in G[i + 1]
      BY <3>1, <3>3, <3>5, <3>6 DEF But
    <3>8. Goes(old, x)
      BY <1>1 DEF Goes, Writes
    <3>9. Stepped(Q1, i, x, y)
      <4>1. old \in Q1 /\ OpSet(n, Q1) /\ old.id = i
        BY <1>2, <1>7, <2>4
      <4> QED
        BY <3>4, <3>8, <4>1, OfThatId
    <3> QED
      BY <3>7, <3>9
  <2>5. CASE i = op.id
    <3>1. x \in But(path, r[i]) /\ r[i][path] = {op.text} /\ G[i + 1] = {r[i + 1]}
      BY <1>4, <1>13, <2>1, <2>5
    <3>2. r[i + 1] = r[i]
      <4>1. \A a \in R : a.id # i
        BY <1>4, <1>5, <2>5
      <4> QED
        BY <2>2, <4>1 DEF Stepped
    <3>3. PICK y : y = StepOf(op, x)
      OBVIOUS
    <3>4. op.kind \in Writes /\ op.kind # "move" /\ x \in Notes
      BY <1>1, <3>1 DEF Writes, But
    <3>5. y \in But(path, r[i])
      BY <1>2, <3>1, <3>3, <3>4, StepAt
    <3>6. y[path] = {op.text}
      BY <1>2, <3>3, <3>4, StepIs
    <3>7. y = r[i]
      <4>1. PICK z : z = r[i]
        OBVIOUS
      <4>2. y \in Notes /\ z \in Notes /\ \A p \in NotePath : p # path => y[p] = z[p]
        BY <2>2, <3>5, <4>1 DEF But
      <4>3. y[path] = z[path]
        BY <3>1, <3>6, <4>1
      <4>4. \A p \in NotePath : y[p] = z[p]
        BY <4>2, <4>3
      <4>5. y = z
        BY <4>2, <4>4 DEF Notes
      <4> QED
        BY <4>1, <4>5
    <3>8. Goes(op, x)
      BY <3>4 DEF Goes
    <3>9. Stepped(Q1, i, x, y)
      <4>1. op \in Q1 /\ OpSet(n, Q1)
        BY <1>2, <1>7
      <4> QED
        BY <2>5, <3>3, <3>8, <4>1, OfThatId
    <3> QED
      BY <3>1, <3>2, <3>7, <3>9
  <2>6. CASE at < i /\ i < op.id
    <3>1. /\ x \in But(path, r[i]) /\ r[i][path] = {op.text}
          /\ G[i + 1] = {y \in But(path, r[i + 1]) : r[i + 1][path] = {op.text}}
      BY <1>4, <1>13, <2>1, <2>6
    <3>2. CASE \E a \in R : a.id = i
      <4>1. PICK a \in R : a.id = i
        BY <3>2
      <4>2. ~Moves(a, path) /\ a.path # path /\ a \in Op(n) /\ a \in Q1
        BY <1>4, <1>5, <1>7, <1>8, <2>6, <4>1
      <4>3. Goes(a, r[i]) /\ r[i + 1] = StepOf(a, r[i])
        BY <1>9, <2>2, <4>1, SteppedNotes
      <4>4. PICK y : y = StepOf(a, x)
        OBVIOUS
      <4>5. Goes(a, x) /\ y \in But(path, r[i + 1])
        BY <1>4, <2>2, <3>1, <4>2, <4>3, <4>4, StepBut
      <4>6. r[i + 1][path] = r[i][path]
        BY <1>4, <2>2, <4>2, <4>3, StepIs
      <4>7. Stepped(Q1, i, x, y)
        <5>1. OpSet(n, Q1)
          BY <1>2
        <5> QED
          BY <4>1, <4>2, <4>4, <4>5, <5>1, OfThatId
      <4> QED
        BY <3>1, <4>5, <4>6, <4>7
    <3>3. CASE \A a \in R : a.id # i
      <4>1. r[i + 1] = r[i]
        BY <2>2, <3>3 DEF Stepped
      <4>2. \A a \in Q1 : a.id # i
        BY <1>2, <1>4, <1>6, <2>6, <3>3
      <4>3. Stepped(Q1, i, x, x)
        BY <4>2 DEF Stepped
      <4> QED
        BY <3>1, <4>1, <4>3
    <3> QED
      BY <3>2, <3>3
  <2> QED
    BY <1>4, <2>3, <2>4, <2>5, <2>6
<1>17. \A y \in G[k] : AsIn(y, L) => AsIn(r[k], L)
  <2>1. k \in 0..k /\ ~(k <= op.id)
    BY <1>4, <1>11
  <2> QED
    BY <1>13, <2>1
<1>18. \A a \in Q1 : a.id < k
  <2>1. \A a \in Q1 : a.id <= op.id
    BY <1>2, <1>3
  <2> QED
    BY <1>3, <1>4, <1>11, <2>1
<1>19. Leads(m, Q1, L) /\ \A a \in Q1 \cup R : a.id \in Nat
  BY <1>2, <1>3, <1>7
<1>20. AsIn(r[k], L)
  BY <1>11, <1>14, <1>15, <1>16, <1>17, <1>18, <1>19, LeadsBeside
<1> QED
  BY <1>11, <1>20

LEMMA LeadsCancelled ==
  ASSUME NEW n, NEW Q, NEW op \in Op(n), OpSet(n, Q \cup {op}), \A x \in Q : x.id < op.id,
         NEW m \in Notes, NEW L, DOMAIN L \subseteq NotePath, op.path \notin DOMAIN L,
         Leads(m, Q \cup {op}, L), NEW R, Cancels(R, Q, op)
  PROVE  Leads(m, R, L)
<1>1. PICK gone \in SUBSET Q :
        /\ op.kind = "delete"
        /\ \A a \in gone : /\ a.kind \in Writes /\ a.path = op.path
                           /\ \A c \in Q : a.id < c.id => ~Moves(c, op.path)
        /\ (gone # {} /\ R = Q \ gone) \/ R = (Q \ gone) \cup {op}
  BY DEF Cancels
<1>2. PICK Q1, path : Q1 = Q \cup {op} /\ path = op.path
  OBVIOUS
<1>3. CASE gone = {}
  BY <1>1, <1>3
<1>4. ASSUME gone # {} PROVE Leads(m, R, L)
  <2>1. /\ \A a \in Q1 : a \in Op(n) /\ a.id \in Nat
        /\ \A a, b \in Q1 : a.id = b.id => a = b
    BY <1>2, OpFields DEF OpSet
  <2>2. op.id \in Nat /\ path \in NotePath /\ op \in Q1 /\ OpSet(n, Q1) /\ Leads(m, Q1, L)
    BY <1>2, <2>1, OpFields
  <2>3. R \subseteq Q1 /\ \A a \in Q1 : a \in R \/ a \in gone \/ a = op
    BY <1>1, <1>2
  <2>4. OpSet(n, R)
    BY <2>1, <2>3 DEF OpSet
  <2>5. \A a \in gone : a \in Q1 /\ a \notin R /\ a.kind # "move" /\ a.path = path /\ a.id < op.id
    BY <1>1, <1>2, <2>1 DEF Writes
  <2> SUFFICES ASSUME NEW j \in Nat, NEW s, Replay(R, j, s, m), \A a \in R : a.id < j
               PROVE  AsIn(s[j], L)
    BY DEF Leads
  <2>6. PICK k \in Nat : \E r : k > op.id /\ Replay(R, k, r, m) /\ r[k] = s[j]
    <3>1. \A a \in R : a.id \in Nat
      BY <2>1, <2>3
    <3>2. Past(R, m, op.id, s[j])
      BY <2>2, <3>1, Longer
    <3> QED
      BY <3>2 DEF Past
  <2>7. PICK r : k > op.id /\ Replay(R, k, r, m) /\ r[k] = s[j]
    BY <2>6
  <2>8. r \in [0..k -> Notes] /\ r[0] = m /\ \A i \in 0..(k - 1) : Stepped(R, i, r[i], r[i + 1])
    BY <2>7 DEF Replay
  <2> DEFINE Loose(i) == \E a \in gone : a.id < i
  <2>9. PICK G : G = [i \in 0..k |-> IF Loose(i) THEN But(path, r[i]) ELSE {r[i]}]
    OBVIOUS
  <2>10. \A i \in 0..k : G[i] \subseteq Notes /\ r[i] \in Notes /\ G[i] \subseteq But(path, r[i])
    BY <2>8, <2>9, ButItself DEF But
  <2>11. m \in G[0]
    <3>1. 0 \in 0..k /\ ~Loose(0)
      BY <2>1, <2>5
    <3> HIDE DEF Loose
    <3> QED
      BY <2>8, <2>9, <3>1
  <2>12. ASSUME NEW i \in 0..(k - 1), NEW x \in G[i] PROVE \E y \in G[i + 1] : Stepped(Q1, i, x, y)
    <3>1. i \in 0..k /\ i + 1 \in 0..k
      OBVIOUS
    <3>2. /\ Stepped(R, i, r[i], r[i + 1]) /\ r[i] \in Notes /\ r[i + 1] \in Notes
          /\ x \in But(path, r[i]) /\ x \in Notes
      BY <2>8, <2>10, <3>1
    <3>3. Loose(i) => G[i] = But(path, r[i])
      <4> HIDE DEF Loose
      <4> QED
        BY <2>9, <3>1
    <3>4. Loose(i + 1) => G[i + 1] = But(path, r[i + 1])
      <4> HIDE DEF Loose
      <4> QED
        BY <2>9, <3>1
    <3>5. ~Loose(i) => x = r[i]
      <4> HIDE DEF Loose
      <4> QED
        BY <2>9, <3>1
    <3>6. ~Loose(i + 1) => G[i + 1] = {r[i + 1]}
      <4> HIDE DEF Loose
      <4> QED
        BY <2>9, <3>1
    <3>7. CASE \E a \in gone : a.id = i
      <4>1. PICK a \in gone : a.id = i
        BY <3>7
      <4>2. Loose(i + 1)
        BY <4>1
      <4>3. r[i + 1] = r[i]
        <5>1. \A b \in R : b.id # i
          BY <2>1, <2>3, <2>5, <4>1
        <5> QED
          BY <3>2, <5>1 DEF Stepped
      <4>4. PICK y : y = StepOf(a, x)
        OBVIOUS
      <4>5. a \in Op(n) /\ a \in Q1 /\ a.kind # "move" /\ a.path = path
        BY <2>1, <2>5
      <4>6. y \in But(path, r[i])
        BY <3>2, <4>4, <4>5, StepAt
      <4>7. Goes(a, x)
        BY <4>5 DEF Goes
      <4>8. Stepped(Q1, i, x, y)
        BY <2>2, <4>1, <4>4, <4>5, <4>7, OfThatId
      <4> HIDE DEF Loose
      <4> QED
        BY <3>4, <4>2, <4>3, <4>6, <4>8
    <3>8. CASE i = op.id
      <4>1. Loose(i + 1)
        BY <1>4, <2>1, <2>5, <3>8
      <4>2. PICK y : y = StepOf(op, x)
        OBVIOUS
      <4>3. op.kind # "move" /\ Goes(op, x)
        BY <1>1 DEF Goes
      <4>4. y \in But(path, r[i])
        BY <1>2, <3>2, <4>2, <4>3, StepAt
      <4>5. r[i + 1] \in But(path, r[i])
        <5>1. CASE op \in R
          <6>1. r[i + 1] = StepOf(op, r[i])
            BY <2>4, <3>2, <3>8, <5>1, SteppedNotes
          <6> QED
            BY <1>2, <3>2, <4>3, <6>1, StepAt, ButItself
        <5>2. CASE op \notin R
          <6>1. \A b \in R : b.id # i
            BY <2>1, <2>2, <2>3, <3>8, <5>2
          <6>2. r[i + 1] = r[i]
            BY <3>2, <6>1 DEF Stepped
          <6> QED
            BY <3>2, <6>2, ButItself
        <5> QED
          BY <5>1, <5>2
      <4>6. y \in But(path, r[i + 1])
        BY <4>4, <4>5 DEF But
      <4>7. Stepped(Q1, i, x, y)
        BY <2>2, <3>8, <4>2, <4>3, OfThatId
      <4> HIDE DEF Loose
      <4> QED
        BY <3>4, <4>1, <4>6, <4>7
    <3>9. CASE i # op.id /\ \A a \in gone : a.id # i
      <4>1. Loose(i + 1) <=> Loose(i)
        <5>1. \A a \in gone : a.id \in Nat
          BY <2>1, <2>5
        <5> QED
          BY <3>9, <5>1
      <4>2. \A a \in Q1 : a.id = i => a \in R
        BY <2>3, <3>9
      <4>3. CASE ~Loose(i)
        <5>1. Stepped(Q1, i, x, r[i + 1])
          <6> HIDE DEF Loose
          <6>1. x = r[i]
            BY <3>5, <4>3
          <6> QED
            BY <2>3, <3>2, <4>2, <6>1 DEF Stepped
        <5> HIDE DEF Loose
        <5> QED
          BY <3>6, <4>1, <4>3, <5>1
      <4>4. CASE Loose(i)
        <5>1. G[i + 1] = But(path, r[i + 1])
          <6> HIDE DEF Loose
          <6> QED
            BY <3>4, <4>1, <4>4
        <5>2. CASE \E a \in R : a.id = i
          <6>1. PICK a \in R : a.id = i
            BY <5>2
          <6>2. a \in Q1 /\ a \in Op(n) /\ a # op /\ a \in Q
            BY <1>2, <2>1, <2>3, <3>9, <6>1
          <6>3. ~Moves(a, path)
            BY <1>1, <1>2, <4>4, <6>1, <6>2
          <6>4. Goes(a, r[i]) /\ r[i + 1] = StepOf(a, r[i])
            BY <2>4, <3>2, <6>1, SteppedNotes
          <6>5. PICK y : y = StepOf(a, x)
            OBVIOUS
          <6>6. Goes(a, x) /\ y \in But(path, r[i + 1])
            BY <2>2, <3>2, <6>2, <6>3, <6>4, <6>5, StepBut
          <6>7. Stepped(Q1, i, x, y)
            BY <2>2, <6>1, <6>2, <6>5, <6>6, OfThatId
          <6> HIDE DEF Loose
          <6> QED
            BY <5>1, <6>6, <6>7
        <5>3. CASE \A a \in R : a.id # i
          <6>1. r[i + 1] = r[i]
            BY <3>2, <5>3 DEF Stepped
          <6>2. \A a \in Q1 : a.id # i
            BY <4>2, <5>3
          <6>3. Stepped(Q1, i, x, x)
            BY <6>2 DEF Stepped
          <6> HIDE DEF Loose
          <6> QED
            BY <3>2, <5>1, <6>1, <6>3
        <5> HIDE DEF Loose
        <5> QED
          BY <5>2, <5>3
      <4> HIDE DEF Loose
      <4> QED
        BY <4>3, <4>4
    <3> HIDE DEF Loose
    <3> QED
      BY <3>7, <3>8, <3>9
  <2>13. \A y \in G[k] : AsIn(y, L) => AsIn(r[k], L)
    <3>1. \A y \in G[k] : \A p \in DOMAIN L : y[p] = r[k][p]
      <4>1. k \in 0..k
        OBVIOUS
      <4>2. \A p \in DOMAIN L : p \in NotePath /\ p # path
        BY <1>2
      <4>3. G[k] \subseteq But(path, r[k])
        BY <2>10, <4>1
      <4> QED
        BY <4>2, <4>3 DEF But
    <3> QED
      BY <3>1 DEF AsIn
  <2>14. \A a \in Q1 : a.id < k
    <3>1. \A a \in Q1 : a.id <= op.id
      BY <1>2, <2>1
    <3> QED
      BY <2>1, <2>2, <2>7, <3>1
  <2>15. \A a \in Q1 \cup R : a.id \in Nat
    BY <2>1, <2>3
  <2>16. AsIn(r[k], L)
    <3>1. \A i \in 0..k : G[i] \subseteq Notes
      BY <2>10
    <3>2. Leads(m, Q1, L) /\ Replay(R, k, r, m)
      BY <2>2, <2>7
    <3>3. \A i \in 0..(k - 1) : \A x \in G[i] : \E y \in G[i + 1] : Stepped(Q1, i, x, y)
      BY <2>12
    <3> HIDE DEF Loose
    <3> QED
      BY <2>11, <2>13, <2>14, <2>15, <3>1, <3>2, <3>3, LeadsBeside
  <2> QED
    BY <2>7, <2>16
<1> QED
  BY <1>3, <1>4

LEMMA LeadsCompacted ==
  ASSUME NEW n, NEW Q, NEW op \in Op(n), OpSet(n, Q \cup {op}), \A x \in Q : x.id < op.id,
         NEW m \in Notes, NEW L, DOMAIN L \subseteq NotePath,
         op.kind = "delete" => op.path \notin DOMAIN L,
         Leads(m, Q \cup {op}, L), NEW R, Joins(R, Q, op)
  PROVE  Leads(m, R, L)
<1>1. CASE Added(R, Q, op)
  BY <1>1 DEF Added
<1>2. CASE Merged(R, Q, op)
  BY <1>2, LeadsMerged
<1>3. CASE Cancels(R, Q, op)
  <2>1. op.kind = "delete"
    BY <1>3 DEF Cancels
  <2> QED
    BY <1>3, <2>1, LeadsCancelled
<1> QED
  BY <1>1, <1>2, <1>3 DEF Joins

-----------------------------------------------------------------------------
(***************************************************************************)
(* The first write of a queue is given up for the text the note has, and   *)
(* with it whatever the person stood by of that text.                      *)
(***************************************************************************)
\* The same notes exist, and each is as in z but for those with the text.
Near(text, z) ==
  {x \in Notes : \A p \in NotePath : (x[p] = {} <=> z[p] = {}) /\ (x[p] = z[p] \/ x[p] = {text})}

LEMMA StepNear ==
  ASSUME NEW n, NEW op \in Op(n), NEW text, NEW z \in Notes, NEW x \in Near(text, z), Goes(op, z)
  PROVE  Goes(op, x) /\ StepOf(op, x) \in Near(text, StepOf(op, z))
<1>1. /\ op.path \in NotePath /\ op.to \in NotePath
      /\ op.kind \in {"save", "create", "delete", "move"}
  BY OpFields
<1>2. /\ x \in Notes
      /\ \A p \in NotePath : (x[p] = {} <=> z[p] = {}) /\ (x[p] = z[p] \/ x[p] = {text})
  BY DEF Near
<1>3. PICK v, w : v = StepOf(op, x) /\ w = StepOf(op, z)
  OBVIOUS
<1>4. v \in Notes /\ \A p \in NotePath : p # op.path /\ ~Moves(op, p) => v[p] = x[p]
  BY <1>2, <1>3, StepIs
<1>5. \A p \in NotePath : p # op.path /\ ~Moves(op, p) => w[p] = z[p]
  BY <1>3, StepIs
<1> DEFINE Close(p) == (v[p] = {} <=> w[p] = {}) /\ (v[p] = w[p] \/ v[p] = {text})
<1>6. CASE op.kind = "move"
  <2>1. z[op.path] # {} /\ z[op.to] = {} /\ op.path # op.to
    BY <1>6, Goings
  <2>2. Goes(op, x)
    BY <1>1, <1>2, <2>1 DEF Goes
  <2>3. v[op.path] = {} /\ v[op.to] = x[op.path]
    BY <1>2, <1>3, <1>6, <2>1, StepIs
  <2>4. w[op.path] = {} /\ w[op.to] = z[op.path]
    BY <1>3, <1>6, <2>1, StepIs
  <2>5. Close(op.path)
    BY <2>3, <2>4
  <2>6. Close(op.to)
    BY <1>1, <1>2, <2>3, <2>4
  <2>7. ASSUME NEW p \in NotePath, p # op.path, p # op.to PROVE Close(p)
    <3>1. v[p] = x[p] /\ w[p] = z[p]
      BY <1>4, <1>5, <2>7 DEF Moves
    <3> QED
      BY <1>2, <3>1
  <2>8. \A p \in NotePath : Close(p)
    BY <2>5, <2>6, <2>7
  <2> QED
    BY <1>3, <1>4, <2>2, <2>8 DEF Near
<1>7. CASE op.kind # "move"
  <2>1. v[op.path] = w[op.path]
    <3>1. CASE op.kind = "delete"
      <4>1. v[op.path] = {}
        BY <1>2, <1>3, <3>1, StepIs
      <4>2. w[op.path] = {}
        BY <1>3, <3>1, StepIs
      <4> QED
        BY <4>1, <4>2
    <3>2. CASE op.kind \in Writes
      <4>1. v[op.path] = {op.text}
        BY <1>2, <1>3, <3>2, StepIs
      <4>2. w[op.path] = {op.text}
        BY <1>3, <3>2, StepIs
      <4> QED
        BY <4>1, <4>2
    <3> QED
      BY <1>1, <1>7, <3>1, <3>2 DEF Writes
  <2>2. ASSUME NEW p \in NotePath, p # op.path PROVE Close(p)
    <3>1. v[p] = x[p] /\ w[p] = z[p]
      BY <1>4, <1>5, <1>7, <2>2 DEF Moves
    <3> QED
      BY <1>2, <3>1
  <2>3. \A p \in NotePath : Close(p)
    BY <2>1, <2>2
  <2>4. Goes(op, x)
    BY <1>7 DEF Goes
  <2> QED
    BY <1>3, <1>4, <2>3, <2>4 DEF Near
<1> QED
  BY <1>6, <1>7

LEMMA LeadsGivenUp ==
  ASSUME NEW n, NEW Q, OpSet(n, Q), NEW h, IsFirst(h, Q), h.kind \in Writes,
         NEW m \in Notes, m[h.path] # {},
         NEW L, Leads(m, Q, L), NEW K, DOMAIN K \subseteq DOMAIN L \cap NotePath,
         \A p \in DOMAIN K : K[p] = L[p] /\ K[p] # h.text
  PROVE  Leads(m, Q \ {h}, K)
<1>1. /\ h \in Op(n) /\ h.id \in Nat /\ h \in Q /\ OpSet(n, Q \ {h})
      /\ \A x \in Q \ {h} : x.id \in Nat /\ h.id < x.id
  BY FirstIs DEF IsFirst
<1>2. PICK R, at, text : R = Q \ {h} /\ at = h.id /\ text = h.text
  OBVIOUS
<1>3. /\ at \in Nat /\ OpSet(n, R) /\ R \subseteq Q /\ \A a \in R : a \in Op(n) /\ a.id \in Nat /\ at < a.id
      /\ \A a \in Q : a.id \in Nat /\ (a = h \/ a \in R)
  BY <1>1, <1>2 DEF OpSet
<1> SUFFICES ASSUME NEW j \in Nat, NEW s, Replay(R, j, s, m), \A a \in R : a.id < j
             PROVE  AsIn(s[j], K)
  BY <1>2 DEF Leads
<1>4. PICK k \in Nat : \E r : /\ k > at /\ \A a \in R : a.id < k
                              /\ Replay(R, k, r, m) /\ r[k] = s[j]
  <2>1. Past(R, m, at, s[j])
    BY <1>3, Longer
  <2> QED
    BY <2>1 DEF Past
<1>5. PICK r : k > at /\ (\A a \in R : a.id < k) /\ Replay(R, k, r, m) /\ r[k] = s[j]
  BY <1>4
<1>6. r \in [0..k -> Notes] /\ r[0] = m /\ \A i \in 0..(k - 1) : Stepped(R, i, r[i], r[i + 1])
  BY <1>5 DEF Replay
<1>7. PICK G : G = [i \in 0..k |-> IF i <= at THEN {m} ELSE Near(text, r[i])]
  OBVIOUS
<1>8. \A i \in 0..k : G[i] \subseteq Notes /\ r[i] \in Notes
  BY <1>6, <1>7 DEF Near
<1>9. m \in G[0]
  <2>1. 0 \in 0..k /\ 0 <= at
    BY <1>3
  <2> QED
    BY <1>7, <2>1
<1>10. r[at + 1] = m
  <2>1. at + 1 \in 0..k /\ 0 \in 0..k
    BY <1>3, <1>5
  <2>2. \A a \in R : a.id \notin 0..((at + 1) - 1)
    BY <1>3
  <2> QED
    BY <1>5, <1>6, <2>1, <2>2, ReplayStill
<1>11. ASSUME NEW i \in 0..(k - 1), NEW x \in G[i] PROVE \E y \in G[i + 1] : Stepped(Q, i, x, y)
  <2>1. i \in 0..k /\ i + 1 \in 0..k /\ i \in Nat
    OBVIOUS
  <2>2. Stepped(R, i, r[i], r[i + 1]) /\ r[i] \in Notes /\ r[i + 1] \in Notes /\ x \in Notes
    BY <1>6, <1>8, <2>1
  <2>3. CASE i < at
    <3>1. x = m /\ G[i + 1] = {m}
      BY <1>3, <1>7, <2>1, <2>3
    <3>2. \A a \in Q : a.id # i
      BY <1>2, <1>3, <2>3
    <3>3. Stepped(Q, i, x, m)
      BY <3>1, <3>2 DEF Stepped
    <3> QED
      BY <3>1, <3>3
  <2>4. CASE i = at
    <3>1. x = m /\ G[i + 1] = Near(text, r[i + 1])
      BY <1>3, <1>7, <2>1, <2>4
    <3>2. r[i + 1] = m
      BY <1>10, <2>4
    <3>3. PICK y : y = StepOf(h, m)
      OBVIOUS
    <3>4. y \in Notes /\ \A p \in NotePath : p # h.path => y[p] = m[p]
      BY <1>1, <3>3, StepIs DEF Moves, Writes
    <3>5. y[h.path] = {h.text}
      BY <1>1, <3>3, StepIs
    <3>6. y \in Near(text, m)
      BY <1>2, <3>4, <3>5 DEF Near
    <3>7. Goes(h, x)
      BY DEF Goes, Writes
    <3>8. Stepped(Q, i, x, y)
      BY <1>1, <1>2, <2>4, <3>1, <3>3, <3>7, OfThatId
    <3> QED
      BY <3>1, <3>2, <3>6, <3>8
  <2>5. CASE i > at
    <3>1. x \in Near(text, r[i]) /\ G[i + 1] = Near(text, r[i + 1])
      BY <1>3, <1>7, <2>1, <2>5
    <3>2. h.id # i
      BY <1>2, <1>3, <2>5
    <3>3. CASE \E a \in R : a.id = i
      <4>1. PICK a \in R : a.id = i
        BY <3>3
      <4>2. Goes(a, r[i]) /\ r[i + 1] = StepOf(a, r[i])
        BY <1>3, <2>2, <4>1, SteppedNotes
      <4>3. PICK y : y = StepOf(a, x)
        OBVIOUS
      <4>4. Goes(a, x) /\ y \in Near(text, r[i + 1])
        BY <1>3, <2>2, <3>1, <4>2, <4>3, StepNear
      <4>5. Stepped(Q, i, x, y)
        BY <1>3, <4>1, <4>3, <4>4, OfThatId
      <4> QED
        BY <3>1, <4>4, <4>5
    <3>4. CASE \A a \in R : a.id # i
      <4>1. r[i + 1] = r[i]
        BY <2>2, <3>4 DEF Stepped
      <4>2. \A a \in Q : a.id # i
        BY <1>3, <3>2, <3>4
      <4>3. Stepped(Q, i, x, x)
        BY <4>2 DEF Stepped
      <4> QED
        BY <3>1, <4>1, <4>3
    <3> QED
      BY <3>3, <3>4
  <2> QED
    BY <1>3, <2>1, <2>3, <2>4, <2>5
<1>12. \A y \in G[k] : AsIn(y, L) => AsIn(r[k], K)
  <2>1. k \in 0..k /\ ~(k <= at)
    BY <1>3, <1>5
  <2>2. G[k] = Near(text, r[k])
    BY <1>7, <2>1
  <2>3. ASSUME NEW y \in G[k], AsIn(y, L), NEW p \in DOMAIN K PROVE r[k][p] = {K[p]}
    <3>1. p \in NotePath /\ p \in DOMAIN L /\ K[p] = L[p] /\ K[p] # text
      BY <1>2
    <3>2. y[p] = {K[p]}
      BY <2>3, <3>1 DEF AsIn
    <3>3. y[p] = r[k][p] \/ y[p] = {text}
      BY <2>2, <3>1 DEF Near
    <3> QED
      BY <3>1, <3>2, <3>3
  <2> QED
    BY <2>3 DEF AsIn
<1>13. \A a \in Q : a.id < k
  BY <1>2, <1>3, <1>5
<1>14. AsIn(r[k], K)
  <2>1. \A i \in 0..k : G[i] \subseteq Notes
    BY <1>8
  <2>2. \A a \in Q \cup R : a.id \in Nat
    BY <1>3
  <2>3. \A i \in 0..(k - 1) : \A x \in G[i] : \E y \in G[i + 1] : Stepped(Q, i, x, y)
    BY <1>11
  <2>4. Replay(R, k, r, m) /\ Leads(m, Q, L)
    BY <1>5
  <2>5. PICK q : Replay(Q, k, q, m) /\ q[k] \in G[k]
    BY <1>9, <2>1, <2>3, Beside
  <2>6. AsIn(q[k], L)
    BY <1>13, <2>4, <2>5 DEF Leads
  <2> QED
    BY <1>12, <2>5, <2>6
<1> QED
  BY <1>5, <1>14

-----------------------------------------------------------------------------
(***************************************************************************)
(* The vault's files as notes: a request that is accepted takes its step,  *)
(* and one that is done already has nothing to take.                       *)
(***************************************************************************)
LEMMA ParentsApart ==
  ASSUME NEW p \in NotePath, NEW q \in Parents(p)
  PROVE  q \notin NotePath
<1>1. p \in Seq(STRING) /\ Len(p) \in Nat /\ \A r, s \in NotePath : ~IsWithin(r, s)
  BY SyncAssumption, LenProperties
<1>2. PICK n \in 1..(Len(p) - 1) : q = SubSeq(p, 1, n)
  BY DEF Parents
<1>3. q \in Seq(STRING) /\ Len(q) = n
  <2>1. \A i \in 1..n : p[i] \in STRING
    BY <1>1, ElementOfSeq
  <2> QED
    BY <1>2, <2>1, SubSeqProperties
<1>4. SubSeq(q, 1, Len(q)) = SubSeq(p, 1, Len(q))
  <2>1. 1 \in 1..Len(p) /\ n \in 1..Len(p) /\ 1 \in 1..(n - 1 + 1) /\ n \in 1..(n - 1 + 1)
    BY <1>1
  <2>2. SubSeq(SubSeq(p, 1, n), 1, n) = SubSeq(p, 1 + 1 - 1, 1 + n - 1)
    BY <1>1, <2>1, SubSeqOfSubSeq
  <2>3. 1 + 1 - 1 = 1 /\ 1 + n - 1 = n
    BY <1>1
  <2> QED
    BY <1>2, <1>3, <2>2, <2>3
<1>5. Len(q) <= Len(p) /\ p # q
  BY <1>1, <1>3
<1>6. IsWithin(p, q)
  BY <1>4, <1>5 DEF IsWithin, IsStrictPrefix, IsPrefix
<1> QED
  BY <1>1, <1>6

LEMMA ShowsIs ==
  ASSUME NEW v, FilesFit(v)
  PROVE  /\ Shows(v) \in Notes
         /\ \A p \in NotePath : IF p \in DOMAIN v THEN Shows(v)[p] = {v[p]} ELSE Shows(v)[p] = {}
BY DEF Shows, Notes, FilesFit

LEMMA NotesSame ==
  ASSUME NEW x \in Notes, NEW y \in Notes, \A p \in NotePath : x[p] = y[p]
  PROVE  x = y
BY DEF Notes

\* What is shown of a vault that an operation has changed.
LEMMA ShowsStep ==
  ASSUME NEW n, NEW op \in Op(n), NEW v, FilesFit(v), NEW e, FilesFit(e),
         NEW x \in SUBSET NotePath, x = {op.path} \cup {p \in NotePath : Moves(op, p)},
         \A p \in NotePath \ x : p \in DOMAIN e <=> p \in DOMAIN v,
         \A p \in (NotePath \cap DOMAIN v) \ x : e[p] = v[p],
         \A p \in x : Shows(e)[p] = StepOf(op, Shows(v))[p]
  PROVE  Shows(e) = StepOf(op, Shows(v))
<1>1. PICK m, s, w : m = Shows(v) /\ s = Shows(e) /\ w = StepOf(op, m)
  OBVIOUS
<1>2. /\ m \in Notes
      /\ \A p \in NotePath : IF p \in DOMAIN v THEN m[p] = {v[p]} ELSE m[p] = {}
  BY <1>1, ShowsIs
<1>3. /\ s \in Notes
      /\ \A p \in NotePath : IF p \in DOMAIN e THEN s[p] = {e[p]} ELSE s[p] = {}
  BY <1>1, ShowsIs
<1>4. w \in Notes /\ \A p \in NotePath : p # op.path /\ ~Moves(op, p) => w[p] = m[p]
  BY <1>1, <1>2, StepIs
<1>5. ASSUME NEW p \in NotePath PROVE s[p] = w[p]
  <2>1. CASE p \in x
    BY <1>1, <2>1
  <2>2. CASE p \notin x
    <3>1. w[p] = m[p]
      BY <1>4, <2>2
    <3>2. p \in DOMAIN e <=> p \in DOMAIN v
      BY <2>2
    <3>3. CASE p \in DOMAIN v
      <4>1. e[p] = v[p] /\ s[p] = {e[p]}
        BY <1>3, <2>2, <3>2, <3>3
      <4>2. m[p] = {v[p]}
        BY <1>2, <3>3
      <4> QED
        BY <3>1, <4>1, <4>2
    <3>4. CASE p \notin DOMAIN v
      <4>1. s[p] = {} /\ m[p] = {}
        BY <1>2, <1>3, <3>2, <3>4
      <4> QED
        BY <3>1, <4>1
    <3> QED
      BY <3>3, <3>4
  <2> QED
    BY <2>1, <2>2
<1> QED
  BY <1>1, <1>3, <1>4, <1>5, NotesSame

LEMMA ShowsEffect ==
  ASSUME NEW v, FilesFit(v), NEW n, NEW op \in Op(n)
  PROVE  /\ Accepted(v, op) => Goes(op, Shows(v)) /\ Shows(Effect(v, op)) = StepOf(op, Shows(v))
         /\ AlreadyDone(v, op) => Goes(op, Shows(v)) /\ StepOf(op, Shows(v)) = Shows(v)
         /\ ~Accepted(v, op) => Effect(v, op) = v
<1>1. PICK e, m : e = Effect(v, op) /\ m = Shows(v)
  OBVIOUS
<1>2. /\ op.path \in NotePath /\ op.to \in NotePath
      /\ op.kind \in {"save", "create", "delete", "move"} /\ (op.kind \in Writes => op.text \in Int)
  BY OpFields
<1>3. /\ m \in Notes
      /\ \A p \in NotePath : IF p \in DOMAIN v THEN m[p] = {v[p]} ELSE m[p] = {}
  BY <1>1, ShowsIs
<1>4. DOMAIN v \subseteq Places /\ FilesFit(e)
  <2>1. DOMAIN v \subseteq Places
    BY DEF FilesFit
  <2>2. DOMAIN e \subseteq Places
    BY <1>1, <2>1, EffectIs
  <2>3. ASSUME NEW p \in DOMAIN e PROVE e[p] \in Int
    <3>1. e[p] = Folder \/ (\E q \in DOMAIN v : e[p] = v[q]) \/ (op.kind \in Writes /\ e[p] = op.text)
      BY <1>1, <2>1, EffectIs
    <3> QED
      BY <1>2, <3>1 DEF FilesFit, Folder
  <2> QED
    BY <2>1, <2>2, <2>3 DEF FilesFit
<1>5. \A p \in NotePath : IF p \in DOMAIN e THEN Shows(e)[p] = {e[p]} ELSE Shows(e)[p] = {}
  BY <1>4, ShowsIs
<1>6. PICK x : x = {op.path} \cup {p \in NotePath : Moves(op, p)}
  OBVIOUS
<1>7. x \subseteq NotePath
  BY <1>2, <1>6
<1>8. ASSUME Accepted(v, op), op.kind \in Writes
      PROVE  Goes(op, m) /\ Shows(e) = StepOf(op, m)
  <2>1. e = Put(v, op.path, op.text)
    BY <1>1, <1>8 DEF Effect, Writes
  <2>2. PICK w : w = Written(v, op.path, op.text)
    OBVIOUS
  <2>3. /\ DOMAIN w = DOMAIN v \cup {op.path}
        /\ w[op.path] = op.text /\ \A p \in DOMAIN v \ {op.path} : w[p] = v[p]
    BY <2>2 DEF Written
  <2>4. e = [p \in DOMAIN w \cup Parents(op.path) |-> IF p \in DOMAIN w THEN w[p] ELSE Folder]
    BY <2>1, <2>2 DEF Put, WithParents
  <2>5. /\ \A p \in NotePath : p \in DOMAIN e <=> p \in DOMAIN w
        /\ \A p \in DOMAIN w : e[p] = w[p]
    BY <1>2, <2>4, ParentsApart
  <2>6. x = {op.path}
    BY <1>6, <1>8 DEF Moves, Writes
  <2>7. Shows(e)[op.path] = {op.text}
    BY <1>2, <1>5, <2>3, <2>5
  <2>8. StepOf(op, m)[op.path] = {op.text}
    BY <1>3, <1>8, StepIs
  <2>9. Shows(e) = StepOf(op, m)
    <3>1. \A p \in NotePath \ x : p \in DOMAIN e <=> p \in DOMAIN v
      BY <2>3, <2>5, <2>6
    <3>2. \A p \in (NotePath \cap DOMAIN v) \ x : e[p] = v[p]
      BY <2>3, <2>5, <2>6
    <3>3. \A p \in x : Shows(e)[p] = StepOf(op, Shows(v))[p]
      BY <1>1, <2>6, <2>7, <2>8
    <3> QED
      BY <1>1, <1>4, <1>6, <1>7, <3>1, <3>2, <3>3, ShowsStep
  <2> QED
    BY <1>8, <2>9 DEF Goes, Writes
<1>9. ASSUME Accepted(v, op), op.kind = "delete"
      PROVE  Goes(op, m) /\ Shows(e) = StepOf(op, m)
  <2>1. e = Removed(v, op.path)
    BY <1>1, <1>9 DEF Effect
  <2>2. PICK at : at = op.path /\ at \in NotePath
    BY <1>2
  <2>3. /\ DOMAIN Removed(v, at) = DOMAIN v \ {at}
        /\ \A p \in DOMAIN v \ {at} : Removed(v, at)[p] = v[p]
    BY <1>4, <2>2, RemovedIs
  <2>4. DOMAIN e = DOMAIN v \ {op.path} /\ \A p \in DOMAIN e : e[p] = v[p]
    BY <2>1, <2>2, <2>3
  <2>5. x = {op.path}
    BY <1>6, <1>9 DEF Moves
  <2>6. Shows(e)[op.path] = {}
    BY <1>2, <1>5, <2>4
  <2>7. StepOf(op, m)[op.path] = {}
    BY <1>3, <1>9, StepIs
  <2>8. Shows(e) = StepOf(op, m)
    <3>1. \A p \in NotePath \ x : p \in DOMAIN e <=> p \in DOMAIN v
      BY <2>4, <2>5
    <3>2. \A p \in (NotePath \cap DOMAIN v) \ x : e[p] = v[p]
      BY <2>4, <2>5
    <3>3. \A p \in x : Shows(e)[p] = StepOf(op, Shows(v))[p]
      BY <1>1, <2>5, <2>6, <2>7
    <3> QED
      BY <1>1, <1>4, <1>6, <1>7, <3>1, <3>2, <3>3, ShowsStep
  <2> QED
    BY <1>9, <2>8 DEF Goes
<1>10. ASSUME Accepted(v, op), op.kind = "move"
       PROVE  Goes(op, m) /\ Shows(e) = StepOf(op, m)
  <2>1. e = Rename(v, op.path, op.to) /\ op.path \in DOMAIN v /\ op.to \notin DOMAIN v
    BY <1>1, <1>10 DEF Effect, Accepted
  <2>2. PICK w : w = Relocated(v, op.path, op.to)
    OBVIOUS
  <2>3. /\ DOMAIN w = (DOMAIN v \ {op.path}) \cup {op.to} /\ w[op.to] = v[op.path]
        /\ \A p \in DOMAIN w : p = op.to \/ (p \in DOMAIN v /\ w[p] = v[p])
    <3>1. WithMoved(w, v, op.path, op.to)
      BY <1>2, <1>4, <2>2, RelocatedIs
    <3> QED
      BY <2>1, <3>1 DEF WithMoved
  <2>4. e = [p \in DOMAIN w \cup Parents(op.to) |-> IF p \in DOMAIN w THEN w[p] ELSE Folder]
    BY <2>1, <2>2 DEF Rename, WithParents
  <2>5. /\ \A p \in NotePath : p \in DOMAIN e <=> p \in DOMAIN w
        /\ \A p \in DOMAIN w : e[p] = w[p]
    BY <1>2, <2>4, ParentsApart
  <2>6. x = {op.path, op.to}
    BY <1>2, <1>6, <1>10 DEF Moves
  <2>7. Goes(op, m) /\ op.path # op.to
    BY <1>2, <1>3, <2>1 DEF Goes
  <2>8. Shows(e)[op.path] = {}
    BY <1>2, <1>5, <2>3, <2>5, <2>7
  <2>9. Shows(e)[op.to] = m[op.path]
    <3>1. op.to \in DOMAIN e /\ e[op.to] = v[op.path]
      BY <1>2, <2>3, <2>5
    <3>2. Shows(e)[op.to] = {v[op.path]}
      BY <1>2, <1>5, <3>1
    <3>3. m[op.path] = {v[op.path]}
      BY <1>2, <1>3, <2>1
    <3> QED
      BY <3>2, <3>3
  <2>10. StepOf(op, m)[op.path] = {} /\ StepOf(op, m)[op.to] = m[op.path]
    BY <1>3, <1>10, <2>7, StepIs
  <2>11. Shows(e) = StepOf(op, m)
    <3>1. \A p \in NotePath \ x : p \in DOMAIN e <=> p \in DOMAIN v
      BY <2>3, <2>5, <2>6
    <3>2. \A p \in (NotePath \cap DOMAIN v) \ x : e[p] = v[p]
      BY <2>3, <2>5, <2>6
    <3>3. \A p \in x : Shows(e)[p] = StepOf(op, Shows(v))[p]
      BY <1>1, <2>6, <2>8, <2>9, <2>10
    <3> QED
      BY <1>1, <1>4, <1>6, <1>7, <3>1, <3>2, <3>3, ShowsStep
  <2> QED
    BY <2>7, <2>11
<1>11. ASSUME AlreadyDone(v, op) PROVE Goes(op, m) /\ StepOf(op, m) = m
  <2>1. op.kind # "move" /\ Goes(op, m)
    BY <1>11 DEF AlreadyDone, Goes
  <2>2. PICK w : w = StepOf(op, m)
    OBVIOUS
  <2>3. w \in Notes /\ \A p \in NotePath : p # op.path => w[p] = m[p]
    BY <1>3, <2>1, <2>2, StepIs DEF Moves
  <2>4. w[op.path] = m[op.path]
    <3>1. CASE op.kind = "delete"
      <4>1. w[op.path] = {}
        BY <1>3, <2>2, <3>1, StepIs
      <4>2. m[op.path] = {}
        BY <1>2, <1>3, <1>11, <3>1 DEF AlreadyDone
      <4> QED
        BY <4>1, <4>2
    <3>2. CASE op.kind \in Writes
      <4>1. w[op.path] = {op.text}
        BY <1>3, <2>2, <3>2, StepIs
      <4>2. m[op.path] = {op.text}
        BY <1>2, <1>3, <1>11, <3>2 DEF AlreadyDone, Writes
      <4> QED
        BY <4>1, <4>2
    <3> QED
      BY <1>2, <2>1, <3>1, <3>2 DEF Writes
  <2>5. \A p \in NotePath : w[p] = m[p]
    BY <2>3, <2>4
  <2>6. w = m
    BY <1>3, <2>3, <2>5, NotesSame
  <2> QED
    BY <2>1, <2>2, <2>6
<1> QED
  BY <1>1, <1>2, <1>8, <1>9, <1>10, <1>11 DEF Effect, Writes

LEMMA HandledLeads ==
  ASSUME NEW v, FilesFit(v), NEW n, NEW Q, OpSet(n, Q), NEW h, IsFirst(h, Q),
         NEW L, Leads(Shows(v), Q, L), NEW e, e = Effect(v, h)
  PROVE  /\ Leads(Shows(e), Q, L)
         /\ Accepted(v, h) \/ AlreadyDone(v, h) => Leads(Shows(e), Q \ {h}, L)
<1>1. PICK m : m = Shows(v)
  OBVIOUS
<1>2. h \in Op(n) /\ m \in Notes /\ Leads(m, Q, L)
  BY <1>1, FirstIs, ShowsIs
<1>3. CASE Accepted(v, h)
  <2>1. Goes(h, m) /\ Shows(e) = StepOf(h, m)
    BY <1>1, <1>2, <1>3, ShowsEffect
  <2>2. Leads(StepOf(h, m), Q \ {h}, L) /\ Leads(StepOf(h, m), Q, L)
    BY <1>2, <2>1, LeadsSent
  <2> QED
    BY <2>1, <2>2
<1>4. CASE ~Accepted(v, h)
  <2>1. e = v
    BY <1>2, <1>4, ShowsEffect
  <2>2. ASSUME AlreadyDone(v, h) PROVE Leads(m, Q \ {h}, L)
    <3>1. Goes(h, m) /\ StepOf(h, m) = m
      BY <1>1, <1>2, <2>2, ShowsEffect
    <3>2. Leads(StepOf(h, m), Q \ {h}, L)
      BY <1>2, <3>1, LeadsSent
    <3> QED
      BY <3>1, <3>2
  <2> QED
    BY <1>1, <1>2, <1>4, <2>1, <2>2
<1> QED
  BY <1>3, <1>4

\* Nothing queued: what is there is what is stood by, and stays so.
LEMMA HandledNow ==
  ASSUME NEW v, FilesFit(v), NEW n, NEW op \in Op(n), NEW L, Leads(Shows(v), {}, L), Accepted(v, op),
         NEW K, DOMAIN K \subseteq NotePath, After(K, L, op), NEW e, e = Effect(v, op)
  PROVE  Leads(Shows(e), {}, K)
<1>1. PICK m, w : m = Shows(v) /\ w = StepOf(op, m)
  OBVIOUS
<1>2. m \in Notes /\ Goes(op, m) /\ Shows(e) = w
  BY <1>1, ShowsIs, ShowsEffect
<1>3. AsIn(m, L)
  BY <1>1, <1>2, LeadsNow
<1>4. AsIn(w, K)
  BY <1>1, <1>2, <1>3, AsInAfter
<1>5. w \in Notes
  BY <1>1, <1>2, StepIs
<1> QED
  BY <1>2, <1>4, <1>5, LeadsNow

LEMMA KeptIs ==
  ASSUME NEW n \in Nat, LatestFits(n, latest), NEW op \in Op(n + 1), Kept(op)
  PROVE  DOMAIN latest' \subseteq NotePath /\ After(latest', latest, op)
<1>1. op.path \in NotePath /\ op.to \in NotePath /\ op.kind \in {"save", "create", "delete", "move"}
  BY OpFields
<1>2. DOMAIN latest \subseteq NotePath /\ DOMAIN latest \subseteq Places
  BY DEF LatestFits, Places
<1>3. DOMAIN latest' \subseteq NotePath
  BY KeptFits DEF LatestFits
<1>4. CASE op.kind \in {"save", "create"}
  <2>1. latest' = Written(latest, op.path, op.text)
    BY <1>4 DEF Kept
  <2>2. \A p \in DOMAIN latest' : IF p = op.path THEN latest'[p] = op.text
                                 ELSE p \in DOMAIN latest /\ latest'[p] = latest[p]
    BY <2>1 DEF Written
  <2> QED
    BY <1>3, <1>4, <2>2 DEF After
<1>5. CASE op.kind = "delete"
  <2>1. PICK at : at = op.path /\ at \in NotePath
    BY <1>1
  <2>2. latest' = Removed(latest, at)
    BY <1>5, <2>1 DEF Kept
  <2>3. /\ DOMAIN Removed(latest, at) = DOMAIN latest \ {at}
        /\ \A p \in DOMAIN latest \ {at} : Removed(latest, at)[p] = latest[p]
    BY <1>2, <2>1, RemovedIs
  <2>4. at \notin DOMAIN latest' /\ \A p \in DOMAIN latest' : p \in DOMAIN latest /\ latest'[p] = latest[p]
    BY <2>2, <2>3
  <2> QED
    BY <1>3, <1>5, <2>1, <2>4 DEF After
<1>6. CASE op.kind = "move"
  <2>1. latest' = Relocated(latest, op.path, op.to)
    BY <1>6 DEF Kept
  <2>2. WithMoved(latest', latest, op.path, op.to)
    BY <1>1, <1>2, <2>1, RelocatedIs
  <2> QED
    BY <1>3, <1>6, <2>2 DEF After
<1> QED
  BY <1>1, <1>4, <1>5, <1>6

LEMMA TailIs ==
  ASSUME NEW n, NEW q \in Seq(Op(n)), q # <<>>, Ordered(q)
  PROVE  /\ IsFirst(Head(q), ToSet(q)) /\ Ordered(Tail(q)) /\ Tail(q) \in Seq(Op(n))
         /\ ToSet(Tail(q)) = ToSet(q) \ {Head(q)}
<1>1. PICK h, r : h = Head(q) /\ r = Tail(q)
  OBVIOUS
<1>2. /\ h \in ToSet(q) /\ ToSet(r) \subseteq ToSet(q) /\ \A x \in ToSet(q) : x = h \/ x \in ToSet(r)
      /\ Ordered(r) /\ \A x \in ToSet(q) : h.id <= x.id
  BY <1>1, HeadAndTail
<1>3. /\ Len(q) \in Nat /\ Len(q) # 0 /\ DOMAIN q = 1..Len(q)
      /\ \A i \in 1..Len(q) : q[i].id \in Nat
  BY LenProperties, EmptySeq, ElementOfSeq, OpFields
<1>4. r \in Seq(Op(n)) /\ DOMAIN r = 1..(Len(q) - 1) /\ \A i \in 1..(Len(q) - 1) : r[i] = q[i + 1]
  <2>1. r \in Seq(Op(n)) /\ Len(r) = Len(q) - 1 /\ \A i \in 1..Len(r) : r[i] = q[i + 1]
    BY <1>1, HeadTailProperties
  <2> QED
    BY <2>1, LenProperties
<1>5. ASSUME h \in ToSet(r) PROVE FALSE
  <2>1. PICK i \in 1..(Len(q) - 1) : h = r[i]
    BY <1>4, <1>5 DEF ToSet
  <2>2. 1 \in DOMAIN q /\ i + 1 \in DOMAIN q /\ 1 < i + 1 /\ q[1] = h /\ q[i + 1] = h
    BY <1>1, <1>3, <1>4, <2>1
  <2>3. q[1].id < q[i + 1].id /\ q[1].id \in Nat
    BY <1>3, <2>2 DEF Ordered
  <2> QED
    BY <2>2, <2>3
<1> QED
  BY <1>1, <1>2, <1>4, <1>5 DEF IsFirst

LEMMA CompactRest ==
  ASSUME NEW n, NEW Q, OpSet(n, Q), Compact(Q), NEW h, IsFirst(h, Q)
  PROVE  Compact(Q \ {h})
<1>1. PICK R : R = Q \ {h}
  OBVIOUS
<1>2. \A x \in Q : x.id \in Nat /\ h.id <= x.id
  BY OpFields DEF OpSet, IsFirst
<1>3. \A a, b \in R : \A c \in Q : a.id < c.id /\ c.id < b.id => c \in R
  <2> SUFFICES ASSUME NEW a \in R, NEW c \in Q, a.id < c.id PROVE c # h
    BY <1>1
  <2>1. a.id \in Nat /\ h.id <= a.id /\ c.id \in Nat
    BY <1>1, <1>2
  <2> QED
    BY <1>2, <2>1
<1> QED
  BY <1>1, <1>3, CompactPart

-----------------------------------------------------------------------------
(***************************************************************************)
(* The course of a replay that goes as it should: no move has been         *)
(* refused, nobody else has written and the replays keep apart.  Then what *)
(* is queued, replayed, leads where the person stands.                     *)
(***************************************************************************)
Fresh(q) == (\A a \in ToSet(q) : ~a.failed) /\ Compact(ToSet(q))

\* The queue, with the operation on its way to it.
Coming == IF edit.at = "queueing" THEN Enqueued(edit.queue, edit.op) ELSE outbox
Leading == Fresh(Coming) /\ Leads(Shows(files), ToSet(Coming), latest)

\* The place of the one task that is at work: a replay sends the queue, and drops its
\* first operation only when the rest leads there without it.
PlaceIs(x, run, q, f, l) ==
  /\ x.at \in {"reading", "sending", "drop", "dropping"}
  /\ run /\ x.at # "reading" => Ordered(x.todo) /\ ToSet(x.todo) = ToSet(q)
  /\ x.at \in {"drop", "dropping"}
     => IsFirst(Head(x.todo), ToSet(q)) /\ Leads(Shows(f), ToSet(q) \ {Head(x.todo)}, l)
  /\ x.at = "dropping" => x.queue = q
Working ==
  \A t \in Task : Busy(t) =>
    /\ \A s \in Task : Busy(s) => s = t
    /\ dialogs = {} /\ PlaceIs(task[t], t \in Runs, outbox, files, latest)

\* The one question on screen is of the first operation, or nothing is queued.
Asking ==
  \A d \in dialogs :
    /\ dialogs = {d}
    /\ IF d.queued THEN IsFirst(d.op, ToSet(outbox)) /\ d.op.path \in DOMAIN files
       ELSE outbox = <<>>

Course   == Leading /\ Working /\ Asking
OnCourse == ~astray /\ foreign = 0 => Course

LEMMA CalmCourse == Quiet /\ Leading /\ Asking => Course
BY DEF Quiet, Working, Course

LEMMA NothingQueued == ToSet(<<>>) = {} /\ Fresh(<<>>)
<1>1. ToSet(<<>>) = {}
  BY DEF ToSet
<1> QED
  BY <1>1 DEF Fresh, Compact

LEMMA EnqueuedLeads ==
  ASSUME NEW n, NEW q, QueueFits(n, q), NEW op \in Op(n), ~op.failed, Fresh(q),
         NEW new, new = Numbered(op, NextId(q)),
         NEW m \in Notes, NEW K, DOMAIN K \subseteq NotePath,
         op.kind = "delete" => op.path \notin DOMAIN K, Leads(m, ToSet(q) \cup {new}, K)
  PROVE  Fresh(Enqueued(q, op)) /\ Leads(m, ToSet(Enqueued(q, op)), K)
<1>1. /\ Enqueued(q, op) = Coalesce(Append(q, new)) /\ new \in Op(n) /\ NextId(q) \in Nat
      /\ \A a \in ToSet(q) : a.id < NextId(q)
  BY WholeIs DEF Whole
<1>2. /\ new.id = NextId(q) /\ new.kind = op.kind /\ new.path = op.path /\ ~new.failed
  BY <1>1, NumberedIs
<1>3. PICK Q, R : Q = ToSet(q) /\ R = ToSet(Enqueued(q, op))
  OBVIOUS
<1>4. /\ q \in Seq(Op(n)) /\ Ordered(q) /\ Compact(Q) /\ \A a \in Q : a.id < new.id /\ ~a.failed
  BY <1>1, <1>2, <1>3 DEF QueueFits, Fresh
<1>5. Joins(R, Q, new) /\ Compact(R)
  BY <1>1, <1>3, <1>4, CoalesceLast
<1>6. OpSet(n, Q \cup {new})
  <2>1. OpSet(n, Q) /\ \A a \in Q : a.id \in Nat
    BY <1>3, QueueIsOpSet, OpFields DEF OpSet
  <2>2. \A a \in Q : a.id # new.id
    BY <1>1, <1>2, <1>4, <2>1
  <2> QED
    BY <1>1, <2>1, <2>2 DEF OpSet
<1>7. Leads(m, R, K)
  BY <1>1, <1>2, <1>3, <1>4, <1>5, <1>6, LeadsCompacted
<1>8. \A a \in R : ~a.failed
  <2>1. CASE Added(R, Q, new)
    BY <1>2, <1>4, <2>1 DEF Added
  <2>2. CASE Merged(R, Q, new)
    <3>1. PICK at \in Q : /\ new.kind = "save" /\ at.kind \in Writes
                          /\ R = (Q \ {at}) \cup {Retexted(at, new.text)}
      BY <2>2 DEF Merged
    <3>2. at \in Op(n) /\ new.text \in 1..n
      BY <1>1, <1>6, <3>1, OpFields DEF OpSet, Writes
    <3>3. ~Retexted(at, new.text).failed
      BY <3>1, <3>2, RetextedIs
    <3> QED
      BY <1>4, <3>1, <3>3
  <2>3. CASE Cancels(R, Q, new)
    BY <1>2, <1>4, <2>3 DEF Cancels
  <2> QED
    BY <1>5, <2>1, <2>2, <2>3 DEF Joins
<1> QED
  BY <1>3, <1>5, <1>7, <1>8 DEF Fresh

-----------------------------------------------------------------------------
(***************************************************************************)
(* Every step keeps to the course.                                         *)
(***************************************************************************)
LEMMA InitCourse == Init => Course
<1> SUFFICES ASSUME Init PROVE Course
  OBVIOUS
<1>1. /\ outbox = <<>> /\ latest = <<>> /\ dialogs = {} /\ edit.at = "none"
      /\ \A t \in Task : task[t].at = "off"
  BY DEF Init, NoEdit, Off
<1>2. Coming = <<>> /\ DOMAIN latest = {}
  BY <1>1 DEF Coming
<1>3. Leads(Shows(files), ToSet(Coming), latest)
  BY <1>2 DEF Leads, AsIn
<1>4. Leading /\ Asking /\ Quiet
  BY <1>1, <1>2, <1>3, NothingQueued DEF Leading, Asking, Quiet, Busy
<1> QED
  BY <1>4, CalmCourse

LEMMA FrameCourse ==
  ASSUME Course, UNCHANGED <<files, outbox, dialogs, task, edit, latest>>
  PROVE  Course'
<1>1. Coming' = Coming
  BY DEF Coming
<1>2. Leading'
  BY <1>1 DEF Course, Leading
<1>3. Working'
  BY DEF Course, Working, Busy
<1>4. Asking'
  BY DEF Course, Asking
<1> QED
  BY <1>2, <1>3, <1>4 DEF Course

LEMMA CalmCourseNext == Quiet' /\ Leading' /\ Asking' => Course'
BY CalmCourse, PTL

LEMMA EditLiveCourse ==
  ASSUME ~Overlap, Types, Types', Course, NEW op \in Operations, EditLive(op)
  PROVE  Course'
<1>1. /\ Quiet /\ dialogs = {} /\ outbox = <<>> /\ edit.at = "none"
      /\ op \in Op(made + 1) /\ made \in Nat /\ FilesFit(files) /\ LatestFits(made, latest)
      /\ UNCHANGED <<outbox, task, edit>> /\ files' = Effect(files, op)
  BY OperationsAre, MadeMore DEF EditLive, Edits, Handled, Types
<1>2. Coming = <<>> /\ Coming' = <<>> /\ Quiet'
  BY <1>1 DEF Coming, Quiet, Busy
<1>3. Leads(Shows(files), {}, latest)
  BY <1>2, NothingQueued DEF Course, Leading
<1>4. CASE Accepted(files, op)
  <2>1. Kept(op) /\ dialogs' = dialogs
    BY <1>4 DEF EditLive
  <2>2. DOMAIN latest' \subseteq NotePath /\ After(latest', latest, op)
    BY <1>1, <2>1, KeptIs
  <2>3. Leads(Shows(files'), {}, latest')
    BY <1>1, <1>3, <1>4, <2>2, HandledNow
  <2>4. Leading' /\ Asking'
    BY <1>1, <1>2, <2>1, <2>3, NothingQueued DEF Leading, Asking
  <2> QED
    BY <1>2, <2>4, CalmCourseNext
<1>5. CASE ~Accepted(files, op)
  <2>1. files' = files /\ latest' = latest
    BY <1>1, <1>5, ShowsEffect DEF EditLive
  <2>2. Leading'
    BY <1>2, <1>3, <2>1, NothingQueued DEF Leading
  <2>3. \A d \in dialogs' : dialogs' = {d} /\ ~d.queued
    <3>1. dialogs' = Raised(op, FALSE) \/ dialogs' = {}
      BY <1>1, <1>5 DEF EditLive
    <3>2. PICK d0 : d0 = [op |-> op, hash |-> files[op.path], queued |-> FALSE]
      OBVIOUS
    <3>3. Raised(op, FALSE) = {d0} /\ ~d0.queued
      BY <1>1, <3>2 DEF Raised
    <3> QED
      BY <3>1, <3>3
  <2>4. Asking'
    BY <1>1, <2>3 DEF Asking
  <2> QED
    BY <1>2, <2>2, <2>4, CalmCourseNext
<1> QED
  BY <1>4, <1>5

LEMMA EditQueuedCourse ==
  ASSUME ~Overlap, Types, Types', Course, NEW op \in Operations, EditQueued(op)
  PROVE  Course'
<1>1. /\ Quiet /\ dialogs = {} /\ edit.at = "none" /\ op \in Op(made + 1) /\ ~op.failed
      /\ made \in Nat /\ FilesFit(files) /\ LatestFits(made, latest) /\ QueueFits(made + 1, outbox)
      /\ UNCHANGED <<outbox, task, dialogs>> /\ Kept(op)
      /\ edit'.at = "queueing" /\ edit'.op = op /\ edit'.queue = outbox
      /\ (outbox = <<>> /\ files' = Effect(files, op)) \/ files' = files
  BY OperationsAre, MadeMore DEF EditQueued, Edits, Handled, NotHandled, Types
<1>2. PICK m, new, Q : /\ m = Shows(files) /\ Q = ToSet(outbox)
                       /\ new = Numbered(op, NextId(outbox))
  OBVIOUS
<1>3. m \in Notes /\ Fresh(outbox) /\ Leads(m, Q, latest)
  BY <1>1, <1>2, ShowsIs DEF Course, Leading, Coming
<1>4. DOMAIN latest' \subseteq NotePath /\ After(latest', latest, op)
  BY <1>1, KeptIs
<1>5. /\ new \in Op(made + 1) /\ NextId(outbox) \in Nat /\ \A a \in Q : a.id < NextId(outbox)
      /\ QueueFits(made + 1, Whole(outbox, op)) /\ ToSet(Whole(outbox, op)) = Q \cup {new}
  BY <1>1, <1>2, WholeIs
<1>6. /\ new.id = NextId(outbox) /\ new.kind = op.kind /\ new.path = op.path /\ new.to = op.to
      /\ new.text = op.text
  BY <1>1, <1>2, <1>5, NumberedIs
<1>7. OpSet(made + 1, Q \cup {new})
  BY <1>5, QueueIsOpSet
<1>8. After(latest', latest, new)
  BY <1>4, <1>6 DEF After
<1>9. Leads(m, Q \cup {new}, latest')
  <2>1. \A a \in Q : a.id < new.id
    BY <1>5, <1>6
  <2> QED
    BY <1>3, <1>4, <1>5, <1>7, <1>8, <2>1, LeadsMore
<1>10. Shows(files') \in Notes
  BY ShowsIs DEF Types
<1>11. Leads(Shows(files'), Q \cup {new}, latest')
  <2>1. CASE files' = files
    BY <1>2, <1>9, <2>1
  <2>2. CASE outbox = <<>> /\ files' = Effect(files, op)
    <3>1. Q = {}
      BY <1>2, <2>2, NothingQueued
    <3>2. IsFirst(new, {new}) /\ OpSet(made + 1, {new}) /\ Leads(m, {new}, latest')
      BY <1>7, <1>9, <3>1, <1>5, <1>6 DEF IsFirst
    <3>3. Effect(files, new) = Effect(files, op)
      <4>1. new.base = op.base
        BY <1>1, <1>2 DEF Numbered, Op
      <4>2. Accepted(files, new) <=> Accepted(files, op)
        BY <1>6, <4>1 DEF Accepted
      <4>3. op.kind \in {"save", "create", "delete", "move"}
        BY <1>1, OpFields
      <4>4. CASE ~Accepted(files, op)
        BY <4>2, <4>4 DEF Effect
      <4>5. CASE Accepted(files, op) /\ op.kind \in {"save", "create"}
        <5>1. Effect(files, op) = Put(files, op.path, op.text)
          BY <4>5 DEF Effect
        <5>2. Effect(files, new) = Put(files, new.path, new.text)
          BY <1>6, <4>2, <4>5 DEF Effect
        <5> QED
          BY <1>6, <5>1, <5>2
      <4>6. CASE Accepted(files, op) /\ op.kind = "delete"
        <5>1. Effect(files, op) = Removed(files, op.path)
          BY <4>6 DEF Effect
        <5>2. Effect(files, new) = Removed(files, new.path)
          BY <1>6, <4>2, <4>6 DEF Effect
        <5> QED
          BY <1>6, <5>1, <5>2
      <4>7. CASE Accepted(files, op) /\ op.kind = "move"
        <5>1. Effect(files, op) = Rename(files, op.path, op.to)
          BY <4>7 DEF Effect
        <5>2. Effect(files, new) = Rename(files, new.path, new.to)
          BY <1>6, <4>2, <4>7 DEF Effect
        <5> QED
          BY <1>6, <5>1, <5>2
      <4> QED
        BY <4>3, <4>4, <4>5, <4>6, <4>7
    <3>4. Leads(Shows(files'), {new}, latest')
      BY <1>1, <1>2, <2>2, <3>2, <3>3, HandledLeads
    <3> QED
      BY <3>1, <3>4
  <2> QED
    BY <1>1, <2>1, <2>2
<1>12. op.kind = "delete" => op.path \notin DOMAIN latest'
  BY <1>4 DEF After
<1>13. Fresh(Enqueued(outbox, op)) /\ Leads(Shows(files'), ToSet(Enqueued(outbox, op)), latest')
  BY <1>1, <1>2, <1>3, <1>4, <1>10, <1>11, <1>12, EnqueuedLeads
<1>14. Leading'
  BY <1>1, <1>13 DEF Leading, Coming
<1>15. Quiet' /\ Asking'
  BY <1>1 DEF Quiet, Busy, Asking
<1> QED
  BY <1>14, <1>15, CalmCourseNext

LEMMA EnqueueCourse ==
  ASSUME Safe, Course, Enqueue
  PROVE  Course'
<1>1. /\ edit.at = "queueing" /\ Quiet /\ dialogs = {} /\ edit'.at = "none"
      /\ outbox' = Enqueued(edit.queue, edit.op) /\ UNCHANGED <<files, latest, task, dialogs>>
  BY DEF Safe, Queueing, Enqueue, NoEdit, ghosts
<1>2. Coming' = Coming
  BY <1>1 DEF Coming
<1>3. Leading' /\ Quiet' /\ Asking'
  BY <1>1, <1>2 DEF Course, Leading, Quiet, Busy, Asking
<1> QED
  BY <1>3, CalmCourseNext

LEMMA ReloadCourse ==
  ASSUME ~Overlap, Course, Reload
  PROVE  Course'
<1>1. /\ edit.at = "none" /\ edit'.at = "none" /\ dialogs' = {}
      /\ UNCHANGED <<files, outbox, latest>> /\ \A t \in Task : task'[t].at = "off"
  BY DEF Reload, NoEdit, ghosts, Off
<1>2. Coming' = Coming
  BY <1>1 DEF Coming
<1>3. Leading' /\ Quiet' /\ Asking'
  BY <1>1, <1>2 DEF Course, Leading, Quiet, Busy, Asking
<1> QED
  BY <1>3, CalmCourseNext

\* What one task at work leaves, or the end of it.
LEMMA OneWorking ==
  ASSUME Types, NEW t \in Task, \A s \in Task : Busy(s) => s = t,
         NEW x, task' = [task EXCEPT ![t] = x], dialogs' = {},
         PlaceIs(x, t \in Runs, outbox', files', latest')
  PROVE  Working'
<1>1. \A s \in Task : task'[s] = IF s = t THEN x ELSE task[s]
  BY DEF Types
<1>2. ASSUME NEW s \in Task, task'[s].at # "off" PROVE s = t /\ task'[s] = x
  BY <1>1, <1>2 DEF Busy
<1>3. \A s \in Task : Busy(s)' => s = t /\ task'[s] = x
  BY <1>2 DEF Busy
<1> QED
  BY <1>3 DEF Working

LEMMA QuietNext ==
  ASSUME Types, NEW t \in Task, \A s \in Task : Busy(s) => s = t, Ended(t)
  PROVE  Quiet'
<1>1. \A s \in Task : task'[s] = IF s = t THEN Off ELSE task[s]
  BY DEF Types, Ended
<1> QED
  BY <1>1 DEF Quiet, Busy, Off

LEMMA AtWork ==
  ASSUME Types, Safe, Course, NEW t \in Task, Busy(t)
  PROVE  /\ \A s \in Task : Busy(s) => s = t
         /\ dialogs = {} /\ PlaceIs(task[t], t \in Runs, outbox, files, latest)
         /\ edit.at = "none" /\ Coming = outbox /\ Fresh(outbox)
         /\ Leads(Shows(files), ToSet(outbox), latest)
         /\ task[t] \in Place(made) /\ task[t].todo \in Seq(Op(made))
         /\ QueueFits(made, outbox) /\ OpSet(made, ToSet(outbox)) /\ FilesFit(files)
<1>1. edit.at = "none"
  BY BusyIsNotQueueing DEF Types
<1>2. task[t] \in Place(made)
  BY DEF Types
<1>3. Coming = outbox
  BY <1>1 DEF Coming
<1> QED
  BY <1>1, <1>2, <1>3, QueueIsOpSet DEF Types, Place, Course, Working, Leading

LEMMA StartCourse ==
  ASSUME ~Overlap, Types, Course, NEW t \in Runs, Start(t), ~astray'
  PROVE  Course'
<1>1. CASE dialogs # {}
  <2>1. UNCHANGED <<files, outbox, dialogs, task, edit, latest>>
    BY <1>1 DEF Start
  <2> QED
    BY <2>1, FrameCourse
<1>2. CASE dialogs = {}
  <2>1. /\ Quiet /\ At(t, "reading") /\ dialogs' = {} /\ t \in Task
        /\ UNCHANGED <<files, outbox, dialogs, edit, latest>>
    BY <1>2 DEF Start, Task
  <2>2. PICK x : x = [task[t] EXCEPT !.at = "reading"]
    OBVIOUS
  <2>3. task' = [task EXCEPT ![t] = x] /\ x.at = "reading"
    <3>1. task[t] \in Place(made)
      BY <2>1 DEF Types
    <3> QED
      BY <2>1, <2>2, <3>1 DEF At, Place
  <2>4. PlaceIs(x, t \in Runs, outbox', files', latest')
    BY <2>3 DEF PlaceIs
  <2>5. Working'
    BY <2>1, <2>3, <2>4, OneWorking DEF Quiet
  <2>6. Coming' = Coming
    BY <2>1 DEF Coming
  <2> QED
    BY <2>1, <2>5, <2>6 DEF Course, Leading, Asking
<1> QED
  BY <1>1, <1>2

LEMMA ReadQueueCourse ==
  ASSUME Types, Safe, Course, NEW t \in Runs, ReadQueue(t)
  PROVE  Course'
<1>1. /\ t \in Task /\ Busy(t) /\ UNCHANGED <<files, outbox, dialogs, edit, latest>>
  BY DEF ReadQueue, Busy, Task, ghosts
<1>2. /\ \A s \in Task : Busy(s) => s = t
      /\ dialogs = {} /\ task[t] \in Place(made) /\ QueueFits(made, outbox)
  BY <1>1, AtWork
<1>3. Coming' = Coming
  BY <1>1 DEF Coming
<1>4. Leading' /\ Asking'
  BY <1>1, <1>3 DEF Course, Leading, Asking
<1>5. CASE outbox = <<>>
  <2>1. Quiet'
    BY <1>1, <1>2, <1>5, QuietNext DEF ReadQueue
  <2> QED
    BY <1>4, <2>1, CalmCourseNext
<1>6. CASE outbox # <<>>
  <2>1. PICK x : x = [task[t] EXCEPT !.at = "sending", !.todo = outbox]
    OBVIOUS
  <2>2. task' = [task EXCEPT ![t] = x] /\ x.at = "sending" /\ x.todo = outbox
    BY <1>2, <1>6, <2>1 DEF ReadQueue, Place
  <2>3. PlaceIs(x, t \in Runs, outbox', files', latest')
    BY <1>1, <1>2, <2>2 DEF PlaceIs, QueueFits
  <2>4. Working'
    BY <1>1, <1>2, <2>2, <2>3, OneWorking
  <2> QED
    BY <1>4, <2>4 DEF Course
<1> QED
  BY <1>5, <1>6

\* The operation a replay is at.
LEMMA SendingIs ==
  ASSUME Types, Safe, Course, NEW t \in Runs, Sending(t), NEW op, op = Head(task[t].todo)
  PROVE  /\ t \in Task /\ Busy(t) /\ op \in Op(made) /\ ~op.failed
         /\ Ordered(task[t].todo) /\ ToSet(task[t].todo) = ToSet(outbox)
         /\ IsFirst(op, ToSet(outbox))
<1>1. t \in Task /\ Busy(t) /\ task[t].at = "sending" /\ task[t].todo # <<>>
  BY DEF Sending, Busy, Task
<1>2. /\ PlaceIs(task[t], t \in Runs, outbox, files, latest) /\ Fresh(outbox)
      /\ task[t].todo \in Seq(Op(made))
  BY <1>1, AtWork
<1>3. Ordered(task[t].todo) /\ ToSet(task[t].todo) = ToSet(outbox)
  BY <1>1, <1>2 DEF PlaceIs
<1>4. IsFirst(op, ToSet(outbox))
  BY <1>1, <1>2, <1>3, TailIs
<1>5. ~op.failed
  BY <1>2, <1>4 DEF IsFirst, Fresh
<1>6. op \in Op(made)
  BY <1>1, <1>2, HeadTailProperties
<1> QED
  BY <1>1, <1>3, <1>4, <1>5, <1>6

LEMMA SkipCourse ==
  ASSUME Types, Safe, Course, NEW t \in Runs, Skip(t)
  PROVE  Course'
BY SendingIs DEF Skip

LEMMA AnsweredCourse ==
  ASSUME Types, Types', Safe, Course, NEW t \in Runs, Answered(t), ~astray'
  PROVE  Course'
<1>1. PICK op : op = Head(task[t].todo)
  OBVIOUS
<1>2. Sending(t) /\ Handled(op) /\ UNCHANGED <<outbox, edit, latest>>
  BY <1>1 DEF Answered
<1>3. /\ t \in Task /\ Busy(t) /\ op \in Op(made)
      /\ Ordered(task[t].todo) /\ ToSet(task[t].todo) = ToSet(outbox)
      /\ IsFirst(op, ToSet(outbox))
  BY <1>1, <1>2, SendingIs
<1>4. /\ \A s \in Task : Busy(s) => s = t
      /\ dialogs = {} /\ edit.at = "none" /\ Coming = outbox /\ Fresh(outbox)
      /\ Leads(Shows(files), ToSet(outbox), latest) /\ task[t] \in Place(made)
      /\ OpSet(made, ToSet(outbox)) /\ FilesFit(files)
  BY <1>3, AtWork
<1>5. files' = Effect(files, op)
  BY <1>2 DEF Handled
<1>6. /\ Leads(Shows(files'), ToSet(outbox), latest)
      /\ ~Refused(op) => Leads(Shows(files'), ToSet(outbox) \ {op}, latest)
  BY <1>3, <1>4, <1>5, HandledLeads DEF Refused
<1>7. Leading'
  <2>1. Coming' = outbox
    BY <1>2, <1>4 DEF Coming
  <2> QED
    BY <1>2, <1>4, <1>6, <2>1 DEF Leading
<1>8. CASE ~Refused(op)
  <2>1. At(t, "drop") /\ dialogs' = dialogs
    BY <1>1, <1>8 DEF Answered
  <2>2. PICK x : x = [task[t] EXCEPT !.at = "drop"]
    OBVIOUS
  <2>3. task' = [task EXCEPT ![t] = x] /\ x.at = "drop" /\ x.todo = task[t].todo
    BY <1>4, <2>1, <2>2 DEF At, Place
  <2>4. PlaceIs(x, t \in Runs, outbox', files', latest')
    BY <1>1, <1>2, <1>3, <1>6, <1>8, <2>3 DEF PlaceIs
  <2>5. dialogs' = {} /\ Asking'
    BY <1>4, <2>1 DEF Asking
  <2>6. Working'
    BY <1>3, <1>4, <2>3, <2>4, <2>5, OneWorking
  <2> QED
    BY <1>7, <2>5, <2>6 DEF Course
<1>9. CASE Refused(op)
  <2>1. op.kind \in {"save", "create"} /\ dialogs' = Raised(op, TRUE) /\ Ended(t)
    BY <1>1, <1>9, Zenon DEF Answered
  <2>2. Quiet'
    BY <1>3, <1>4, <2>1, QuietNext
  <2>3. PICK d0 : d0 = [op |-> op, hash |-> files[op.path], queued |-> TRUE]
    OBVIOUS
  <2>4. dialogs' = {d0} /\ d0.queued /\ d0.op = op
    BY <1>4, <2>1, <2>3 DEF Raised
  <2>5. op.path \in DOMAIN files'
    <3>1. op.path \in DOMAIN files /\ ~Accepted(files, op)
      BY <1>9, <2>1 DEF Refused, Accepted
    <3>2. files' = files
      BY <1>5, <3>1 DEF Effect
    <3> QED
      BY <3>1, <3>2
  <2>6. Asking'
    BY <1>2, <1>3, <2>4, <2>5 DEF Asking
  <2> QED
    BY <1>7, <2>2, <2>6, CalmCourseNext
<1> QED
  BY <1>8, <1>9

LEMMA StoppedCourse ==
  ASSUME Types, Types', Safe, Course, NEW t \in Runs,
         Unanswered(t) \/ SignInNeeded(t) \/ Finish(t)
  PROVE  Course'
<1>1. /\ t \in Task /\ Busy(t) /\ Ended(t) /\ UNCHANGED <<outbox, edit, latest, dialogs>>
      /\ (Sending(t) /\ Handled(Head(task[t].todo))) \/ files' = files
  BY DEF Unanswered, SignInNeeded, Finish, Busy, Task, ghosts, NotHandled, Sending
<1>2. /\ \A s \in Task : Busy(s) => s = t
      /\ dialogs = {} /\ edit.at = "none" /\ Coming = outbox /\ Fresh(outbox)
      /\ Leads(Shows(files), ToSet(outbox), latest)
      /\ OpSet(made, ToSet(outbox)) /\ FilesFit(files)
  BY <1>1, AtWork
<1>3. Leads(Shows(files'), ToSet(outbox), latest)
  <2>1. CASE files' = files
    BY <1>2, <2>1
  <2>2. CASE Sending(t) /\ Handled(Head(task[t].todo))
    <3>1. PICK op : op = Head(task[t].todo)
      OBVIOUS
    <3>2. IsFirst(op, ToSet(outbox)) /\ files' = Effect(files, op)
      BY <2>2, <3>1, SendingIs DEF Handled
    <3> QED
      BY <1>2, <3>2, HandledLeads
  <2> QED
    BY <1>1, <2>1, <2>2
<1>4. Leading'
  <2>1. Coming' = outbox
    BY <1>1, <1>2 DEF Coming
  <2> QED
    BY <1>1, <1>2, <1>3, <2>1 DEF Leading
<1>5. Quiet' /\ Asking'
  BY <1>1, <1>2, QuietNext DEF Asking
<1> QED
  BY <1>4, <1>5, CalmCourseNext

LEMMA ReadToChangeCourse ==
  ASSUME Types, Safe, Course, NEW t \in Task, ReadToChange(t)
  PROVE  Course'
<1>1. /\ task[t].at \in {"drop", "mark"} /\ Busy(t)
      /\ UNCHANGED <<files, outbox, dialogs, edit, latest>>
  BY DEF ReadToChange, Busy, ghosts
<1>2. /\ \A s \in Task : Busy(s) => s = t
      /\ dialogs = {} /\ task[t] \in Place(made)
      /\ PlaceIs(task[t], t \in Runs, outbox, files, latest)
  BY <1>1, AtWork
<1>3. task[t].at = "drop"
  BY <1>1, <1>2 DEF PlaceIs
<1>4. PICK x : x = [task[t] EXCEPT !.at = "dropping", !.queue = outbox]
  OBVIOUS
<1>5. task' = [task EXCEPT ![t] = x] /\ x.at = "dropping" /\ x.queue = outbox /\ x.todo = task[t].todo
  BY <1>2, <1>3, <1>4 DEF ReadToChange, Place
<1>6. PlaceIs(x, t \in Runs, outbox', files', latest')
  BY <1>1, <1>2, <1>3, <1>5 DEF PlaceIs
<1>7. Working'
  BY <1>1, <1>2, <1>5, <1>6, OneWorking
<1>8. Coming' = Coming
  BY <1>1 DEF Coming
<1> QED
  BY <1>1, <1>7, <1>8 DEF Course, Leading, Asking

LEMMA WriteBackCourse ==
  ASSUME Types, Types', Safe, Course, NEW t \in Task, WriteBack(t)
  PROVE  Course'
<1>1. /\ task[t].at \in {"dropping", "marking"} /\ Busy(t)
      /\ UNCHANGED <<files, dialogs, edit, latest>>
  BY DEF WriteBack, Busy, ghosts
<1>2. /\ \A s \in Task : Busy(s) => s = t
      /\ dialogs = {} /\ edit.at = "none" /\ Fresh(outbox) /\ task[t] \in Place(made)
      /\ PlaceIs(task[t], t \in Runs, outbox, files, latest) /\ task[t].todo \in Seq(Op(made))
      /\ QueueFits(made, outbox) /\ OpSet(made, ToSet(outbox)) /\ FilesFit(files)
  BY <1>1, AtWork
<1>3. PICK h, Q : h = Head(task[t].todo) /\ Q = ToSet(outbox)
  OBVIOUS
<1>4. /\ task[t].at = "dropping" /\ IsFirst(h, Q) /\ Leads(Shows(files), Q \ {h}, latest)
      /\ task[t].queue = outbox
  BY <1>1, <1>2, <1>3 DEF PlaceIs
<1>5. outbox' = Dropped(outbox, h.id)
  BY <1>3, <1>4 DEF WriteBack
<1>6. ToSet(outbox') = Q \ {h}
  <2>1. ToSet(outbox') = Q \ {a \in Q : a.id = h.id}
    BY <1>2, <1>3, <1>5, DroppedIs
  <2>2. {a \in Q : a.id = h.id} = {h}
    BY <1>2, <1>3, <1>4 DEF OpSet, IsFirst
  <2> QED
    BY <2>1, <2>2
<1>7. Compact(Q \ {h})
  BY <1>2, <1>3, <1>4, CompactRest DEF Fresh
<1>8. Leading'
  <2>1. Coming' = outbox'
    BY <1>1, <1>2 DEF Coming
  <2>2. Fresh(outbox')
    BY <1>2, <1>3, <1>6, <1>7 DEF Fresh
  <2> QED
    BY <1>1, <1>4, <1>6, <2>1, <2>2 DEF Leading
<1>9. Asking'
  BY <1>1, <1>2 DEF Asking
<1>10. CASE t \in Runs
  <2>1. Onward(t)
    BY <1>10 DEF WriteBack
  <2>2. PICK x : x = [task[t] EXCEPT !.at = "sending", !.todo = Tail(task[t].todo)]
    OBVIOUS
  <2>3. task' = [task EXCEPT ![t] = x] /\ x.at = "sending" /\ x.todo = Tail(task[t].todo)
    BY <1>2, <2>1, <2>2 DEF Onward, Place
  <2>4. Ordered(task[t].todo) /\ ToSet(task[t].todo) = Q
    BY <1>2, <1>3, <1>4, <1>10 DEF PlaceIs
  <2>5. task[t].todo # <<>>
    BY <1>4, <2>4, NothingQueued DEF IsFirst
  <2>6. Ordered(x.todo) /\ ToSet(x.todo) = Q \ {h}
    BY <1>2, <1>3, <2>3, <2>4, <2>5, TailIs
  <2>7. PlaceIs(x, t \in Runs, outbox', files', latest')
    BY <1>6, <2>3, <2>6 DEF PlaceIs
  <2>8. Working'
    BY <1>1, <1>2, <2>3, <2>7, OneWorking
  <2> QED
    BY <1>8, <1>9, <2>8 DEF Course
<1>11. CASE t \notin Runs
  <2>1. Ended(t)
    BY <1>11 DEF WriteBack
  <2>2. Quiet'
    BY <1>2, <2>1, QuietNext
  <2> QED
    BY <1>8, <1>9, <2>2, CalmCourseNext
<1> QED
  BY <1>10, <1>11

LEMMA AskedIs ==
  ASSUME Types, Safe, Course, NEW d \in dialogs, AskedAbout(d)
  PROVE  /\ dialogs' = {} /\ Quiet /\ edit.at = "none" /\ Coming = outbox /\ Fresh(outbox)
         /\ Leads(Shows(files), ToSet(outbox), latest)
         /\ IF d.queued THEN IsFirst(d.op, ToSet(outbox)) /\ d.op.path \in DOMAIN files
            ELSE outbox = <<>>
         /\ d.op \in Op(made) /\ d.op.kind \in Writes /\ d.hash \in Int /\ d.queued \in BOOLEAN
         /\ OpSet(made, ToSet(outbox)) /\ FilesFit(files) /\ LatestFits(made, latest)
<1>1. /\ dialogs = {d}
      /\ IF d.queued THEN IsFirst(d.op, ToSet(outbox)) /\ d.op.path \in DOMAIN files
         ELSE outbox = <<>>
  BY DEF Course, Asking
<1>2. dialogs' = {}
  BY <1>1 DEF AskedAbout
<1>3. Quiet
  BY <1>1 DEF Course, Working, Quiet
<1>4. edit.at = "none"
  BY <1>1 DEF Safe, Queueing, Types
<1>5. d.op \in Op(made) /\ d.op.kind \in Writes /\ d.hash \in Int /\ d.queued \in BOOLEAN
  BY DEF Types, Question
<1>6. Coming = outbox /\ Fresh(outbox) /\ Leads(Shows(files), ToSet(outbox), latest)
  BY <1>4 DEF Course, Leading, Coming
<1>7. OpSet(made, ToSet(outbox)) /\ FilesFit(files) /\ LatestFits(made, latest)
  BY QueueIsOpSet DEF Types
<1> QED
  BY <1>1, <1>2, <1>3, <1>4, <1>5, <1>6, <1>7

\* The question is left open, or there was nothing to drop.
LEMMA LeftCourse ==
  ASSUME Types, Safe, Course, NEW d \in dialogs, AskedAbout(d), UNCHANGED <<outbox, edit, task>>,
         Leads(Shows(files'), ToSet(outbox), latest')
  PROVE  Course'
<1>1. dialogs' = {} /\ Quiet /\ edit.at = "none" /\ Fresh(outbox)
  BY AskedIs
<1>2. Coming' = outbox
  BY <1>1 DEF Coming
<1>3. Leading' /\ Quiet' /\ Asking'
  BY <1>1, <1>2 DEF Leading, Quiet, Busy, Asking
<1> QED
  BY <1>3, CalmCourseNext

LEMMA SettledCourse ==
  ASSUME Types, Safe, Course, NEW d \in dialogs, AskedAbout(d), UNCHANGED <<outbox, edit>>,
         Settles(d), Leads(Shows(files'), ToSet(outbox), latest'),
         d.queued => Leads(Shows(files'), ToSet(outbox) \ {d.op}, latest')
  PROVE  Course'
<1>1. /\ dialogs' = {} /\ Quiet /\ edit.at = "none" /\ Fresh(outbox) /\ d.op \in Op(made)
      /\ d.queued => IsFirst(d.op, ToSet(outbox))
  BY AskedIs
<1>2. CASE ~d.queued
  BY <1>1, <1>2, LeftCourse DEF Settles
<1>3. CASE d.queued
  <2>1. PICK x : x = Dropping(d.op)
    OBVIOUS
  <2>2. task' = [task EXCEPT ![Dialog] = x]
    BY <1>3, <2>1 DEF Settles, Dropping
  <2>3. x.at = "drop" /\ Head(x.todo) = d.op
    BY <1>1, <2>1, DroppingFits
  <2>4. Dialog \in Task /\ Dialog \notin Runs
    BY SyncAssumption DEF Task
  <2>5. PlaceIs(x, Dialog \in Runs, outbox', files', latest')
    BY <1>1, <1>3, <2>3, <2>4 DEF PlaceIs
  <2>6. Working'
    BY <1>1, <2>2, <2>4, <2>5, OneWorking DEF Quiet
  <2>7. Coming' = outbox
    BY <1>1 DEF Coming
  <2>8. Leading' /\ Asking'
    BY <1>1, <2>7 DEF Leading, Asking
  <2> QED
    BY <2>6, <2>8 DEF Course
<1> QED
  BY <1>2, <1>3

LEMMA KeepMineCourse ==
  ASSUME ~Overlap, Types, Types', Safe, Course, NEW d \in dialogs, KeepMine(d)
  PROVE  Course'
<1>1. AskedAbout(d) /\ UNCHANGED <<outbox, edit>>
  BY DEF KeepMine
<1>2. /\ d.op \in Op(made) /\ d.op.kind \in Writes /\ d.hash \in Int /\ d.queued \in BOOLEAN
      /\ FilesFit(files) /\ OpSet(made, ToSet(outbox)) /\ LatestFits(made, latest)
      /\ Leads(Shows(files), ToSet(outbox), latest)
      /\ IF d.queued THEN IsFirst(d.op, ToSet(outbox)) /\ d.op.path \in DOMAIN files
         ELSE outbox = <<>>
  BY <1>1, AskedIs
<1>3. PICK op : op = SaveNote(d.op.path, d.op.text, d.hash)
  OBVIOUS
<1>4. /\ op \in Op(made) /\ op.kind = "save" /\ op.path = d.op.path /\ op.text = d.op.text
  <2>1. d.op.path \in NotePath /\ d.op.text \in 1..made
    BY <1>2, OpFields
  <2> QED
    BY <1>2, <1>3, <2>1 DEF SaveNote, Write, Op, Writes
<1>5. \/ /\ Handled(op)
         /\ IF Accepted(files, op)
            THEN Settles(d) /\ latest' = IF d.queued THEN latest ELSE Written(latest, op.path, op.text)
            ELSE UNCHANGED <<task, latest>>
      \/ /\ UNCHANGED task
         /\ \/ NotHandled /\ UNCHANGED latest
            \/ /\ Handled(op)
               /\ latest' = IF d.queued \/ ~Accepted(files, op) THEN latest
                            ELSE Written(latest, op.path, op.text)
  BY <1>3, <1>4, Zenon DEF KeepMine
<1>6. CASE files' = files /\ latest' = latest /\ task' = task
  BY <1>1, <1>2, <1>6, LeftCourse
<1>7. ASSUME Accepted(files, op), files' = Effect(files, op),
             latest' = IF d.queued THEN latest ELSE Written(latest, op.path, op.text)
      PROVE  /\ Leads(Shows(files'), ToSet(outbox), latest')
             /\ d.queued => Leads(Shows(files'), ToSet(outbox) \ {d.op}, latest')
  <2>1. PICK m : m = Shows(files)
    OBVIOUS
  <2>2. m \in Notes /\ Shows(files') = StepOf(op, m)
    BY <1>2, <1>4, <1>7, <2>1, ShowsIs, ShowsEffect
  <2>3. CASE d.queued
    <3>1. StepOf(d.op, m) = StepOf(op, m) /\ Goes(d.op, m)
      BY <1>2, <1>4 DEF StepOf, Goes, Writes
    <3>2. /\ Leads(StepOf(d.op, m), ToSet(outbox) \ {d.op}, latest)
          /\ Leads(StepOf(d.op, m), ToSet(outbox), latest)
      BY <1>2, <2>1, <2>2, <2>3, <3>1, LeadsSent
    <3> QED
      BY <1>7, <2>2, <2>3, <3>1, <3>2
  <2>4. CASE ~d.queued
    <3>1. ToSet(outbox) = {} /\ latest' = Written(latest, op.path, op.text)
      BY <1>2, <1>7, <2>4, NothingQueued
    <3>2. /\ DOMAIN latest' = DOMAIN latest \cup {op.path}
          /\ \A p \in DOMAIN latest' : IF p = op.path THEN latest'[p] = op.text
                                      ELSE p \in DOMAIN latest /\ latest'[p] = latest[p]
      BY <3>1 DEF Written
    <3>3. DOMAIN latest' \subseteq NotePath /\ After(latest', latest, op)
      BY <1>2, <1>4, <3>2, OpFields DEF After, LatestFits
    <3>4. Leads(Shows(files'), {}, latest')
      BY <1>2, <1>4, <1>7, <3>1, <3>3, HandledNow
    <3> QED
      BY <2>4, <3>1, <3>4
  <2> QED
    BY <1>2, <2>3, <2>4
<1>8. ~Accepted(files, op) => Effect(files, op) = files
  BY <1>2, <1>4, ShowsEffect
<1>9. CASE Handled(op) /\ Accepted(files, op) /\ Settles(d)
           /\ latest' = IF d.queued THEN latest ELSE Written(latest, op.path, op.text)
  <2>1. files' = Effect(files, op)
    BY <1>9 DEF Handled
  <2> QED
    BY <1>1, <1>7, <1>9, <2>1, SettledCourse
<1>10. CASE Handled(op) /\ Accepted(files, op) /\ UNCHANGED task
            /\ latest' = IF d.queued THEN latest ELSE Written(latest, op.path, op.text)
  <2>1. files' = Effect(files, op)
    BY <1>10 DEF Handled
  <2> QED
    BY <1>1, <1>7, <1>10, <2>1, LeftCourse
<1>11. CASE Handled(op) /\ ~Accepted(files, op) /\ UNCHANGED <<task, latest>>
  BY <1>6, <1>8, <1>11 DEF Handled
<1> QED
  BY <1>5, <1>6, <1>9, <1>10, <1>11, Zenon DEF NotHandled

LEMMA TheirsCourse ==
  ASSUME ~Overlap, Types, Types', Safe, Course, NEW d \in dialogs, TakeTheirs(d) \/ KeepBoth(d)
  PROVE  Course'
<1>1. AskedAbout(d) /\ UNCHANGED <<outbox, edit, files>>
  BY DEF TakeTheirs, KeepBoth
<1>2. /\ d.op \in Op(made) /\ d.op.kind \in Writes /\ d.queued \in BOOLEAN
      /\ FilesFit(files) /\ OpSet(made, ToSet(outbox)) /\ LatestFits(made, latest)
      /\ Leads(Shows(files), ToSet(outbox), latest)
      /\ d.queued => IsFirst(d.op, ToSet(outbox)) /\ d.op.path \in DOMAIN files
  BY <1>1, AskedIs
<1>3. CASE UNCHANGED <<task, latest>>
  BY <1>1, <1>2, <1>3, LeftCourse
<1>4. ASSUME NEW gone, Settles(d), latest' = GivenUp(latest, d, gone) PROVE Course'
  <2>1. /\ DOMAIN latest' \subseteq DOMAIN latest /\ DOMAIN latest \subseteq NotePath
        /\ \A p \in DOMAIN latest' : latest'[p] = latest[p] /\ latest'[p] # d.op.text
    BY <1>2, <1>4 DEF GivenUp, Restrict, LatestFits
  <2>2. PICK m, Q : m = Shows(files) /\ Q = ToSet(outbox)
    OBVIOUS
  <2>3. m \in Notes /\ Leads(m, Q, latest) /\ OpSet(made, Q)
    BY <1>2, <2>2, ShowsIs
  <2>4. Leads(m, Q, latest')
    BY <2>1, <2>3, LeadsLess
  <2>5. ASSUME d.queued PROVE Leads(m, Q \ {d.op}, latest')
    <3>1. IsFirst(d.op, Q) /\ d.op.path \in DOMAIN files /\ d.op.path \in NotePath
      BY <1>2, <2>2, <2>5, OpFields
    <3>2. m[d.op.path] # {}
      BY <1>2, <2>2, <3>1, ShowsIs
    <3> QED
      BY <1>2, <2>1, <2>3, <3>1, <3>2, LeadsGivenUp
  <2> QED
    BY <1>1, <1>4, <2>2, <2>4, <2>5, SettledCourse
<1> QED
  BY <1>3, <1>4 DEF TakeTheirs, KeepBoth, Theirs

LEMMA DiscardCourse ==
  ASSUME ~Overlap, Types, Course, NEW n \in DOMAIN outbox, Discard(n)
  PROVE  Course'
<1>1. Quiet /\ edit.at = "none" /\ outbox[n].failed
  BY DEF Discard
<1>2. outbox[n] \in ToSet(outbox)
  BY DEF ToSet
<1>3. Fresh(outbox)
  BY <1>1 DEF Course, Leading, Coming
<1> QED
  BY <1>1, <1>2, <1>3 DEF Fresh

LEMMA StepCourse ==
  ASSUME ~Overlap
  PROVE  Types /\ Types' /\ Safe /\ astray \in BOOLEAN /\ OnCourse /\ [Next]_vars => OnCourse'
<1> SUFFICES ASSUME Types, Types', Safe, astray \in BOOLEAN, OnCourse, [Next]_vars,
                    ~astray', foreign' = 0
             PROVE  Course'
  BY DEF OnCourse
<1>1. Course
  BY StepAstray DEF OnCourse
<1>2. CASE UNCHANGED vars
  BY <1>1, <1>2, FrameCourse DEF vars
<1>3. ASSUME NEW op \in Operations, EditLive(op) \/ EditQueued(op) PROVE Course'
  BY <1>1, <1>3, EditLiveCourse, EditQueuedCourse
<1>4. CASE Enqueue \/ Reload
  BY <1>1, <1>4, EnqueueCourse, ReloadCourse
<1>5. CASE Prune \/ Probe \/ WentOffline \/ \E p \in NotePath : Open(p)
  <2>1. UNCHANGED <<files, outbox, dialogs, task, edit, latest>>
    BY <1>5 DEF Prune, Probe, WentOffline, Open, ghosts, counts
  <2> QED
    BY <1>1, <2>1, FrameCourse
<1>6. ASSUME NEW p \in NotePath, Elsewhere(p) PROVE Course'
  BY <1>6 DEF Elsewhere, Types
<1>7. ASSUME NEW t \in Runs, Run(t) \/ Unanswered(t) \/ SignInNeeded(t) PROVE Course'
  BY <1>1, <1>7, StartCourse, ReadQueueCourse, SkipCourse, AnsweredCourse, StoppedCourse DEF Run
<1>8. ASSUME NEW t \in Task, Change(t) PROVE Course'
  BY <1>1, <1>8, ReadToChangeCourse, WriteBackCourse DEF Change
<1>9. ASSUME NEW d \in dialogs, KeepMine(d) \/ TakeTheirs(d) \/ KeepBoth(d) PROVE Course'
  BY <1>1, <1>9, KeepMineCourse, TheirsCourse
<1>10. ASSUME NEW n \in DOMAIN outbox, Discard(n) PROVE Course'
  BY <1>1, <1>10, DiscardCourse
<1> QED
  BY <1>2, <1>3, <1>4, <1>5, <1>6, <1>7, <1>8, <1>9, <1>10 DEF Next

LEMMA CourseCatchesUp == Types /\ OnCourse => CaughtUp
<1> SUFFICES ASSUME Types, OnCourse, outbox = <<>>, edit.at = "none", foreign = 0, ~astray,
                    NEW p \in DOMAIN latest
             PROVE  p \in DOMAIN files /\ files[p] = latest[p]
  BY DEF CaughtUp
<1>1. Leads(Shows(files), {}, latest)
  BY NothingQueued DEF OnCourse, Course, Leading, Coming
<1>2. Shows(files) \in Notes /\ p \in NotePath
  BY ShowsIs DEF Types, LatestFits
<1>3. Shows(files)[p] = {latest[p]}
  BY <1>1, <1>2, LeadsNow DEF AsIn
<1>4. IF p \in DOMAIN files THEN Shows(files)[p] = {files[p]} ELSE Shows(files)[p] = {}
  BY <1>2, ShowsIs DEF Types
<1> QED
  BY <1>3, <1>4

\* Once the queue has drained and no question is left, the vault holds what the person last
\* wrote, at the path it was last given, in every behaviour in which nobody else wrote, no
\* move was refused and no replay began while another task was at work: however often
\* requests or their answers are lost and sent again, the page is closed, writes are
\* refused and answered for, and whatever compaction makes of the queue (sync.rs:3).
THEOREM VaultCatchesUp ==
  ASSUME ~Overlap
  PROVE  Spec => []CaughtUp
<1> DEFINE Flag == astray \in BOOLEAN
<1>1. Types /\ Types' /\ Safe /\ [Next]_vars => Safe'
  BY StepSafe
<1>2. Types /\ Types' /\ Safe /\ Flag /\ OnCourse /\ [Next]_vars => OnCourse'
  BY StepCourse
<1>3. Init => Flag /\ OnCourse
  BY InitCourse DEF Init, OnCourse
<1>4. Types /\ Flag /\ [Next]_vars => Flag'
  BY StepAstray
<1>5. Types /\ OnCourse => CaughtUp
  BY CourseCatchesUp
<1> HIDE DEF Flag
<1> QED
  BY <1>1, <1>2, <1>3, <1>4, <1>5, InitSafe, TypesAlways, PTL DEF Spec
=============================================================================
