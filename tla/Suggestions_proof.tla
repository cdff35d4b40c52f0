------------------------- MODULE Suggestions_proof -------------------------
(***************************************************************************)
(* What Suggestions keeps, for any notes, passages, similarity and bounds: *)
(* a vector is of the passage it is stored for, and no note is suggested   *)
(* to another twice, or to itself, or without being there.                 *)
(***************************************************************************)
EXTENDS Suggestions, FiniteSetTheorems, TLAPS

Chunk == [id : Nat, note : Notes, ordinal : Nat, body : Passages]

\* What is stored is finitely many passages: a batch can be counted.
StoredInv ==
  /\ nextId \in Nat
  /\ chunks \subseteq Chunk /\ IsFiniteSet(chunks)
  /\ \A w \in writing : w.rows \subseteq Chunk /\ IsFiniteSet(w.rows)

\* What is left of the answers is what is left of the batch, in the batch's order.
BatchInv ==
  pc \in {"call", "store"} => batch \in Seq(Passages) /\ Len(batch) >= 1
AnswerInv ==
  pc = "store" =>
    /\ answer \in Seq(Passages) /\ Len(answer) \in 1..Len(batch)
    /\ \A i \in 1..Len(answer) : answer[i] = batch[(Len(batch) - Len(answer)) + i]
VectorInv == \A b \in DOMAIN vectors : vectors[b] = b

\* An edge is stored once, under the lower of its notes.
Drawn(E) ==
  /\ \A e \in E : e.source \in Notes /\ e.target \in Notes /\ e.source < e.target
  /\ \A e, f \in E : e.source = f.source /\ e.target = f.target => e = f
EdgesInv == Drawn(edges) /\ \A e \in edges : e.source \in present /\ e.target \in present

IInv == StoredInv /\ BatchInv /\ AnswerInv /\ VectorInv /\ EdgesInv

-----------------------------------------------------------------------------
(***************************************************************************)
(* What is finite.                                                         *)
(***************************************************************************)
LEMMA ImageFinite ==
  ASSUME NEW S, IsFiniteSet(S), NEW T, NEW f \in [S -> T], T = {f[x] : x \in S}
  PROVE  IsFiniteSet(T)
<1>1. f \in Surjection(S, T)
  BY DEF Surjection
<1> QED
  BY <1>1, FS_Surjection

LEMMA RowsFinite ==
  ASSUME NEW n \in Notes, NEW content \in Seq(Passages), NEW first \in Nat,
         NEW R, R = {[id |-> first + i, note |-> n, ordinal |-> i, body |-> content[i]] :
                       i \in DOMAIN content}
  PROVE  R \subseteq Chunk /\ IsFiniteSet(R)
<1> DEFINE row(i) == [id |-> first + i, note |-> n, ordinal |-> i, body |-> content[i]]
<1>1. DOMAIN content = 1..Len(content) /\ Len(content) \in Nat
  OBVIOUS
<1>2. IsFiniteSet(DOMAIN content)
  BY <1>1, FS_Interval
<1>3. \A i \in DOMAIN content : row(i) \in Chunk
  BY <1>1 DEF Chunk
<1>4. R = {row(i) : i \in DOMAIN content}
  OBVIOUS
<1> HIDE DEF row
<1>5. PICK f, D : f = [i \in DOMAIN content |-> row(i)] /\ D = DOMAIN content
  OBVIOUS
<1>6. f \in [D -> R] /\ R = {f[i] : i \in D} /\ IsFiniteSet(D)
  BY <1>2, <1>4, <1>5
<1>7. IsFiniteSet(R)
  BY ONLY <1>6, ImageFinite
<1> QED
  BY <1>3, <1>4, <1>7

LEMMA MissingFinite ==
  ASSUME StoredInv
  PROVE  IsFiniteSet(Missing) /\ Missing \subseteq Passages
<1> DEFINE bodies == {c.body : c \in chunks}
<1>1. chunks \subseteq Chunk /\ IsFiniteSet(chunks)
  BY DEF StoredInv
<1>2. PICK f : f = [c \in chunks |-> c.body]
  OBVIOUS
<1>3. f \in [chunks -> bodies] /\ bodies = {f[c] : c \in chunks}
  BY <1>2
<1>4. bodies \subseteq Passages
  BY <1>1 DEF Chunk
<1> HIDE DEF bodies
<1>5. IsFiniteSet(bodies)
  BY <1>1, <1>3, ImageFinite
<1>6. Missing = bodies \ DOMAIN vectors
  BY DEF Missing, bodies
<1>7. Missing \in SUBSET bodies
  BY <1>6
<1> QED
  BY <1>4, <1>5, <1>7, FS_Subset

-----------------------------------------------------------------------------
(***************************************************************************)
(* The answers are put back in the order of what was asked for.            *)
(***************************************************************************)
LEMMA OrderIsOnto ==
  ASSUME NEW n \in Nat, NEW order \in [1..n -> 1..n],
         \A i, j \in 1..n : i # j => order[i] # order[j], NEW k \in 1..n
  PROVE  \E i \in 1..n : order[i] = k
<1>1. IsFiniteSet(1..n)
  BY FS_Interval
<1>2. order \in Injection(1..n, 1..n)
  BY DEF Injection, IsInjective
<1>3. order \in Surjection(1..n, 1..n)
  BY <1>1, <1>2, FS_Injection
<1> QED
  BY <1>3 DEF Surjection

\* Whatever order the model answers in, each answer is of its input.
LEMMA PlacedInOrder ==
  ASSUME NEW inputs \in Seq(Passages), NEW data \in Responses(inputs)
  PROVE  Placed(data, Len(inputs)) = inputs
<1> DEFINE n == Len(inputs)
<1>1. n \in Nat /\ DOMAIN inputs = 1..n
  OBVIOUS
<1>2. Cardinality(1..n) = n
  BY <1>1, FS_Interval
<1>3. PICK order \in SetToSeqs(DOMAIN inputs) :
        data = [i \in DOMAIN inputs |-> [index |-> order[i], embedding |-> inputs[order[i]]]]
  BY DEF Responses
<1>4. order \in [1..n -> 1..n] /\ \A i, j \in 1..n : i # j => order[i] # order[j]
  BY <1>1, <1>2, <1>3 DEF SetToSeqs
<1>5. \A d \in Range(data) : d.embedding = inputs[d.index]
  BY <1>1, <1>3 DEF Range
<1>6. ASSUME NEW k \in 1..n
      PROVE  (CHOOSE d \in Range(data) : d.index = k).embedding = inputs[k]
  <2>1. PICK i \in 1..n : order[i] = k
    BY <1>1, <1>4, OrderIsOnto
  <2>2. data[i] \in Range(data) /\ data[i].index = k
    BY <1>1, <1>3, <2>1 DEF Range
  <2>3. PICK c : c = CHOOSE d \in Range(data) : d.index = k
    OBVIOUS
  <2>4. c \in Range(data) /\ c.index = k
    BY <2>2, <2>3
  <2> QED
    BY <1>5, <2>3, <2>4
<1>7. Placed(data, n) = [i \in 1..n |-> inputs[i]]
  BY <1>6 DEF Placed
<1> QED
  BY <1>1, <1>7

-----------------------------------------------------------------------------
(***************************************************************************)
(* What a comparison finds is one row to a pair.                           *)
(***************************************************************************)
LEMMA RowsAreDrawn ==
  ASSUME NEW have, NEW E \in Canonical(Found(have))
  PROVE  Drawn(E)
<1>1. E \subseteq Found(have)
      /\ \A r, s \in E : <<r.source, r.target>> = <<s.source, s.target>> => r = s
  BY DEF Canonical
<1>2. ASSUME NEW r \in Found(have)
      PROVE  r.source \in Notes /\ r.target \in Notes /\ r.source < r.target
  <2>1. PICK p \in Notes \X Notes : p[1] # p[2] /\ r = Row(p[1], p[2], have)
    BY DEF Found
  <2>2. p[1] \in Nat /\ p[2] \in Nat
    BY <2>1, SuggestionsAssumption
  <2>3. CASE p[1] <= p[2]
    BY <2>1, <2>2, <2>3 DEF Row
  <2>4. CASE ~(p[1] <= p[2])
    BY <2>1, <2>2, <2>4 DEF Row
  <2> QED
    BY <2>3, <2>4
<1> QED
  BY <1>1, <1>2 DEF Drawn

LEMMA FewerDrawn ==
  ASSUME NEW E, Drawn(E), NEW F \in SUBSET E
  PROVE  Drawn(F)
BY DEF Drawn

-----------------------------------------------------------------------------
(***************************************************************************)
(* The steps.                                                              *)
(***************************************************************************)
LEMMA SaveBeginsKeeps ==
  ASSUME IInv, NEW n \in Notes, NEW content \in Contents, SaveBegins(n, content)
  PROVE  IInv'
<1> DEFINE R == {[id |-> nextId + i, note |-> n, ordinal |-> i, body |-> content[i]] :
                   i \in DOMAIN content}
<1>1. content \in Seq(Passages) /\ Len(content) \in Nat
  BY SuggestionsAssumption
<1>2. nextId \in Nat
  BY DEF IInv, StoredInv
<1>3. R \subseteq Chunk /\ IsFiniteSet(R)
  BY <1>1, <1>2, RowsFinite
<1>4. /\ writing' = writing \cup {[note |-> n, rows |-> R]} /\ nextId' = nextId + Len(content)
      /\ UNCHANGED <<present, chunks, vectors, edges, pc, batch, answer>>
  BY DEF SaveBegins, pass
<1> HIDE DEF R
<1>5. StoredInv'
  BY <1>1, <1>2, <1>3, <1>4 DEF IInv, StoredInv
<1> QED
  BY <1>4, <1>5 DEF IInv, BatchInv, AnswerInv, VectorInv, EdgesInv

LEMMA SaveCommitsKeeps ==
  ASSUME IInv, NEW w, SaveCommits(w)
  PROVE  IInv'
<1>1. /\ w \in writing /\ writing' = writing \ {w} /\ present' = present \cup {w.note}
      /\ chunks' = {c \in chunks : c.note # w.note} \cup w.rows
      /\ UNCHANGED <<nextId, vectors, edges, pc, batch, answer>>
  BY DEF SaveCommits, ReplaceChunks, pass
<1>2. StoredInv'
  <2>1. {c \in chunks : c.note # w.note} \in SUBSET chunks
    OBVIOUS
  <2>2. IsFiniteSet({c \in chunks : c.note # w.note})
    BY <2>1, FS_Subset DEF IInv, StoredInv
  <2>3. IsFiniteSet(chunks')
    BY <1>1, <2>2, FS_Union DEF IInv, StoredInv
  <2> QED
    BY <1>1, <2>3 DEF IInv, StoredInv
<1> QED
  BY <1>1, <1>2 DEF IInv, BatchInv, AnswerInv, VectorInv, EdgesInv

LEMMA DeletesKeeps ==
  ASSUME IInv, NEW n \in Notes, Deletes(n)
  PROVE  IInv'
<1>1. /\ present' = present \ {n} /\ chunks' = {c \in chunks : c.note # n} \cup {}
      /\ edges' = {e \in edges : n \notin {e.source, e.target}}
      /\ UNCHANGED <<nextId, writing, vectors, pc, batch, answer>>
  BY DEF Deletes, ReplaceChunks, pass
<1>2. StoredInv'
  <2>1. chunks' \in SUBSET chunks
    BY <1>1
  <2>2. IsFiniteSet(chunks')
    BY <2>1, FS_Subset DEF IInv, StoredInv
  <2> QED
    BY <1>1, <2>1, <2>2 DEF IInv, StoredInv
<1>3. EdgesInv'
  <2>1. edges' \in SUBSET edges
    BY <1>1
  <2>2. Drawn(edges')
    BY <2>1, FewerDrawn DEF IInv, EdgesInv
  <2> QED
    BY <1>1, <2>2 DEF IInv, EdgesInv
<1> QED
  BY <1>1, <1>2, <1>3 DEF IInv, BatchInv, AnswerInv, VectorInv

\* A batch is of passages that are stored and have no vector, one at least.
LEMMA PicksKeeps ==
  ASSUME IInv, Picks
  PROVE  IInv'
<1>1. UNCHANGED <<tables, answer>> /\ pc' \in {"finger", "call"}
  BY DEF Picks
<1>2. BatchInv'
  <2>1. SUFFICES ASSUME pc' = "call" PROVE batch' \in Seq(Passages) /\ Len(batch') >= 1
    BY <1>1 DEF BatchInv
  <2> DEFINE k == IF BatchSize < Cardinality(Missing) THEN BatchSize ELSE Cardinality(Missing)
  <2>2. Missing # {} /\ \E some \in kSubset(k, Missing) : batch' \in SetToSeqs(some)
    BY <2>1 DEF Picks
  <2>3. IsFiniteSet(Missing) /\ Missing \subseteq Passages
    BY MissingFinite DEF IInv
  <2>4. Cardinality(Missing) \in Nat /\ Cardinality(Missing) # 0
    BY <2>2, <2>3, FS_CardinalityType, FS_EmptySet
  <2>5. k \in Nat /\ k >= 1
    BY <2>4, SuggestionsAssumption
  <2>6. PICK some \in SUBSET Missing : Cardinality(some) = k /\ batch' \in SetToSeqs(some)
    BY <2>2 DEF kSubset
  <2> HIDE DEF k
  <2>7. batch' \in [1..k -> some]
    BY <2>6 DEF SetToSeqs
  <2>8. batch' \in [1..k -> Passages]
    BY <2>3, <2>6, <2>7
  <2>9. batch' \in Seq(Passages) /\ Len(batch') = k
    BY <2>5, <2>8
  <2> QED
    BY <2>5, <2>9
<1> QED
  BY <1>1, <1>2 DEF IInv, StoredInv, AnswerInv, VectorInv, EdgesInv, tables

LEMMA EmbedsKeeps ==
  ASSUME IInv, Embeds
  PROVE  IInv'
<1>1. pc = "call" /\ pc' = "store" /\ UNCHANGED <<tables, batch>>
  BY DEF Embeds
<1>2. batch \in Seq(Passages) /\ Len(batch) >= 1 /\ Len(batch) \in Nat
  BY <1>1 DEF IInv, BatchInv
<1>3. answer' = batch
  BY <1>2, PlacedInOrder DEF Embeds
<1>4. BatchInv' /\ AnswerInv'
  BY <1>1, <1>2, <1>3 DEF BatchInv, AnswerInv
<1> QED
  BY <1>1, <1>4 DEF IInv, StoredInv, VectorInv, EdgesInv, tables

LEMMA StoresKeeps ==
  ASSUME IInv, Stores
  PROVE  IInv'
<1>1. pc = "store" /\ UNCHANGED <<present, chunks, nextId, writing, edges>>
  BY DEF Stores
<1>2. /\ batch \in Seq(Passages) /\ answer \in Seq(Passages)
      /\ Len(batch) \in Nat /\ Len(answer) \in Nat
      /\ 1 <= Len(answer) /\ Len(answer) <= Len(batch)
      /\ \A i \in 1..Len(answer) : answer[i] = batch[(Len(batch) - Len(answer)) + i]
  BY <1>1 DEF IInv, BatchInv, AnswerInv
<1>3. PICK body : body = batch[Len(batch) - Len(answer) + 1]
  OBVIOUS
<1>4. answer[1] = body
  BY <1>2, <1>3
<1>5. VectorInv'
  BY <1>3, <1>4 DEF Stores, IInv, VectorInv
<1>6. CASE Len(answer) > 1
  <2>1. pc' = "store" /\ batch' = batch /\ answer' = Tail(answer)
    BY <1>6 DEF Stores
  <2>2. /\ answer' \in Seq(Passages) /\ Len(answer') = Len(answer) - 1
        /\ \A i \in 1..Len(answer') : answer'[i] = answer[i + 1]
    BY <1>2, <1>6, <2>1
  <2>3. ASSUME NEW i \in 1..Len(answer')
        PROVE  answer'[i] = batch'[(Len(batch') - Len(answer')) + i]
    <3>1. i + 1 \in 1..Len(answer) /\ i \in Int
      BY <1>2, <2>2
    <3>2. answer[i + 1] = batch[(Len(batch) - Len(answer)) + (i + 1)]
      BY <1>2, <3>1
    <3>3. (Len(batch) - Len(answer)) + (i + 1) = (Len(batch) - Len(answer')) + i
      BY <1>2, <2>2, <3>1
    <3> QED
      BY <2>1, <2>2, <3>2, <3>3
  <2>4. Len(answer') \in 1..Len(batch')
    BY <1>2, <1>6, <2>1, <2>2
  <2>5. AnswerInv' /\ BatchInv'
    BY <1>2, <2>1, <2>2, <2>3, <2>4 DEF AnswerInv, BatchInv
  <2> QED
    BY <1>1, <1>5, <2>5 DEF IInv, StoredInv, EdgesInv
<1>7. CASE ~(Len(answer) > 1)
  <2>1. pc' \in {"finger", "pick"}
    BY <1>7 DEF Stores
  <2> QED
    BY <1>1, <1>5, <2>1 DEF IInv, StoredInv, EdgesInv, AnswerInv, BatchInv
<1> QED
  BY <1>6, <1>7

LEMMA RelinksKeeps ==
  ASSUME IInv, Relinks
  PROVE  IInv'
<1>1. /\ edges' \in Canonical(Found(corpus)) /\ pc' = "asleep"
      /\ \A e \in edges' : e.source \in present /\ e.target \in present
      /\ UNCHANGED <<present, chunks, nextId, writing, vectors>>
  BY DEF Relinks
<1>2. Drawn(edges')
  BY <1>1, RowsAreDrawn
<1> QED
  BY <1>1, <1>2 DEF IInv, StoredInv, BatchInv, AnswerInv, VectorInv, EdgesInv

\* The steps that write no table, and have nothing to ask for or to store after.
LEMMA RestKeeps ==
  ASSUME IInv,
         \/ Ticks \/ EmbedFails \/ TakesFingerprint \/ LoadsPassages \/ RelinkFails
         \/ UNCHANGED vars
  PROVE  IInv'
<1>1. UNCHANGED tables
  BY DEF Ticks, EmbedFails, TakesFingerprint, LoadsPassages, RelinkFails, vars
<1>2. pc' \notin {"call", "store"} \/ (pc' = pc /\ batch' = batch /\ answer' = answer)
  BY DEF Ticks, EmbedFails, TakesFingerprint, LoadsPassages, RelinkFails, vars, pass
<1> QED
  BY <1>1, <1>2 DEF IInv, StoredInv, BatchInv, AnswerInv, VectorInv, EdgesInv, tables

\* A transaction that was not committed is gone with the process; ids are not reused.
LEMMA RestartsKeeps ==
  ASSUME IInv, Restarts
  PROVE  IInv'
<1>1. /\ pc' = "asleep" /\ writing' = {}
      /\ UNCHANGED <<present, chunks, nextId, vectors, edges>>
  BY DEF Restarts
<1> QED
  BY <1>1 DEF IInv, StoredInv, BatchInv, AnswerInv, VectorInv, EdgesInv

LEMMA InitHolds ==
  ASSUME Init
  PROVE  IInv
BY FS_EmptySet
DEF Init, IInv, StoredInv, BatchInv, AnswerInv, VectorInv, EdgesInv, Drawn

LEMMA NextKeeps ==
  ASSUME IInv, [Next]_vars
  PROVE  IInv'
<1>1. CASE \E n \in Notes : Deletes(n) \/ \E content \in Contents : SaveBegins(n, content)
  BY <1>1, DeletesKeeps, SaveBeginsKeeps
<1>2. CASE \E w \in writing : SaveCommits(w)
  BY <1>2, SaveCommitsKeeps
<1>3. CASE Picks \/ Embeds \/ Stores \/ Relinks \/ Restarts
  BY <1>3, PicksKeeps, EmbedsKeeps, StoresKeeps, RelinksKeeps, RestartsKeeps
<1>4. CASE \/ Ticks \/ EmbedFails \/ TakesFingerprint \/ LoadsPassages \/ RelinkFails
           \/ UNCHANGED vars
  BY <1>4, RestKeeps
<1> QED
  BY <1>1, <1>2, <1>3, <1>4 DEF Next, Worker

\* The worker's batch and answers stay in step with each other, and an edge is stored
\* once, between notes that are there (worker.rs:119-299).
THEOREM Invariance == Spec => []IInv
<1>1. Init => IInv
  BY InitHolds
<1>2. IInv /\ [Next]_vars => IInv'
  BY NextKeeps
<1> QED
  BY <1>1, <1>2, PTL DEF Spec

LEMMA EdgeIs ==
  ASSUME IInv, NEW e \in edges
  PROVE  /\ e.source \in Int /\ e.target \in Int /\ e.source < e.target
         /\ e.source \in present /\ e.target \in present /\ e.source # e.target
<1>1. /\ e.source \in Notes /\ e.target \in Notes /\ e.source < e.target
      /\ e.source \in present /\ e.target \in present
  BY DEF IInv, EdgesInv, Drawn
<1>2. PICK a, b : a = e.source /\ b = e.target
  OBVIOUS
<1>3. a \in Nat /\ b \in Nat
  BY <1>1, <1>2, SuggestionsAssumption
<1>4. a # b
  BY <1>1, <1>2, <1>3
<1> QED
  BY <1>1, <1>2, <1>3, <1>4

\* Whatever order the model answers in and whatever fails or restarts between, a vector
\* is of the passage it is stored for; and whatever is saved or deleted between the
\* comparison and its transaction, no note is suggested to another twice, to itself, or
\* when it is gone (client.rs:75-80, worker.rs:290-299).
THEOREM SuggestedAtMostOnce == Spec => []SuggestedOnce
<1>1. ASSUME IInv, NEW n \in Notes, NEW s \in SuggestedFor(n), NEW t \in SuggestedFor(n),
             s.note = t.note
      PROVE  s = t
  <2>1. ASSUME NEW x \in SuggestedFor(n)
        PROVE  \E e \in edges : \/ e.source = n /\ x = [note |-> e.target, row |-> e]
                                \/ e.target = n /\ x = [note |-> e.source, row |-> e]
    BY <2>1 DEF SuggestedFor
  <2>2. PICK e \in edges : \/ e.source = n /\ s = [note |-> e.target, row |-> e]
                           \/ e.target = n /\ s = [note |-> e.source, row |-> e]
    BY <2>1
  <2>3. PICK f \in edges : \/ f.source = n /\ t = [note |-> f.target, row |-> f]
                           \/ f.target = n /\ t = [note |-> f.source, row |-> f]
    BY <2>1
  <2>4. /\ e.source < e.target /\ f.source < f.target
        /\ e.source \in Int /\ e.target \in Int /\ f.source \in Int /\ f.target \in Int
    BY <1>1, EdgeIs
  <2>5. e.source = f.source /\ e.target = f.target
    BY <1>1, <2>2, <2>3, <2>4
  <2>6. e = f
    BY <1>1, <2>5 DEF IInv, EdgesInv, Drawn
  <2> QED
    BY <2>2, <2>3, <2>4, <2>6
<1>2. ASSUME IInv, NEW e \in edges
      PROVE  {e.source, e.target} \subseteq present /\ e.source # e.target
  BY <1>2, EdgeIs
<1>3. IInv => SuggestedOnce
  BY <1>1, <1>2 DEF SuggestedOnce, IInv, VectorInv
<1> QED
  BY <1>3, Invariance, PTL
=============================================================================
