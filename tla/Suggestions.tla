---------------------------- MODULE Suggestions ----------------------------
(***************************************************************************)
(* Suggested links: the passages a save stores                             *)
(* (crates/server/src/vault/index.rs), the worker that has a model embed   *)
(* them and recomputes the edges between notes                             *)
(* (crates/server/src/embed/worker.rs, client.rs, similarity.rs), and what *)
(* a note is shown of them (routes/notes.rs), for one user and one model.  *)
(*                                                                         *)
(* A passage is its hash; the vector of a passage is the passage it is of. *)
(***************************************************************************)
EXTENDS Integers, Sequences, FiniteSets, FiniteSetsExt, SequencesExt, Functions

CONSTANTS
  Notes,           \* ids of notes, ordered
  Passages,        \* what a passage may say
  Contents,        \* sequences of passages: what a note may hold
  Similarity(_, _), \* of two passages
  MinScore, Neighbours, BatchSize,
  MaxWriting,      \* saves at once
  MaxEdits, MaxFaults, MaxRestarts    \* bounds of the exploration

ASSUME SuggestionsAssumption ==
  /\ Contents \subseteq Seq(Passages)
  /\ Notes \subseteq Nat /\ Neighbours \in Nat /\ BatchSize \in Nat \ {0}
  /\ {MinScore, MaxWriting, MaxEdits, MaxFaults, MaxRestarts} \subseteq Nat

VARIABLES
  present,     \* the notes with a row
  chunks,      \* note_chunks: [id, note, ordinal, body]
  nextId,      \* its sequence
  writing,     \* transactions with ids and no commit: [note, rows]
  vectors,     \* embeddings: a passage to the passage its vector is of
  edges,       \* semantic_links: [source, target, score, from, to]
  pc,          \* the worker: where its pass is
  batch, answer,  \* what it asks the model for; the vectors it has to store
  finger, corpus, seen,
  drawn,       \* for CatchesUp only: the fingerprint of the passages last loaded
  edits, faults, restarts

tables == <<present, chunks, nextId, writing, vectors, edges>>
pass   == <<batch, answer, finger, corpus, drawn>>
bounds == <<edits, faults, restarts>>
vars   == <<tables, pc, pass, seen, bounds>>

Never == <<-1, -1, -1>>

-----------------------------------------------------------------------------
(***************************************************************************)
(* Saves.                                                                  *)
(***************************************************************************)
ReplaceChunks(n, rows) == chunks' = {c \in chunks : c.note # n} \cup rows
\* The sequence gives out ids when rows are inserted, not when they are committed.
SaveBegins(n, content) ==
  /\ edits < MaxEdits /\ Cardinality(writing) < MaxWriting
  /\ \A w \in writing : w.note # n
  /\ writing' = writing \cup
       {[note |-> n, rows |-> {[id |-> nextId + i, note |-> n, ordinal |-> i, body |-> content[i]] :
                                 i \in DOMAIN content}]}
  /\ nextId' = nextId + Len(content) /\ edits' = edits + 1
  /\ UNCHANGED <<present, chunks, vectors, edges, pc, pass, seen, faults, restarts>>
SaveCommits(w) ==
  /\ w \in writing /\ writing' = writing \ {w} /\ ReplaceChunks(w.note, w.rows)
  /\ present' = present \cup {w.note}
  /\ UNCHANGED <<nextId, vectors, edges, pc, pass, seen, bounds>>
\* Passages and suggestions go with the note.
Deletes(n) ==
  /\ edits < MaxEdits /\ n \in present /\ \A w \in writing : w.note # n
  /\ present' = present \ {n} /\ ReplaceChunks(n, {})
  /\ edges' = {e \in edges : n \notin {e.source, e.target}} /\ edits' = edits + 1
  /\ UNCHANGED <<nextId, writing, vectors, pc, pass, seen, faults, restarts>>

-----------------------------------------------------------------------------
(***************************************************************************)
(* The comparison of passages.                                             *)
(***************************************************************************)
Earlier(a, b) == a.from < b.from \/ (a.from = b.from /\ a.to <= b.to)
\* The best pair of passages of n and another note, the first of the best.
Pairs(n, other, have) ==
  {p \in {[score |-> Similarity(a.vector, b.vector), from |-> a.ordinal, to |-> b.ordinal] :
            a \in {c \in have : c.note = n}, b \in {c \in have : c.note = other}} : p.score >= MinScore}
Best(n, other, have) ==
  CHOOSE p \in Pairs(n, other, have) :
    \A r \in Pairs(n, other, have) : p.score > r.score \/ (p.score = r.score /\ Earlier(p, r))
BestNeighbours(n, have) ==
  LET others == {o \in Notes \ {n} : Pairs(n, o, have) # {}}
      score(o) == Best(n, o, have).score
      ahead(o) == {p \in others : score(p) > score(o) \/ (score(p) = score(o) /\ p < o)}
  IN  {o \in others : Cardinality(ahead(o)) < Neighbours}

\* Found from either side, one row to a pair.  Of two sides with one score the note
\* met first has its way: the notes come in any order.
Row(n, other, have) ==
  LET best == Best(n, other, have)
  IN  IF n <= other
      THEN [source |-> n, target |-> other, score |-> best.score, from |-> best.from, to |-> best.to]
      ELSE [source |-> other, target |-> n, score |-> best.score, from |-> best.to, to |-> best.from]
Found(have) == {Row(p[1], p[2], have) :
                  p \in {q \in Notes \X Notes : q[1] # q[2] /\ q[2] \in BestNeighbours(q[1], have)}}
\* Mutant: a pair found from both sides keeps both rows.
Canonical_Both(rows) ==
  {rows \cup {[source |-> r.target, target |-> r.source, score |-> r.score, from |-> r.to, to |-> r.from] : r \in rows}}
Canonical(rows) ==
  {kept \in SUBSET rows :
     /\ \A r, s \in kept : <<r.source, r.target>> = <<s.source, s.target>> => r = s
     /\ \A r \in rows : \E s \in kept : <<r.source, r.target>> = <<s.source, s.target>> /\ s.score >= r.score}

-----------------------------------------------------------------------------
(***************************************************************************)
(* A pass of the worker.                                                   *)
(***************************************************************************)
Missing == {c.body : c \in chunks} \ DOMAIN vectors
Ticks ==
  /\ pc = "asleep" /\ pc' = "pick" /\ UNCHANGED <<tables, pass, seen, bounds>>
Picks ==
  /\ pc = "pick"
  /\ IF Missing = {} THEN pc' = "finger" /\ batch' = <<>>
     ELSE /\ pc' = "call"
          /\ \E some \in kSubset(IF BatchSize < Cardinality(Missing) THEN BatchSize ELSE Cardinality(Missing), Missing) :
               batch' \in SetToSeqs(some)
  /\ UNCHANGED <<tables, answer, finger, corpus, drawn, seen, bounds>>

\* One datum for each input, in any order; each says which input it is of.
Responses(inputs) ==
  {[i \in DOMAIN inputs |-> [index |-> order[i], embedding |-> inputs[order[i]]]] :
     order \in SetToSeqs(DOMAIN inputs)}
Placed(data, n) == [i \in 1..n |-> (CHOOSE d \in Range(data) : d.index = i).embedding]
Embeds ==
  /\ pc = "call" /\ pc' = "store"
  /\ \E data \in Responses(batch) : answer' = Placed(data, Len(batch))
  /\ UNCHANGED <<tables, batch, finger, corpus, drawn, seen, bounds>>
\* Unreachable, refused, a response with inputs missing or indices out of range: the
\* batch is given up and the edges are made of the vectors there are.
EmbedFails ==
  /\ pc = "call" /\ faults < MaxFaults /\ faults' = faults + 1 /\ pc' = "finger" /\ batch' = <<>>
  /\ UNCHANGED <<tables, answer, finger, corpus, drawn, seen, edits, restarts>>
\* One by one; a batch that was not full was the last.
Stores ==
  /\ pc = "store"
  /\ LET body == batch[Len(batch) - Len(answer) + 1]
     IN  vectors' = IF body \in DOMAIN vectors THEN vectors
                    ELSE [b \in DOMAIN vectors \cup {body} |-> IF b = body THEN answer[1] ELSE vectors[b]]
  /\ answer' = Tail(answer)
  /\ pc' = IF Len(answer) > 1 THEN "store" ELSE IF Len(batch) < BatchSize THEN "finger" ELSE "pick"
  /\ batch' = IF Len(answer) > 1 THEN batch ELSE <<>>
  /\ UNCHANGED <<present, chunks, nextId, writing, edges, finger, corpus, drawn, seen, bounds>>

\* Mutant: the highest id is not part of it.
Fingerprint_NoHigh ==
  <<Cardinality(chunks), 0, Cardinality({c \in chunks : c.body \in DOMAIN vectors})>>
Fingerprint ==
  <<Cardinality(chunks), Max({0} \cup {c.id : c \in chunks}),
    Cardinality({c \in chunks : c.body \in DOMAIN vectors})>>
TakesFingerprint ==
  /\ pc = "finger"
  /\ IF seen = Fingerprint THEN pc' = "asleep" /\ UNCHANGED finger
     ELSE pc' = "load" /\ finger' = Fingerprint
  /\ UNCHANGED <<tables, batch, answer, corpus, drawn, seen, bounds>>
\* A corpus of nothing ends the pass there.
LoadsPassages ==
  /\ pc = "load"
  /\ corpus' = {[note |-> c.note, ordinal |-> c.ordinal, vector |-> vectors[c.body]] :
                  c \in {d \in chunks : d.body \in DOMAIN vectors}}
  /\ drawn' = Fingerprint
  /\ IF corpus' = {} THEN pc' = "asleep" /\ seen' = finger /\ finger' = Never
     ELSE pc' = "relink" /\ UNCHANGED <<seen, finger>>
  /\ UNCHANGED <<tables, batch, answer, bounds>>
\* One transaction replaces every edge.
Relinks ==
  /\ pc = "relink" /\ edges' \in Canonical(Found(corpus))
  /\ \A e \in edges' : {e.source, e.target} \subseteq present
  /\ pc' = "asleep" /\ seen' = finger /\ corpus' = {} /\ finger' = Never
  /\ UNCHANGED <<present, chunks, nextId, writing, vectors, batch, answer, drawn, bounds>>
\* A note of the corpus is gone: the foreign key fails, and nothing is written.
RelinkFails ==
  /\ pc = "relink" /\ \E kept \in Canonical(Found(corpus)) : \E e \in kept : ~({e.source, e.target} \subseteq present)
  /\ pc' = "asleep" /\ corpus' = {} /\ finger' = Never
  /\ UNCHANGED <<tables, batch, answer, drawn, seen, bounds>>
Restarts ==
  /\ restarts < MaxRestarts /\ restarts' = restarts + 1
  /\ pc' = "asleep" /\ seen' = Never /\ batch' = <<>> /\ answer' = <<>> /\ corpus' = {} /\ finger' = Never /\ drawn' = Never
  /\ writing' = {}
  /\ UNCHANGED <<present, chunks, nextId, vectors, edges, edits, faults>>

Worker == Ticks \/ Picks \/ Embeds \/ Stores \/ TakesFingerprint \/ LoadsPassages \/ Relinks \/ RelinkFails
Init ==
  /\ present = {} /\ chunks = {} /\ nextId = 0 /\ writing = {} /\ vectors = <<>> /\ edges = {}
  /\ pc = "asleep" /\ batch = <<>> /\ answer = <<>> /\ finger = Never /\ corpus = {} /\ drawn = Never /\ seen = Never
  /\ edits = 0 /\ faults = 0 /\ restarts = 0
Next ==
  \/ Worker \/ EmbedFails \/ Restarts
  \/ \E n \in Notes : Deletes(n) \/ \E content \in Contents : SaveBegins(n, content)
  \/ \E w \in writing : SaveCommits(w)
Spec == Init /\ [][Next]_vars /\ WF_vars(Worker) /\ WF_vars(\E w \in writing : SaveCommits(w))

-----------------------------------------------------------------------------
(***************************************************************************)
(* Correctness.                                                            *)
(***************************************************************************)
\* What a note is shown: both sides of the rows, the note on the other.
SuggestedFor(n) ==
  {[note |-> e.target, row |-> e] : e \in {r \in edges : r.source = n}}
  \cup {[note |-> e.source, row |-> e] : e \in {r \in edges : r.target = n}}

\* A vector is of the passage it is stored for, whatever order the model answers in, and
\* no note is suggested to another twice (client.rs:75-80, worker.rs:290-299).
SuggestedOnce ==
  /\ \A b \in DOMAIN vectors : vectors[b] = b
  /\ \A n \in Notes : \A s, t \in SuggestedFor(n) : s.note = t.note => s = t
  /\ \A e \in edges : {e.source, e.target} \subseteq present /\ e.source # e.target

\* Each note has the suggestions its passages call for: the notes that are nearest it and
\* those it is among the nearest of, by the best pair of passages.
Scores(n, m) == {Similarity(a.body, b.body) : a \in {c \in chunks : c.note = n}, b \in {c \in chunks : c.note = m}}
Close(n, m)  == Max({0} \cup Scores(n, m))
Related(n)   == {m \in Notes \ {n} : Scores(n, m) # {} /\ Close(n, m) >= MinScore}
Nearest(n)   == {m \in Related(n) : Cardinality({o \in Related(n) : <<-Close(n, o), o>> # <<-Close(n, m), m>>
                  /\ (Close(n, o) > Close(n, m) \/ (Close(n, o) = Close(n, m) /\ o < m))}) < Neighbours}
UpToDate ==
  \A n, m \in Notes : n < m =>
    LET rows == {e \in edges : e.source = n /\ e.target = m}
    IN  IF m \in Nearest(n) \/ n \in Nearest(m)
        THEN \E e \in rows : /\ e.score = Close(n, m)
                             /\ \E a, b \in chunks : /\ <<a.note, a.ordinal, b.note, b.ordinal>> = <<n, e.from, m, e.to>>
                                                     /\ Similarity(a.body, b.body) = e.score
        ELSE rows = {}
\* Once edits, faults and restarts are over the suggestions are up to date.  The last
\* ones stay where no note has a passage, or where what was loaded after the fingerprint
\* was taken is undone before it is taken again.
Slipped == drawn # seen
CatchesUp == <>[](UpToDate \/ chunks = {} \/ Slipped)
=============================================================================
