-------------------------- MODULE GraphView_proof --------------------------
(***************************************************************************)
(* What GraphView keeps, for any vault, moves and suggestions: what is     *)
(* drawn is a graph, in which a suggestion doubles no edge, and a local    *)
(* graph is its note's neighbourhood; and links follow the notes moved.    *)
(***************************************************************************)
EXTENDS GraphView, SequenceTheorems, FiniteSetTheorems, WellFoundedInduction, TLAPS

-----------------------------------------------------------------------------
(***************************************************************************)
(* What a move does to the paths of a vault (VaultFiles).                  *)
(***************************************************************************)

\* A note moved is at the path it was moved to.
LEMMA RebasedItself ==
  ASSUME NEW S, NEW p \in Seq(S), NEW q \in Seq(S)
  PROVE  Rebase(p, p, q) = q
<1>1. SubSeq(p, Len(p) + 1, Len(p)) = << >>
  BY SubSeqEmpty, LenProperties
<1>2. QED
  BY <1>1, ConcatEmptySeq DEF Rebase

\* A path beneath a folder is the folder and the rest, so moving it back undoes a move.
LEMMA RebasedBack ==
  ASSUME NEW S, NEW p \in Seq(S), NEW from \in Seq(S), NEW to \in Seq(S), Under(p, from)
  PROVE  Rebase(Rebase(p, from, to), to, from) = p
<1> DEFINE rest == SubSeq(p, Len(from) + 1, Len(p))
<1>1. Len(from) \in Nat /\ Len(p) \in Nat /\ Len(to) \in Nat /\ Len(from) <= Len(p)
  BY LenProperties DEF Under, IsWithin, IsStrictPrefix, IsPrefix
<1>2. SubSeq(p, 1, Len(from)) = from
  BY SubSeqFull DEF Under, IsWithin, IsStrictPrefix, IsPrefix
<1>3. from \o rest = p
  <2>1. SubSeq(p, 1, Len(from)) \o SubSeq(p, Len(from) + 1, Len(p)) = SubSeq(p, 1, Len(p))
    <3>1. 1 \in 1..(Len(p) + 1) /\ Len(from) \in (1 - 1)..Len(p) /\ Len(p) \in Len(from)..Len(p)
      BY <1>1
    <3> QED
      BY <3>1, ConcatAdjacentSubSeq
  <2> QED
    BY <2>1, <1>2, SubSeqFull
<1>4. rest \in Seq(S)
  <2>1. \A i \in (Len(from) + 1)..Len(p) : p[i] \in S
    BY <1>1, ElementOfSeq
  <2> QED
    BY <1>1, <2>1, SubSeqProperties
<1> HIDE DEF rest
<1>5. SubSeq(to \o rest, Len(to) + 1, Len(to \o rest)) = rest
  <2>1. to \o rest \in Seq(S) /\ Len(to \o rest) = Len(to) + Len(rest) /\ Len(rest) \in Nat
    BY <1>4, ConcatProperties, LenProperties
  <2>2. CASE Len(rest) = 0
    <3>1. rest = << >>
      BY <2>2, <1>4, EmptySeq
    <3> QED
      BY <3>1, <2>1, <2>2, <1>1, SubSeqEmpty
  <2>3. CASE Len(rest) # 0
    <3>1. SubSeq(to \o rest, Len(to) + 1, Len(to) + Len(rest)) = SubSeq(rest, 1, Len(rest))
      BY <2>1, <2>3, <1>1, <1>4, SubSeqOfConcat2
    <3> QED
      BY <3>1, <2>1, <1>4, SubSeqFull
  <2> QED
    BY <2>2, <2>3
<1>6. Rebase(p, from, to) = to \o rest
  BY DEF Rebase, rest
<1> QED
  BY <1>3, <1>5, <1>6 DEF Rebase

\* Of what is moved, each entry is one that was there, at its path or at its new one.
LEMMA MovedFolder ==
  ASSUME NEW S, NEW f, DOMAIN f \subseteq Seq(S), NEW from \in Seq(S), NEW to \in Seq(S),
         NEW q \in DOMAIN Relocated(f, from, to)
  PROVE  \/ q \in DOMAIN f /\ ~Under(q, from) /\ Relocated(f, from, to)[q] = f[q]
         \/ \E p \in DOMAIN f : /\ Under(p, from) /\ q = Rebase(p, from, to)
                                /\ Relocated(f, from, to)[q] = f[p]
<1> DEFINE moved == {p \in DOMAIN f : Under(p, from)}
           new   == {Rebase(p, from, to) : p \in moved}
<1>1. Relocated(f, from, to) =
        [x \in (DOMAIN f \ moved) \cup new |-> IF x \in new THEN f[Rebase(x, to, from)] ELSE f[x]]
  BY DEF Relocated
<1>2. CASE q \in new
  <2>1. PICK p \in moved : q = Rebase(p, from, to)
    BY <1>2
  <2>2. p \in Seq(S) /\ Under(p, from)
    OBVIOUS
  <2>3. Rebase(q, to, from) = p
    BY <2>1, <2>2, RebasedBack
  <2> QED
    BY <1>1, <1>2, <2>1, <2>2, <2>3
<1>3. CASE q \notin new
  <2>1. q \in DOMAIN f \ moved /\ ~Under(q, from)
    BY <1>1, <1>3
  <2> HIDE DEF moved, new
  <2>2. Relocated(f, from, to)[q] = f[q]
    BY <1>1, <1>3, <2>1
  <2> QED
    BY <2>1, <2>2
<1> QED
  BY <1>2, <1>3

-----------------------------------------------------------------------------
(***************************************************************************)
(* The index, whatever a move is doing to it.                              *)
(***************************************************************************)
FilesFit(f) == DOMAIN f \subseteq NotePath /\ \A p \in DOMAIN f : f[p] \in Note

\* A row's links may lead anywhere: the request keeps those that lead to a note it read.
RowFits(r) == DOMAIN r = {"id", "doc", "to"} /\ r.id \in NoteId /\ r.doc \in Seq(Link)
RowsFit(f) ==
  /\ DOMAIN f \subseteq NotePath /\ \A p \in DOMAIN f : RowFits(f[p])
  /\ \A p, q \in DOMAIN f : f[p].id = f[q].id => p = q

JobState ==
  [at : {"off", "row", "reresolve", "sources", "each", "index", "outgoing", "keys"},
   todo : SUBSET (NotePath \X NotePath), from : NotePath \cup {None}, to : NotePath \cup {None},
   sources : SUBSET NotePath, source : NotePath \cup {None}, keys : SUBSET Key]
JobFits ==
  /\ job \in JobState
  /\ job.at \notin {"off", "row"} => job.from \in NotePath /\ job.to \in NotePath
  /\ job.at = "index" => job.source \in DOMAIN files

TablesInv == FilesFit(files) /\ RowsFit(rows) /\ JobFits

LEMMA KeysAreKeys ==
  ASSUME NEW p \in NotePath
  PROVE  KeysFor(p) \subseteq Key /\ p \in Key /\ Bare(p) \in Key
<1>1. KeysFor(p) \subseteq UNION {KeysFor(q) : q \in NotePath}
  OBVIOUS
<1>2. KeysFor(p) \subseteq Key
  BY <1>1 DEF Key
<1>3. p \in KeysFor(p) /\ Bare(p) \in KeysFor(p)
  BY DEF KeysFor
<1> QED
  BY <1>2, <1>3

LEMMA RewrittenDoc ==
  ASSUME NEW doc \in Seq(Link), NEW from, NEW to \in NotePath
  PROVE  Rewritten(doc, from, to) \in Seq(Link)
<1>1. \A link \in Link : Respelt(link, from, to) \in Link
  <2> SUFFICES ASSUME NEW link \in Link PROVE Respelt(link, from, to) \in Link
    OBVIOUS
  <2>1. PICK key : key = IF Full(link) THEN to ELSE Bare(to)
    OBVIOUS
  <2>2. PICK more : more = IF link.more = "title" THEN "nothing" ELSE link.more
    OBVIOUS
  <2>3. key \in Key /\ more \in {"nothing", "alias", "anchor", "title"}
    BY <2>1, <2>2, KeysAreKeys DEF Link
  <2>4. [link EXCEPT !.key = key, !.more = more] \in Link
    BY <2>3 DEF Link
  <2>5. [link EXCEPT !.key = key, !.more = IF @ = "title" THEN "nothing" ELSE @]
          = [link EXCEPT !.key = key, !.more = more]
    BY <2>2 DEF Link
  <2> QED
    BY <2>1, <2>4, <2>5 DEF Respelt
<1>2. DOMAIN doc = 1..Len(doc) /\ Len(doc) \in Nat /\ \A k \in DOMAIN doc : doc[k] \in Link
  OBVIOUS
<1>3. Rewritten(doc, from, to) \in [1..Len(doc) -> Link]
  BY <1>1, <1>2 DEF Rewritten
<1> QED
  BY <1>2, <1>3

\* A link may be looked up again, whatever it leads to then.
LEMMA RelinkedRows ==
  ASSUME RowsFit(rows), NEW sources, NEW keys
  PROVE  RowsFit(Relinked(sources, keys))
<1>1. \A p \in DOMAIN rows : Relinked(sources, keys)[p].id = rows[p].id /\ RowFits(Relinked(sources, keys)[p])
  <2> SUFFICES ASSUME NEW p \in DOMAIN rows
               PROVE  Relinked(sources, keys)[p].id = rows[p].id /\ RowFits(Relinked(sources, keys)[p])
    OBVIOUS
  <2>1. RowFits(rows[p])
    BY DEF RowsFit
  <2>2. PICK to : to = [k \in DOMAIN rows[p].to |-> IF rows[p].doc[k].key \in keys
                          THEN Resolve(rows, rows[p].doc[k].key) ELSE rows[p].to[k]]
    OBVIOUS
  <2>3. Relinked(sources, keys)[p] \in {rows[p], [rows[p] EXCEPT !.to = to]}
    BY <2>1, <2>2 DEF Relinked, RowFits
  <2> QED
    BY <2>1, <2>3 DEF RowFits
<1>2. DOMAIN Relinked(sources, keys) = DOMAIN rows
  BY DEF Relinked
<1> QED
  BY <1>1, <1>2 DEF RowsFit

\* A note beneath a note is that note.
LEMMA NoteIsApart ==
  ASSUME NEW p \in NotePath, NEW q \in NotePath, Under(p, q)
  PROVE  p = q
BY RewriteAssumption DEF Under

LEMMA RenamedRows ==
  ASSUME RowsFit(rows), NEW from \in NotePath, NEW to \in NotePath
  PROVE  RowsFit(Relocated(rows, from, to))
<1>1. DOMAIN rows \subseteq NotePath /\ NotePath \subseteq Seq(STRING)
  BY RewriteAssumption DEF RowsFit
<1>2. PICK g : g = Relocated(rows, from, to)
  OBVIOUS
<1>3. ASSUME NEW q \in DOMAIN g
      PROVE  \/ q \in DOMAIN rows /\ q # from /\ g[q] = rows[q]
             \/ from \in DOMAIN rows /\ q = to /\ g[q] = rows[from]
  <2>1. DOMAIN rows \subseteq Seq(STRING) /\ from \in Seq(STRING) /\ to \in Seq(STRING)
    BY <1>1
  <2>2. \/ q \in DOMAIN rows /\ ~Under(q, from) /\ g[q] = rows[q]
        \/ \E p \in DOMAIN rows : Under(p, from) /\ q = Rebase(p, from, to) /\ g[q] = rows[p]
    BY <1>2, <1>3, <2>1, MovedFolder
  <2>3. Under(from, from) /\ Rebase(from, from, to) = to
    BY <2>1, RebasedItself DEF Under
  <2> QED
    BY <1>1, <2>2, <2>3, NoteIsApart
<1>4. \A q \in DOMAIN g : q \in NotePath /\ RowFits(g[q])
  BY <1>1, <1>3 DEF RowsFit
<1>5. \A p, q \in DOMAIN g : g[p].id = g[q].id => p = q
  BY <1>3 DEF RowsFit
<1> QED
  BY <1>2, <1>4, <1>5 DEF RowsFit

LEMMA MovedFiles ==
  ASSUME FilesFit(files)
  PROVE  /\ \A from \in DOMAIN files, to \in NotePath : FilesFit(Relocated(files, from, to))
         /\ \A from, to \in FolderPath : FilesFit(Relocated(files, from, to))
<1>1. NotePath \subseteq Seq(STRING) /\ FolderPath \subseteq Seq(STRING) /\ DOMAIN files \subseteq NotePath
  BY RewriteAssumption DEF FilesFit
<1>2. ASSUME NEW from \in Seq(STRING), NEW to \in Seq(STRING),
             \A p \in DOMAIN files : Under(p, from) => Rebase(p, from, to) \in NotePath
      PROVE  FilesFit(Relocated(files, from, to))
  <2>1. PICK g : g = Relocated(files, from, to)
    OBVIOUS
  <2>2. ASSUME NEW q \in DOMAIN g PROVE q \in NotePath /\ g[q] \in Note
    <3>1. q \in DOMAIN Relocated(files, from, to) /\ DOMAIN files \subseteq Seq(STRING)
      BY <1>1, <2>1
    <3>2. \/ q \in DOMAIN files /\ ~Under(q, from) /\ g[q] = files[q]
          \/ \E p \in DOMAIN files : Under(p, from) /\ q = Rebase(p, from, to) /\ g[q] = files[p]
      BY <2>1, <3>1, MovedFolder
    <3> QED
      BY <1>2, <3>2 DEF FilesFit
  <2> QED
    BY <2>1, <2>2 DEF FilesFit
<1>3. ASSUME NEW from \in DOMAIN files, NEW to \in NotePath PROVE FilesFit(Relocated(files, from, to))
  <2>1. from \in Seq(STRING) /\ to \in Seq(STRING) /\ from \in NotePath
    BY <1>1
  <2>2. \A p \in DOMAIN files : Under(p, from) => Rebase(p, from, to) \in NotePath
    BY <1>1, <2>1, NoteIsApart, RebasedItself
  <2> QED
    BY <1>2, <2>1, <2>2
<1>4. ASSUME NEW from \in FolderPath, NEW to \in FolderPath PROVE FilesFit(Relocated(files, from, to))
  <2>1. \A p \in DOMAIN files : Under(p, from) => Rebase(p, from, to) \in NotePath
    BY <1>1, RewriteAssumption
  <2> QED
    BY <1>1, <1>2, <2>1
<1> QED
  BY <1>3, <1>4

LEMMA TablesStart ==
  ASSUME RewriteInit
  PROVE  TablesInv
<1>1. FilesFit(files)
  BY RewriteAssumption DEF RewriteInit, FilesFit
<1>2. \A p \in DOMAIN rows : /\ rows[p] = [id |-> files[p].id, doc |-> files[p].doc,
                                           to |-> Resolved(files, files[p].doc)]
                             /\ p \in DOMAIN files
  BY DEF RewriteInit
<1>3. \A p \in DOMAIN rows : RowFits(rows[p]) /\ rows[p].id = files[p].id
  BY <1>1, <1>2 DEF RowFits, FilesFit, Note
<1>4. \A p, q \in DOMAIN rows : rows[p].id = rows[q].id => p = q
  BY <1>2, <1>3, RewriteAssumption DEF RewriteInit
<1>5. DOMAIN rows \subseteq NotePath
  BY <1>1, <1>2 DEF FilesFit
<1>6. JobFits
  BY DEF RewriteInit, JobFits, JobState, Off
<1> QED
  BY <1>1, <1>3, <1>4, <1>5, <1>6 DEF TablesInv, RowsFit

\* Each step of a move keeps the tables: rows are renamed and relinked, never renumbered.
LEMMA TablesKept ==
  ASSUME TablesInv, RewriteNext
  PROVE  TablesInv'
<1> USE DEF TablesInv
<1>1. ASSUME NEW from \in NotePath, NEW to \in NotePath, MovesNote(from, to) PROVE TablesInv'
  <2>1. FilesFit(files')
    BY <1>1, MovedFiles DEF MovesNote
  <2>2. JobFits'
    <3>1. PICK todo : todo = {<<from, to>>}
      OBVIOUS
    <3>2. todo \in SUBSET (NotePath \X NotePath)
      BY <3>1
    <3>3. job' = [Off EXCEPT !.at = "row", !.todo = todo]
      BY <1>1, <3>1 DEF MovesNote
    <3> QED
      BY <3>2, <3>3 DEF JobFits, JobState, Off
  <2> QED
    BY <1>1, <2>1, <2>2 DEF MovesNote
<1>2. ASSUME NEW from \in FolderPath, NEW to \in FolderPath, MovesFolder(from, to) PROVE TablesInv'
  <2>1. FilesFit(files')
    BY <1>2, MovedFiles DEF MovesFolder
  <2>2. PICK todo : todo = {<<p, Rebase(p, from, to)>> : p \in NotesUnder(from)}
    OBVIOUS
  <2>3. todo \in SUBSET (NotePath \X NotePath)
    BY <2>2, RewriteAssumption DEF NotesUnder, RowsFit
  <2>4. job' = [Off EXCEPT !.at = "row", !.todo = todo]
    BY <1>2, <2>2 DEF MovesFolder
  <2>5. JobFits'
    BY <2>3, <2>4 DEF JobFits, JobState, Off
  <2> QED
    BY <1>2, <2>1, <2>5 DEF MovesFolder
<1>3. ASSUME RenamesRow PROVE TablesInv'
  <2>1. CASE job' = Off /\ UNCHANGED rows
    <3>1. JobFits'
      BY <2>1 DEF JobFits, JobState, Off
    <3> QED
      BY <1>3, <2>1, <3>1 DEF RenamesRow
  <2>2. ASSUME NEW move \in job.todo, rows' = Relocated(rows, move[1], move[2]),
               job' = [job EXCEPT !.at = "reresolve", !.todo = @ \ {move},
                                  !.from = move[1], !.to = move[2],
                                  !.keys = KeysFor(move[1]) \cup KeysFor(move[2])]
        PROVE  TablesInv'
    <3>1. move[1] \in NotePath /\ move[2] \in NotePath
      BY <2>2 DEF JobFits, JobState
    <3>2. RowsFit(rows')
      BY <2>2, <3>1, RenamedRows
    <3>3. PICK todo : todo = job.todo \ {move}
      OBVIOUS
    <3>4. PICK keys : keys = KeysFor(move[1]) \cup KeysFor(move[2])
      OBVIOUS
    <3>5. job' = [job EXCEPT !.at = "reresolve", !.todo = todo, !.from = move[1],
                             !.to = move[2], !.keys = keys]
      BY <2>2, <3>3, <3>4 DEF JobFits, JobState
    <3>6. keys \subseteq Key /\ todo \in SUBSET (NotePath \X NotePath)
      BY <3>1, <3>3, <3>4, KeysAreKeys DEF JobFits, JobState
    <3>7. JobFits'
      BY <3>1, <3>5, <3>6 DEF JobFits, JobState
    <3> QED
      BY <1>3, <3>2, <3>7 DEF RenamesRow
  <2> QED
    BY <1>3, <2>1, <2>2 DEF RenamesRow
<1>4. ASSUME ReresolvesMoved PROVE TablesInv'
  <2>1. RowsFit(rows')
    BY <1>4, RelinkedRows DEF ReresolvesMoved
  <2>2. JobFits'
    BY <1>4 DEF ReresolvesMoved, Goes, Place, JobFits, JobState
  <2> QED
    BY <1>4, <2>1, <2>2 DEF ReresolvesMoved
<1>5. ASSUME FindsSources PROVE TablesInv'
  <2>1. PICK found : found = {p \in DOMAIN rows : \E k \in DOMAIN rows[p].doc :
                                rows[p].doc[k].key \in KeysFor(job.from)}
    OBVIOUS
  <2>2. found \in SUBSET NotePath
    BY <2>1 DEF RowsFit
  <2>3. job' = [job EXCEPT !.at = "each", !.sources = found]
    BY <1>5, <2>1 DEF FindsSources
  <2>4. JobFits'
    BY <1>5, <2>2, <2>3 DEF FindsSources, Place, JobFits, JobState
  <2> QED
    BY <1>5, <2>4 DEF FindsSources, tables
<1>6. ASSUME Rewrites PROVE TablesInv'
  <2>1. job.from \in NotePath /\ job.to \in NotePath /\ rows' = rows
    BY <1>6 DEF Rewrites, Place, JobFits, tables
  <2>2. CASE Goes("row") /\ UNCHANGED files
    BY <2>1, <2>2 DEF Goes, JobFits, JobState
  <2>3. ASSUME NEW p \in job.sources, job' = [job EXCEPT !.sources = @ \ {p}], UNCHANGED files
        PROVE  TablesInv'
    BY <2>1, <2>3, <1>6 DEF JobFits, JobState, Rewrites, Place
  <2>4. ASSUME NEW p \in job.sources, NEW doc, doc = Rewritten(files[p].doc, job.from, job.to),
               p \in DOMAIN files, files' = [files EXCEPT ![p].doc = doc],
               job' = [job EXCEPT !.at = "index", !.sources = @ \ {p}, !.source = p]
        PROVE  TablesInv'
    <3>1. files[p] \in Note
      BY <2>4 DEF FilesFit
    <3>2. doc \in Seq(Link)
      BY <2>1, <2>4, <3>1, RewrittenDoc DEF Note
    <3>3. FilesFit(files')
      BY <2>4, <3>1, <3>2 DEF FilesFit, Note
    <3>4. p \in DOMAIN files'
      BY <2>4
    <3>5. JobFits'
      BY <2>1, <2>4, <3>4 DEF JobFits, JobState
    <3> QED
      BY <2>1, <3>3, <3>5
  <2> QED
    BY <1>6, <2>2, <2>3, <2>4 DEF Rewrites
<1>7. ASSUME Indexes PROVE TablesInv'
  <2>1. PICK doc : doc = files[job.source].doc
    OBVIOUS
  <2>2. PICK to : to = [k \in DOMAIN doc |-> Nothing]
    OBVIOUS
  <2>3. doc \in Seq(Link)
    BY <1>7, <2>1 DEF Indexes, Place, JobFits, FilesFit, Note
  <2>4. rows' = [rows EXCEPT ![job.source].doc = doc, ![job.source].to = to]
    BY <1>7, <2>1, <2>2 DEF Indexes
  <2>5. DOMAIN rows' = DOMAIN rows
    BY <2>4
  <2>6. \A p \in DOMAIN rows : rows'[p].id = rows[p].id /\ RowFits(rows'[p])
    BY <2>3, <2>4 DEF RowsFit, RowFits
  <2>7. RowsFit(rows')
    BY <2>5, <2>6 DEF RowsFit
  <2>8. JobFits'
    BY <1>7 DEF Indexes, Goes, Place, JobFits, JobState
  <2> QED
    BY <1>7, <2>7, <2>8 DEF Indexes
<1>8. ASSUME ResolvesOutgoing PROVE TablesInv'
  <2>1. RowsFit(rows')
    BY <1>8, RelinkedRows DEF ResolvesOutgoing
  <2>2. JobFits'
    BY <1>8 DEF ResolvesOutgoing, Goes, Place, JobFits, JobState
  <2> QED
    BY <1>8, <2>1, <2>2 DEF ResolvesOutgoing
<1>9. ASSUME Reresolves PROVE TablesInv'
  <2>1. RowsFit(rows')
    BY <1>9, RelinkedRows DEF Reresolves
  <2>2. JobFits'
    BY <1>9 DEF Reresolves, Goes, Place, JobFits, JobState
  <2> QED
    BY <1>9, <2>1, <2>2 DEF Reresolves
<1> QED
  BY <1>1, <1>2, <1>3, <1>4, <1>5, <1>6, <1>7, <1>8, <1>9 DEF RewriteNext

-----------------------------------------------------------------------------
(***************************************************************************)
(* What is drawn from the index.                                           *)
(***************************************************************************)
Ident == NoteId \cup Key
Node  == [id : Ident, path : NotePath \cup {None}]
Edge  == [ends : Ident \X Ident, kind : {"link", "suggested"}, label : STRING \cup {None}]

Graph(nodes, edges) ==
  /\ nodes \subseteq Node /\ edges \subseteq Edge
  /\ \A m, n \in nodes : m.id = n.id \/ (m.path = n.path /\ m.path # None) => m = n
  /\ \A e \in edges : e.ends[1] \in Ids(nodes) /\ e.ends[2] \in Ids(nodes) /\ e.ends[1] # e.ends[2]
OfNotes(nodes) == \A n \in nodes : n.id \in NoteId /\ n.path \in NotePath
OfLinks(edges) == \A e \in edges : e.kind = "link"
NoDoubles(edges) ==
  \A e, f \in edges : e.kind = "suggested" /\ Joins(e) = Joins(f) => e = f

LEMMA EndsOfPair ==
  ASSUME NEW S, NEW T, NEW pair \in S \X T
  PROVE  Range(pair) = {pair[1], pair[2]}
<1>1. DOMAIN pair = 1..2
  OBVIOUS
<1>2. DOMAIN pair = {1, 2}
  BY <1>1
<1> QED
  BY <1>2 DEF Range

LEMMA EndsOf ==
  ASSUME NEW e \in Edge
  PROVE  Joins(e) = {e.ends[1], e.ends[2]}
<1>1. e.ends \in Ident \X Ident
  BY DEF Edge
<1> QED
  BY <1>1, EndsOfPair DEF Joins

LEMMA TwoEnds ==
  ASSUME NEW a, NEW b, a # b
  PROVE  Cardinality({a, b}) = 2
<1>1. IsFiniteSet({a}) /\ Cardinality({a}) = 1
  BY FS_Singleton
<1>2. Cardinality({a} \cup {b}) = 1 + 1
  BY <1>1, FS_AddElement
<1>3. {a} \cup {b} = {a, b}
  OBVIOUS
<1> QED
  BY <1>2, <1>3

LEMMA GraphIsWellFormed ==
  ASSUME NEW nodes, NEW edges, Graph(nodes, edges)
  PROVE  WellFormed(nodes, edges)
<1>1. ASSUME NEW e \in edges PROVE Joins(e) \subseteq Ids(nodes) /\ Cardinality(Joins(e)) = 2
  <2>1. Joins(e) = {e.ends[1], e.ends[2]} /\ e.ends[1] # e.ends[2]
    BY EndsOf DEF Graph
  <2>2. Cardinality({e.ends[1], e.ends[2]}) = 2
    BY <2>1, TwoEnds
  <2> QED
    BY <2>1, <2>2 DEF Graph
<1> QED
  BY <1>1 DEF WellFormed, Graph

LEMMA NotesDrawn ==
  ASSUME RowsFit(rows)
  PROVE  Graph(Notes, {}) /\ OfNotes(Notes)
<1>1. ASSUME NEW p \in DOMAIN rows PROVE [id |-> rows[p].id, path |-> p] \in [id : NoteId, path : NotePath]
  BY DEF RowsFit, RowFits
<1>2. \A n \in Notes : /\ n \in [id : NoteId, path : NotePath]
                       /\ n.path \in DOMAIN rows /\ n.id = rows[n.path].id
  BY <1>1 DEF Notes
<1>3. \A m, n \in Notes : m.id = n.id \/ (m.path = n.path /\ m.path # None) => m = n
  <2> SUFFICES ASSUME NEW m \in Notes, NEW n \in Notes, m.id = n.id \/ m.path = n.path PROVE m = n
    OBVIOUS
  <2>1. m.path = n.path
    BY <1>2 DEF RowsFit
  <2>2. m.id = n.id
    BY <2>1, <1>2
  <2> QED
    BY <2>1, <2>2, <1>2
<1> QED
  BY <1>2, <1>3 DEF Graph, OfNotes, Node, Ident

LEMMA LinkRowsFit ==
  ASSUME RowsFit(rows), NEW l \in LinkRows
  PROVE  l.key \in Key /\ l.label \in STRING \cup {None}
<1>1. PICK p \in DOMAIN rows : \E k \in DOMAIN rows[p].doc :
        l = [source |-> rows[p].id, to |-> rows[p].to[k],
             key |-> rows[p].doc[k].key, label |-> rows[p].doc[k].label]
  BY DEF LinkRows
<1>2. PICK k \in DOMAIN rows[p].doc :
        l = [source |-> rows[p].id, to |-> rows[p].to[k],
             key |-> rows[p].doc[k].key, label |-> rows[p].doc[k].label]
  BY <1>1
<1>3. PICK doc : doc = rows[p].doc
  OBVIOUS
<1>4. doc \in Seq(Link) /\ k \in DOMAIN doc
  BY <1>2, <1>3 DEF RowsFit, RowFits
<1>5. doc[k] \in Link
  BY <1>4
<1> QED
  BY <1>2, <1>3, <1>5 DEF Link

\* The links of the notes that were read, and a node for each key that leads nowhere.
LEMMA LinksDrawn ==
  ASSUME RowsFit(rows), NEW notes, Graph(notes, {}), OfNotes(notes), NEW links, links = Drawable(notes)
  PROVE  /\ Graph(notes \cup Phantoms(links), Edges(links))
         /\ OfLinks(Edges(links))
<1> DEFINE nodes == notes \cup Phantoms(links)
<1>1. NoteId \cap Key = {} /\ None \notin NotePath
  BY GraphAssumption
<1>2. \A l \in links : /\ l.key \in Key /\ l.label \in STRING \cup {None}
                       /\ l.source \in Ids(notes) /\ l.to \in Ids(notes) \cup {Nothing}
  BY LinkRowsFit DEF Drawable
<1>3. \A n \in Phantoms(links) : n \in Node /\ n.id \in Key /\ n.path = None
  BY <1>2 DEF Phantoms, Node, Ident
<1>4. \A m, n \in Phantoms(links) : m.id = n.id => m = n
  BY DEF Phantoms
<1>5. \A n \in notes : n \in Node /\ n.id \in NoteId /\ n.path \in NotePath
  BY DEF Graph, OfNotes
<1>6. \A m, n \in nodes : m.id = n.id \/ (m.path = n.path /\ m.path # None) => m = n
  BY <1>1, <1>3, <1>4, <1>5 DEF Graph
<1>7. ASSUME NEW l \in links
      PROVE  l.source \in Ids(nodes) /\ Target(l) \in Ids(nodes)
  <2>1. l.source \in Ids(nodes)
    BY <1>2 DEF Ids
  <2>2. CASE l.to = Nothing
    <3>1. [id |-> l.key, path |-> None] \in Phantoms(links)
      BY <2>2 DEF Phantoms
    <3>2. l.key \in Ids(nodes)
      BY <3>1 DEF Ids
    <3> QED
      BY <2>1, <2>2, <3>2 DEF Target
  <2>3. CASE l.to # Nothing
    BY <1>2, <2>1, <2>3 DEF Target, Ids
  <2> QED
    BY <2>2, <2>3
<1>8. Ids(nodes) \subseteq Ident
  BY <1>3, <1>5 DEF Ids, Node
<1>9. ASSUME NEW e \in Edges(links)
      PROVE  /\ e \in Edge /\ e.kind = "link"
             /\ e.ends[1] \in Ids(nodes) /\ e.ends[2] \in Ids(nodes) /\ e.ends[1] # e.ends[2]
  <2>1. PICK l \in links : /\ l.source # Target(l)
                           /\ e = [ends |-> <<l.source, Target(l)>>, kind |-> "link", label |-> l.label]
    BY DEF Edges
  <2> HIDE DEF nodes
  <2> QED
    BY <2>1, <1>2, <1>7, <1>8 DEF Edge
<1> QED
  BY <1>3, <1>5, <1>6, <1>9 DEF Graph, OfLinks

-----------------------------------------------------------------------------
(***************************************************************************)
(* A walk by breadth, over ids whose neighbours are N: a note is taken     *)
(* from the queue, and its neighbours that are new are kept and queued at  *)
(* one hop more, unless it is at the last.                                 *)
(***************************************************************************)
Way(ids, N, from, to, n) ==
  \E path \in [1..(n + 1) -> ids] :
    /\ path[1] = from /\ path[n + 1] = to
    /\ \A k \in 1..n : path[k + 1] \in N[path[k]]
Within(ids, N, from, d) == {id \in ids : \E n \in 0..d : Way(ids, N, from, id, n)}

\* near is what is within each number of hops.
Layers(near, ids, N, from) ==
  /\ near[0] = {from} /\ from \in ids
  /\ \A d \in Nat : near[d] \subseteq ids /\ near[d] \subseteq near[d + 1]
  /\ \A d \in Nat : near[d + 1] = near[d] \cup {id \in ids : \E x \in near[d] : id \in N[x]}

LEMMA WayOfNone ==
  ASSUME NEW ids, NEW N, NEW from \in ids
  PROVE  Within(ids, N, from, 0) = {from}
<1>1. ASSUME NEW id \in ids, Way(ids, N, from, id, 0) PROVE id = from
  BY <1>1 DEF Way
<1>2. Way(ids, N, from, from, 0)
  <2>1. PICK path : path = [k \in 1..(0 + 1) |-> from]
    OBVIOUS
  <2>2. path \in [1..(0 + 1) -> ids] /\ path[1] = from /\ path[0 + 1] = from
    BY <2>1
  <2> QED
    BY <2>2 DEF Way
<1>3. 0..0 = {0}
  OBVIOUS
<1> QED
  BY <1>1, <1>2, <1>3 DEF Within

LEMMA WayOfOneMore ==
  ASSUME NEW ids, NEW N \in [ids -> SUBSET ids], NEW from \in ids, NEW n \in Nat, NEW to \in ids
  PROVE  Way(ids, N, from, to, n + 1) <=> \E x \in ids : Way(ids, N, from, x, n) /\ to \in N[x]
<1>1. ASSUME Way(ids, N, from, to, n + 1)
      PROVE  \E x \in ids : Way(ids, N, from, x, n) /\ to \in N[x]
  <2>1. PICK path \in [1..(n + 2) -> ids] :
          path[1] = from /\ path[n + 2] = to /\ \A k \in 1..(n + 1) : path[k + 1] \in N[path[k]]
    BY <1>1 DEF Way
  <2>2. PICK less : less = [k \in 1..(n + 1) |-> path[k]]
    OBVIOUS
  <2>3. /\ less \in [1..(n + 1) -> ids] /\ less[1] = from /\ less[n + 1] = path[n + 1]
        /\ \A k \in 1..n : less[k + 1] \in N[less[k]]
    BY <2>1, <2>2
  <2>4. path[n + 1] \in ids /\ to \in N[path[n + 1]]
    BY <2>1
  <2> QED
    BY <2>3, <2>4 DEF Way
<1>2. ASSUME NEW x \in ids, Way(ids, N, from, x, n), to \in N[x]
      PROVE  Way(ids, N, from, to, n + 1)
  <2>1. PICK path \in [1..(n + 1) -> ids] :
          path[1] = from /\ path[n + 1] = x /\ \A k \in 1..n : path[k + 1] \in N[path[k]]
    BY <1>2 DEF Way
  <2>2. PICK more : more = [k \in 1..(n + 2) |-> IF k = n + 2 THEN to ELSE path[k]]
    OBVIOUS
  <2>3. more \in [1..((n + 1) + 1) -> ids] /\ more[1] = from /\ more[(n + 1) + 1] = to
    BY <2>1, <2>2
  <2>4. \A k \in 1..(n + 1) : more[k + 1] \in N[more[k]]
    BY <1>2, <2>1, <2>2
  <2> QED
    BY <2>3, <2>4 DEF Way
<1> QED
  BY <1>1, <1>2

LEMMA WithinInLayers ==
  ASSUME NEW ids, NEW N \in [ids -> SUBSET ids], NEW from \in ids,
         NEW near, near = [d \in Nat |-> Within(ids, N, from, d)]
  PROVE  Layers(near, ids, N, from)
<1>1. \A d \in Nat : near[d] = Within(ids, N, from, d)
  OBVIOUS
<1>2. near[0] = {from}
  BY <1>1, WayOfNone
<1>3. ASSUME NEW d \in Nat
      PROVE  near[d + 1] = near[d] \cup {id \in ids : \E x \in near[d] : id \in N[x]}
  <2>1. 0..(d + 1) = (0..d) \cup {d + 1}
    OBVIOUS
  <2>2. near[d + 1] = Within(ids, N, from, d + 1) /\ near[d] = Within(ids, N, from, d)
    BY <1>1
  <2>3. ASSUME NEW id \in near[d + 1] PROVE id \in near[d] \/ \E x \in near[d] : id \in N[x]
    <3>1. id \in ids /\ (id \in near[d] \/ Way(ids, N, from, id, d + 1))
      BY <2>1, <2>2, <2>3 DEF Within
    <3>2. ASSUME Way(ids, N, from, id, d + 1) PROVE \E x \in near[d] : id \in N[x]
      <4>1. PICK x \in ids : Way(ids, N, from, x, d) /\ id \in N[x]
        BY <3>1, <3>2, WayOfOneMore
      <4>2. x \in near[d]
        BY <2>2, <4>1 DEF Within
      <4> QED
        BY <4>1, <4>2
    <3> QED
      BY <3>1, <3>2
  <2>4. near[d] \subseteq near[d + 1]
    BY <2>1, <2>2 DEF Within
  <2>5. ASSUME NEW id \in ids, NEW x \in near[d], id \in N[x] PROVE id \in near[d + 1]
    <3>1. PICK n \in 0..d : Way(ids, N, from, x, n)
      BY <2>2 DEF Within
    <3>2. x \in ids
      BY <2>2 DEF Within
    <3>3. Way(ids, N, from, id, n + 1) /\ n + 1 \in 0..(d + 1)
      BY <2>5, <3>1, <3>2, WayOfOneMore
    <3> QED
      BY <2>2, <3>3 DEF Within
  <2>6. near[d + 1] \subseteq ids
    BY <2>2 DEF Within
  <2> QED
    BY <2>3, <2>4, <2>5, <2>6
<1>4. \A d \in Nat : near[d] \subseteq ids
  BY <1>1 DEF Within
<1> QED
  BY <1>2, <1>3, <1>4 DEF Layers

LEMMA LayersNest ==
  ASSUME NEW ids, NEW N, NEW from, NEW near, Layers(near, ids, N, from), NEW d \in Nat, NEW e \in Nat, d <= e
  PROVE  near[d] \subseteq near[e]
<1> DEFINE T == {n \in Nat : d <= n /\ ~(near[d] \subseteq near[n])}
<1>1. SUFFICES ASSUME T # {} PROVE FALSE
  OBVIOUS
<1>2. PICK n \in T : \A m \in T : ~ (<<m, n>> \in OpToRel(<, Nat))
  <2>1. T \subseteq Nat
    OBVIOUS
  <2> HIDE DEF T
  <2> QED
    BY <1>1, <2>1, NatLessThanWellFounded, WFMin
<1>3. \A m \in T : ~ (m < n)
  BY <1>2 DEF OpToRel
<1>4. n # d /\ n - 1 \in Nat /\ d <= n - 1 /\ (n - 1) + 1 = n
  OBVIOUS
<1>5. near[d] \subseteq near[n - 1]
  BY <1>3, <1>4
<1>6. near[n - 1] \subseteq near[(n - 1) + 1]
  BY <1>4 DEF Layers
<1> QED
  BY <1>4, <1>5, <1>6

\* A layer with all its neighbours in it is all there is to reach.
LEMMA LayersEnd ==
  ASSUME NEW ids, NEW N, NEW from, NEW near, Layers(near, ids, N, from), NEW d \in Nat, NEW e \in Nat, d <= e,
         \A x \in near[d] : N[x] \subseteq near[d]
  PROVE  near[e] = near[d]
<1> DEFINE T == {n \in Nat : d <= n /\ ~(near[n] \subseteq near[d])}
<1>1. SUFFICES ASSUME T # {} PROVE FALSE
  <2>1. near[d] \subseteq near[e]
    BY LayersNest
  <2> QED
    BY <2>1
<1>2. PICK n \in T : \A m \in T : ~ (<<m, n>> \in OpToRel(<, Nat))
  <2>1. T \subseteq Nat
    OBVIOUS
  <2> HIDE DEF T
  <2> QED
    BY <1>1, <2>1, NatLessThanWellFounded, WFMin
<1>3. \A m \in T : ~ (m < n)
  BY <1>2 DEF OpToRel
<1>4. n # d /\ n - 1 \in Nat /\ d <= n - 1 /\ (n - 1) + 1 = n
  OBVIOUS
<1>5. near[n - 1] \subseteq near[d]
  BY <1>3, <1>4
<1>6. near[(n - 1) + 1] = near[n - 1] \cup {id \in ids : \E x \in near[n - 1] : id \in N[x]}
  BY <1>4 DEF Layers
<1>7. near[n] \subseteq near[d]
  BY <1>4, <1>5, <1>6
<1> QED
  BY <1>7

\* The walk is at d hops: what is nearer has been looked from, and what is in the queue
\* is at d hops, and after that at one more.
Walking(ids, N, near, depth, kept, queue, d) ==
  /\ d \in 0..depth /\ kept \subseteq ids /\ queue \in Seq(ids \X Nat)
  /\ \A i \in 1..Len(queue) :
       /\ queue[i][2] \in {d, d + 1} /\ queue[i][2] <= depth /\ queue[i][1] \in near[queue[i][2]]
       /\ queue[i][2] = d + 1 => queue[i][1] \notin near[d]
  /\ \A i, j \in 1..Len(queue) : i < j => queue[i][2] <= queue[j][2]
  /\ near[d] \subseteq kept
  /\ \A x \in near[d] : \/ \E i \in 1..Len(queue) : queue[i] = <<x, d>>
                        \/ d = depth \/ N[x] \subseteq kept
  /\ \A x \in kept \ near[d] : \E i \in 1..Len(queue) : queue[i] = <<x, d + 1>>

LEMMA WalkStarts ==
  ASSUME NEW ids, NEW N, NEW from, NEW near, Layers(near, ids, N, from), NEW depth \in Nat
  PROVE  Walking(ids, N, near, depth, {from}, <<<<from, 0>>>>, 0)
<1>1. PICK queue : queue = <<<<from, 0>>>>
  OBVIOUS
<1>2. from \in ids /\ near[0] = {from}
  BY DEF Layers
<1>3. queue \in Seq(ids \X Nat) /\ Len(queue) = 1 /\ queue[1] = <<from, 0>> /\ 1..Len(queue) = {1}
  BY <1>1, <1>2
<1>4. Walking(ids, N, near, depth, {from}, queue, 0)
  BY <1>2, <1>3 DEF Walking
<1> QED
  BY <1>1, <1>4

\* With nothing left at d hops, the walk is at d + 1.
LEMMA WalkGoesFurther ==
  ASSUME NEW ids, NEW N, NEW from, NEW near, Layers(near, ids, N, from), NEW depth \in Nat,
         NEW kept, NEW queue, NEW d, Walking(ids, N, near, depth, kept, queue, d),
         queue # << >>, queue[1][2] # d
  PROVE  Walking(ids, N, near, depth, kept, queue, d + 1)
<1>1. /\ d \in 0..depth /\ kept \subseteq ids /\ queue \in Seq(ids \X Nat)
      /\ 1 \in 1..Len(queue) /\ Len(queue) \in Nat
  BY DEF Walking
<1>2. \A i \in 1..Len(queue) : queue[i][2] = d + 1 /\ queue[i][1] \in near[d + 1]
  <2>1. \A i \in 1..Len(queue) : /\ queue[i][2] \in {d, d + 1} /\ queue[i][1] \in near[queue[i][2]]
                                 /\ i = 1 \/ 1 < i
    BY ONLY <1>1, Walking(ids, N, near, depth, kept, queue, d) DEF Walking
  <2>2. queue[1][2] = d + 1
    BY <1>1, <2>1
  <2>3. \A i \in 1..Len(queue) : 1 < i => queue[1][2] <= queue[i][2]
    BY ONLY <1>1, Walking(ids, N, near, depth, kept, queue, d) DEF Walking
  <2>4. \A i \in 1..Len(queue) : queue[i][2] = d + 1
    BY ONLY <1>1, <2>1, <2>2, <2>3
  <2> QED
    BY ONLY <2>1, <2>4
<1>3. d + 1 \in 0..depth /\ d \in Nat /\ d # depth
  BY <1>1, <1>2 DEF Walking
<1>4. near[d + 1] = near[d] \cup {id \in ids : \E x \in near[d] : id \in N[x]} /\ near[d] \subseteq kept
  BY <1>3 DEF Layers, Walking
<1>5. \A x \in near[d] : N[x] \subseteq kept
  <2>1. \A x \in near[d] : ~ \E i \in 1..Len(queue) : queue[i] = <<x, d>>
    BY <1>2, <1>3
  <2> QED
    BY <1>3, <2>1 DEF Walking
<1>6. near[d + 1] \subseteq kept
  BY <1>4, <1>5
<1>7. \A x \in kept \ near[d] : \E i \in 1..Len(queue) : queue[i] = <<x, d + 1>>
  BY DEF Walking
<1>8. kept \subseteq near[d + 1]
  <2> SUFFICES ASSUME NEW x \in kept, x \notin near[d] PROVE x \in near[d + 1]
    BY <1>4
  <2>1. PICK i \in 1..Len(queue) : queue[i] = <<x, d + 1>>
    BY <1>7
  <2> QED
    BY <1>2, <2>1
<1>9. \A x \in near[d + 1] : \/ \E i \in 1..Len(queue) : queue[i] = <<x, d + 1>>
                             \/ N[x] \subseteq kept
  BY <1>5, <1>6, <1>7
<1>10. \A i \in 1..Len(queue) :
         /\ queue[i][2] \in {d + 1, (d + 1) + 1} /\ queue[i][2] <= depth
         /\ queue[i][1] \in near[queue[i][2]] /\ queue[i][2] # (d + 1) + 1
  BY <1>2, <1>3
<1>11. \A i, j \in 1..Len(queue) : i < j => queue[i][2] <= queue[j][2]
  BY DEF Walking
<1>12. kept \ near[d + 1] = {}
  BY <1>8
<1> QED
  BY <1>1, <1>3, <1>6, <1>9, <1>10, <1>11, <1>12 DEF Walking

\* next is the queue without its first, which has n behind it, and then more.
Passed(next, queue, more, n, S) ==
  /\ next \in Seq(S) /\ Len(next) = n + Len(more)
  /\ \A i \in 1..n : next[i] = queue[i + 1]
  /\ \A i \in 1..Len(more) : next[n + i] = more[i]
LEMMA QueuePasses ==
  ASSUME NEW S, NEW queue \in Seq(S), queue # << >>, NEW more \in Seq(S),
         NEW n \in Nat, Len(queue) = n + 1, NEW next, next = Tail(queue) \o more
  PROVE  Passed(next, queue, more, n, S)
<1>1. PICK rest : rest = Tail(queue)
  OBVIOUS
<1>2. rest \in Seq(S) /\ Len(rest) = n /\ \A i \in 1..n : rest[i] = queue[i + 1]
  BY <1>1, HeadTailProperties
<1>3. /\ next \in Seq(S) /\ Len(next) = n + Len(more) /\ Len(more) \in Nat
      /\ \A i \in 1..(n + Len(more)) : next[i] = IF i <= n THEN rest[i] ELSE more[i - n]
  <2>1. next = rest \o more /\ Len(more) \in Nat
    BY <1>1, LenProperties
  <2>2. /\ next \in Seq(S) /\ Len(next) = Len(rest) + Len(more)
        /\ \A i \in 1..(Len(rest) + Len(more)) :
             next[i] = IF i <= Len(rest) THEN rest[i] ELSE more[i - Len(rest)]
    BY ONLY <1>2, <2>1, more \in Seq(S), ConcatProperties
  <2> QED
    BY ONLY <1>2, <2>1, <2>2
<1>4. \A i \in 1..n : i \in 1..(n + Len(more)) /\ i <= n
  BY <1>3
<1>5. \A i \in 1..Len(more) : n + i \in 1..(n + Len(more)) /\ ~(n + i <= n) /\ (n + i) - n = i
  BY <1>3
<1>6. \A i \in 1..n : next[i] = queue[i + 1]
  BY ONLY <1>2, <1>3, <1>4
<1>7. \A i \in 1..Len(more) : next[n + i] = more[i]
  BY ONLY <1>3, <1>5
<1> QED
  BY <1>3, <1>6, <1>7 DEF Passed

\* The notes in `new`, queued at d hops.
AllAt(more, new, d) ==
  /\ \A x \in new : \E i \in 1..Len(more) : more[i] = <<x, d>>
  /\ \A i \in 1..Len(more) : \E x \in new : more[i] = <<x, d>>

\* A look at the first of the queue, which is at d hops.
LEMMA WalkLooks ==
  ASSUME NEW ids, NEW N \in [ids -> SUBSET ids], NEW from, NEW near, Layers(near, ids, N, from),
         NEW depth \in Nat, NEW kept, NEW queue, NEW d, Walking(ids, N, near, depth, kept, queue, d),
         queue # << >>, queue[1][2] = d,
         NEW new, new = (IF d >= depth THEN {} ELSE N[queue[1][1]] \ kept),
         NEW more \in Seq(ids \X Nat), AllAt(more, new, d + 1)
  PROVE  Walking(ids, N, near, depth, kept \cup new, Tail(queue) \o more, d)
<1>1. /\ d \in 0..depth /\ kept \subseteq ids /\ queue \in Seq(ids \X Nat)
      /\ 1 \in 1..Len(queue) /\ Len(queue) \in Nat /\ Len(more) \in Nat /\ d \in Nat
  BY DEF Walking
<1>2. PICK next : next = Tail(queue) \o more
  OBVIOUS
<1>3. PICK n \in Nat : Len(queue) = n + 1
  <2>1. Len(queue) - 1 \in Nat /\ Len(queue) = (Len(queue) - 1) + 1
    BY <1>1
  <2> QED
    BY ONLY <2>1
<1>4. /\ next \in Seq(ids \X Nat) /\ Len(next) = n + Len(more)
      /\ \A i \in 1..n : next[i] = queue[i + 1]
      /\ \A i \in 1..Len(more) : next[n + i] = more[i]
  <2>1. Passed(next, queue, more, n, ids \X Nat)
    BY <1>1, <1>2, <1>3, QueuePasses
  <2> QED
    BY <2>1 DEF Passed
<1>5. \A j \in 1..Len(next) : \/ j <= n /\ j + 1 \in 1..Len(queue) /\ next[j] = queue[j + 1]
                              \/ j > n /\ \E i \in 1..Len(more) : next[j] = more[i]
  <2>1. \A j \in 1..Len(next) : j <= n => j \in 1..n /\ j + 1 \in 1..Len(queue)
    BY ONLY <1>1, <1>3, <1>4
  <2>2. \A j \in 1..Len(next) : j > n => j - n \in 1..Len(more) /\ n + (j - n) = j
    BY ONLY <1>1, <1>3, <1>4
  <2>3. \A j \in 1..Len(next) : j <= n \/ j > n
    BY ONLY <1>1, <1>4
  <2>4. \A j \in 1..Len(next) : j <= n => next[j] = queue[j + 1]
    BY ONLY <1>4, <2>1
  <2>5. \A j \in 1..Len(next) : j > n => \E i \in 1..Len(more) : next[j] = more[i]
    <3>1. \A i \in 1..Len(more) : next[n + i] = more[i]
      BY <1>4
    <3> QED
      BY ONLY <2>2, <3>1
  <2> QED
    BY ONLY <2>1, <2>3, <2>4, <2>5
<1>6. \A i \in 1..Len(queue) : i # 1 => \E j \in 1..Len(next) : next[j] = queue[i]
  <2>1. \A i \in 1..Len(queue) : i # 1 => i - 1 \in 1..n /\ (i - 1) + 1 = i
    BY ONLY <1>3
  <2>2. \A j \in 1..n : j \in 1..Len(next)
    BY ONLY <1>1, <1>4
  <2> QED
    BY ONLY <1>4, <2>1, <2>2
<1>7. \A x \in new : \E j \in 1..Len(next) : next[j] = <<x, d + 1>>
  <2> SUFFICES ASSUME NEW x \in new PROVE \E j \in 1..Len(next) : next[j] = <<x, d + 1>>
    OBVIOUS
  <2>1. PICK i \in 1..Len(more) : more[i] = <<x, d + 1>>
    BY DEF AllAt
  <2>2. n + i \in 1..Len(next)
    BY <1>1, <1>4
  <2> QED
    BY <1>4, <2>1, <2>2
<1>8. queue[1][1] \in near[d] /\ near[d] \subseteq kept
  BY <1>1 DEF Walking
<1>9. near[d + 1] = near[d] \cup {id \in ids : \E x \in near[d] : id \in N[x]} /\ near[d] \subseteq ids
  BY <1>1 DEF Layers
<1>10. \A x \in new : x \in ids /\ x \in near[d + 1] /\ x \notin near[d] /\ d + 1 <= depth /\ d # depth
  BY <1>1, <1>8, <1>9
<1>11. \A j \in 1..Len(next) :
         /\ next[j][2] \in {d, d + 1} /\ next[j][2] <= depth /\ next[j][1] \in near[next[j][2]]
         /\ next[j][2] = d + 1 => next[j][1] \notin near[d]
  <2> SUFFICES ASSUME NEW j \in 1..Len(next)
               PROVE  /\ next[j][2] \in {d, d + 1} /\ next[j][2] <= depth /\ next[j][1] \in near[next[j][2]]
                      /\ next[j][2] = d + 1 => next[j][1] \notin near[d]
    OBVIOUS
  <2>1. CASE j + 1 \in 1..Len(queue) /\ next[j] = queue[j + 1]
    BY <2>1 DEF Walking
  <2>2. CASE \E i \in 1..Len(more) : next[j] = more[i]
    <3>1. PICK x \in new : next[j] = <<x, d + 1>>
      BY <2>2 DEF AllAt
    <3> QED
      BY <3>1, <1>10
  <2> QED
    BY <1>5, <2>1, <2>2
<1>12. \A i, j \in 1..Len(next) : i < j => next[i][2] <= next[j][2]
  <2> SUFFICES ASSUME NEW i \in 1..Len(next), NEW j \in 1..Len(next), i < j
               PROVE  next[i][2] <= next[j][2]
    OBVIOUS
  <2>1. CASE j <= n
    <3>1. /\ i + 1 \in 1..Len(queue) /\ j + 1 \in 1..Len(queue) /\ i + 1 < j + 1
          /\ next[i] = queue[i + 1] /\ next[j] = queue[j + 1]
      <4>1. i \in 1..n /\ j \in 1..n /\ i < j
        BY ONLY <1>1, <1>4, <2>1, i \in 1..Len(next), j \in 1..Len(next), i < j
      <4> QED
        BY ONLY <1>1, <1>3, <1>4, <4>1
    <3>2. \A k, l \in 1..Len(queue) : k < l => queue[k][2] <= queue[l][2]
      BY DEF Walking
    <3> QED
      BY ONLY <3>1, <3>2
  <2>2. CASE j > n
    <3>1. next[j][2] = d + 1
      <4>1. \E i2 \in 1..Len(more) : next[j] = more[i2]
        <5>1. ~(j <= n)
          BY ONLY <1>1, <1>4, <2>2, j \in 1..Len(next)
        <5> QED
          BY ONLY <1>5, <5>1, j \in 1..Len(next)
      <4> QED
        BY <4>1 DEF AllAt
    <3>2. next[i][2] \in {d, d + 1}
      BY <1>11
    <3> QED
      BY <1>1, <3>1, <3>2
  <2> QED
    BY <1>1, <1>4, <2>1, <2>2
<1>13. \A x \in near[d] : \/ \E j \in 1..Len(next) : next[j] = <<x, d>>
                          \/ d = depth \/ N[x] \subseteq kept \cup new
  <2> SUFFICES ASSUME NEW x \in near[d], d # depth, ~(N[x] \subseteq kept \cup new)
               PROVE  \E j \in 1..Len(next) : next[j] = <<x, d>>
    OBVIOUS
  <2>1. PICK i \in 1..Len(queue) : queue[i] = <<x, d>>
    BY DEF Walking
  <2>2. i # 1
    BY <1>1, <2>1
  <2> QED
    BY <1>6, <2>1, <2>2
<1>14. \A x \in (kept \cup new) \ near[d] : \E j \in 1..Len(next) : next[j] = <<x, d + 1>>
  <2> SUFFICES ASSUME NEW x \in kept, x \notin near[d] PROVE \E j \in 1..Len(next) : next[j] = <<x, d + 1>>
    BY <1>7
  <2>1. PICK i \in 1..Len(queue) : queue[i] = <<x, d + 1>>
    BY DEF Walking
  <2>2. i # 1
    BY <1>1, <2>1
  <2> QED
    BY <1>6, <2>1, <2>2
<1>15. kept \cup new \subseteq ids /\ near[d] \subseteq kept \cup new
  BY <1>1, <1>8, <1>10
<1>16. Walking(ids, N, near, depth, kept \cup new, next, d)
  BY <1>1, <1>4, <1>11, <1>12, <1>13, <1>14, <1>15 DEF Walking
<1> QED
  BY <1>2, <1>16

\* With nothing left in the queue, what is kept is what is near.
LEMMA WalkEnds ==
  ASSUME NEW ids, NEW N, NEW from, NEW near, Layers(near, ids, N, from), NEW depth \in Nat,
         NEW kept, NEW d, Walking(ids, N, near, depth, kept, << >>, d)
  PROVE  kept = near[depth]
<1>1. PICK queue : queue = << >>
  OBVIOUS
<1>2. Walking(ids, N, near, depth, kept, queue, d) /\ 1..Len(queue) = {}
  BY <1>1
<1>3. /\ d \in Nat /\ d <= depth /\ near[d] \subseteq kept
      /\ \A x \in near[d] : d = depth \/ N[x] \subseteq kept
  BY <1>2 DEF Walking
<1>4. kept \ near[d] = {}
  BY <1>2 DEF Walking
<1>5. kept = near[d]
  BY <1>3, <1>4
<1>6. CASE d = depth
  BY <1>5, <1>6
<1>7. CASE d # depth
  <2>1. \A x \in near[d] : N[x] \subseteq near[d]
    BY <1>3, <1>5, <1>7
  <2>2. near[depth] = near[d]
    BY <1>3, <2>1, LayersEnd
  <2> QED
    BY <1>5, <2>2
<1> QED
  BY <1>6, <1>7

-----------------------------------------------------------------------------
(***************************************************************************)
(* The invariant of the request and of the view.                           *)
(***************************************************************************)
FetchState ==
  [at : {"off", "notes", "links", "suggested", "scope", "walk", "answer"},
   ask : Questions \cup {None}, nodes : SUBSET Node, edges : SUBSET Edge,
   kept : SUBSET Ident, queue : Seq(Ident \X Nat)]
FetchInv ==
  /\ fetch \in FetchState
  /\ fetch.at # "off" => fetch.ask \in Questions
  /\ fetch.at \in {"off", "notes"} => fetch.nodes = {} /\ fetch.edges = {}
  /\ fetch.at = "links" => fetch.edges = {} /\ OfNotes(fetch.nodes)
  /\ fetch.at = "suggested" => OfLinks(fetch.edges)
  /\ Graph(fetch.nodes, fetch.edges) /\ NoDoubles(fetch.edges)

NextTo(nodes, edges) ==
  [id \in Ids(nodes) |-> UNION {Joins(e) : e \in {e \in edges : id \in Joins(e)}}]
NearTo(start, nodes, edges) ==
  [d \in Nat |-> Within(Ids(nodes), NextTo(nodes, edges), start.id, d)]
WalkFrom(start, nodes, edges, depth, kept, queue) ==
  \E d \in 0..depth :
    Walking(Ids(nodes), NextTo(nodes, edges), NearTo(start, nodes, edges), depth, kept, queue, d)
WalkInv ==
  fetch.at = "walk" =>
    /\ fetch.ask.local
    /\ \E start \in fetch.nodes :
         /\ start.path = fetch.ask.focus
         /\ WalkFrom(start, fetch.nodes, fetch.edges, fetch.ask.depth, fetch.kept, fetch.queue)

SceneInv ==
  /\ scene \in [nodes : SUBSET Node, edges : SUBSET Edge]
  /\ Graph(scene.nodes, scene.edges) /\ NoDoubles(scene.edges)
HandInv ==
  /\ hand \in [down : BOOLEAN, dragging : Ident \cup {None}, panning : BOOLEAN,
               pinned : SUBSET Ident, moved : BOOLEAN]
  /\ hand.dragging \in Ids(scene.nodes) \cup {None}
  /\ hand.pinned = IF hand.dragging = None THEN {} ELSE {hand.dragging}
  /\ ~hand.down => hand.dragging = None

RequestInv == FetchInv /\ WalkInv
ViewInv    == SceneInv /\ HandInv
IInv       == TablesInv /\ RequestInv /\ ViewInv

LEMMA AskIs ==
  ASSUME NEW ask \in Questions, ask.local
  PROVE  ask.focus \in NotePath /\ ask.depth \in Nat
<1>1. ask \notin {[local |-> FALSE, depth |-> 0, focus |-> None, semantic |-> s] : s \in BOOLEAN}
  <2> SUFFICES ASSUME NEW s \in BOOLEAN, ask = [local |-> FALSE, depth |-> 0, focus |-> None, semantic |-> s]
               PROVE  FALSE
    OBVIOUS
  <2>1. ask.local = FALSE
    OBVIOUS
  <2> QED
    BY <2>1
<1>2. ask \in [local : {TRUE}, depth : 1..MaxDepth, focus : NotePath, semantic : BOOLEAN]
  BY <1>1 DEF Questions
<1>3. ask.focus \in NotePath /\ ask.depth \in 1..MaxDepth
  BY <1>2
<1> QED
  BY <1>3, GraphAssumption

LEMMA NoGraphIsOne == Graph({}, {}) /\ NoDoubles({}) /\ OfLinks({})
BY DEF Graph, NoDoubles, OfLinks

LEMMA LinksDoNotDouble ==
  ASSUME NEW edges, OfLinks(edges)
  PROVE  NoDoubles(edges)
BY DEF OfLinks, NoDoubles

\* What a part of a graph keeps.
LEMMA PartOfGraph ==
  ASSUME NEW nodes, NEW edges, Graph(nodes, edges), NoDoubles(edges), NEW kept,
         NEW fewer, fewer = {n \in nodes : n.id \in kept},
         NEW less, less = {e \in edges : Joins(e) \subseteq kept}
  PROVE  Graph(fewer, less) /\ NoDoubles(less)
<1>1. ASSUME NEW e \in less PROVE e.ends[1] \in Ids(fewer) /\ e.ends[2] \in Ids(fewer)
  <2>1. e \in edges /\ e \in Edge /\ e.ends[1] \in kept /\ e.ends[2] \in kept
    BY EndsOf DEF Graph
  <2>2. e.ends[1] \in Ids(nodes) /\ e.ends[2] \in Ids(nodes)
    BY <2>1 DEF Graph
  <2> QED
    BY <2>1, <2>2 DEF Ids
<1> QED
  BY <1>1 DEF Graph, NoDoubles

LEMMA NeighboursAreDrawn ==
  ASSUME NEW nodes, NEW edges, Graph(nodes, edges)
  PROVE  NextTo(nodes, edges) \in [Ids(nodes) -> SUBSET Ids(nodes)]
<1>1. \A e \in edges : Joins(e) \subseteq Ids(nodes)
  BY EndsOf DEF Graph
<1> QED
  BY <1>1 DEF NextTo

LEMMA NearIsInLayers ==
  ASSUME NEW nodes, NEW edges, Graph(nodes, edges), NEW start \in nodes
  PROVE  Layers(NearTo(start, nodes, edges), Ids(nodes), NextTo(nodes, edges), start.id)
<1>1. PICK N : N = NextTo(nodes, edges)
  OBVIOUS
<1>2. PICK ids : ids = Ids(nodes)
  OBVIOUS
<1>3. PICK from : from = start.id
  OBVIOUS
<1>4. N \in [ids -> SUBSET ids] /\ from \in ids
  BY <1>1, <1>2, <1>3, NeighboursAreDrawn DEF Ids
<1>5. PICK near : near = [d \in Nat |-> Within(ids, N, from, d)]
  OBVIOUS
<1>6. Layers(near, ids, N, from)
  BY <1>4, <1>5, WithinInLayers
<1>7. near = NearTo(start, nodes, edges)
  BY <1>1, <1>2, <1>3, <1>5 DEF NearTo
<1> QED
  BY <1>1, <1>2, <1>3, <1>6, <1>7

LEMMA SuggestionsDrawn ==
  ASSUME At("suggested"), Graph(fetch.nodes, fetch.edges), OfLinks(fetch.edges),
         NEW best \in BestOf(Fit),
         NEW new, new = {[ends |-> s.pair, kind |-> "suggested", label |-> None] : s \in best}
  PROVE  Graph(fetch.nodes, fetch.edges \cup new) /\ NoDoubles(fetch.edges \cup new)
<1>1. \A s \in best : s \in Fit /\ s \in Suggested
  BY DEF BestOf, Fit
<1>2. \A s \in best : s.pair \in NoteId \X NoteId
  BY <1>1, GraphAssumption
<1>3. \A s \in best : Range(s.pair) = {s.pair[1], s.pair[2]}
  BY <1>2, EndsOfPair
<1>4. ASSUME NEW s \in best
      PROVE  /\ [ends |-> s.pair, kind |-> "suggested", label |-> None] \in Edge
             /\ s.pair[1] \in Ids(fetch.nodes) /\ s.pair[2] \in Ids(fetch.nodes)
             /\ s.pair[1] # s.pair[2] /\ \A f \in fetch.edges : Joins(f) # Range(s.pair)
  BY <1>1, <1>2, <1>3 DEF Fit, NotLinked, Linked, Edge, Ident
<1>5. \A s, t \in best : Range(s.pair) = Range(t.pair) => s = t
  BY <1>1 DEF BestOf, SamePair
<1>6. \A e \in new : \E s \in best : /\ e = [ends |-> s.pair, kind |-> "suggested", label |-> None]
                                     /\ e.ends = s.pair /\ Joins(e) = Range(s.pair)
  BY DEF Joins
<1>7. Graph(fetch.nodes, fetch.edges \cup new)
  BY <1>4, <1>6 DEF Graph
<1>8. NoDoubles(fetch.edges \cup new)
  <2> SUFFICES ASSUME NEW e \in fetch.edges \cup new, NEW f \in fetch.edges \cup new,
                      e.kind = "suggested", Joins(e) = Joins(f)
               PROVE  e = f
    BY DEF NoDoubles
  <2>1. e \in new
    BY DEF OfLinks
  <2>2. PICK s \in best : /\ e = [ends |-> s.pair, kind |-> "suggested", label |-> None]
                          /\ Joins(e) = Range(s.pair)
    BY <2>1, <1>6
  <2>3. f \in new
    BY <2>2, <1>4
  <2>4. PICK t \in best : /\ f = [ends |-> t.pair, kind |-> "suggested", label |-> None]
                          /\ Joins(f) = Range(t.pair)
    BY <2>3, <1>6
  <2> QED
    BY <2>2, <2>4, <1>5
<1> QED
  BY <1>7, <1>8

\* The sequences of the elements of S.
Lists(queue, S) == queue \in Seq(S) /\ \A x \in S : \E i \in 1..Len(queue) : queue[i] = x
LEMMA AllQueued ==
  ASSUME NEW S, IsFiniteSet(S), NEW queue, queue = SetToSeq(S)
  PROVE  Lists(queue, S)
<1>1. PICK n \in Nat : n = Cardinality(S)
  BY FS_CardinalityType
<1>2. ExistsBijection(1..n, S)
  BY <1>1, FS_CardinalityType
<1>3. PICK f \in Bijection(1..n, S) : TRUE
  BY <1>2 DEF ExistsBijection
<1>4. f \in [1..n -> S] /\ IsInjective(f)
  BY <1>3 DEF Bijection, Injection, IsInjective
<1>5. queue \in [1..n -> S] /\ IsInjective(queue)
  BY <1>1, <1>4 DEF SetToSeq
<1>6. queue \in Injection(1..n, S)
  BY <1>5 DEF Injection, IsInjective
<1>7. Cardinality(1..n) = n
  BY FS_Interval
<1>8. queue \in Surjection(1..n, S)
  BY <1>1, <1>6, <1>7, FS_Injection
<1>9. queue \in Seq(S) /\ Len(queue) = n
  BY <1>5
<1> QED
  BY <1>8, <1>9 DEF Surjection, Lists

-----------------------------------------------------------------------------
(***************************************************************************)
(* The steps of the request.                                               *)
(***************************************************************************)
LEMMA NoFetchIs == NoFetch \in FetchState
<1>1. << >> \in Seq(Ident \X Nat)
  OBVIOUS
<1>2. PICK queue \in Seq(Ident \X Nat) : queue = << >>
  BY <1>1
<1>3. NoFetch = [at |-> "off", ask |-> None, nodes |-> {}, edges |-> {}, kept |-> {}, queue |-> queue]
  BY <1>2 DEF NoFetch
<1> QED
  BY <1>3 DEF FetchState

LEMMA AskedKept ==
  ASSUME NEW ask \in Questions, Asks(ask)
  PROVE  RequestInv'
<1>1. fetch' = [NoFetch EXCEPT !.at = "notes", !.ask = ask]
  BY DEF Asks
<1>2. fetch' \in FetchState
  BY <1>1, NoFetchIs DEF FetchState
<1> QED
  BY <1>1, <1>2, NoGraphIsOne DEF RequestInv, FetchInv, WalkInv, NoFetch

LEMMA NotesReadKept ==
  ASSUME TablesInv, RequestInv, ReadsNotes
  PROVE  RequestInv'
<1>1. PICK notes : notes = Notes
  OBVIOUS
<1>2. fetch' = [fetch EXCEPT !.at = "links", !.nodes = notes] /\ fetch \in FetchState /\ fetch.at = "notes"
  BY <1>1 DEF ReadsNotes, RequestInv, FetchInv, At
<1>3. Graph(notes, {}) /\ OfNotes(notes)
  BY <1>1, NotesDrawn DEF TablesInv
<1>4. fetch' \in FetchState
  BY <1>2, <1>3 DEF FetchState, Graph
<1>5. fetch'.at = "links" /\ fetch'.nodes = notes /\ fetch'.edges = {} /\ fetch'.ask \in Questions
  BY <1>2 DEF FetchState, RequestInv, FetchInv
<1> QED
  BY <1>3, <1>4, <1>5, NoGraphIsOne DEF RequestInv, FetchInv, WalkInv

LEMMA LinksReadKept ==
  ASSUME TablesInv, RequestInv, ReadsLinks
  PROVE  RequestInv'
<1>1. PICK links : links = Drawable(fetch.nodes)
  OBVIOUS
<1>2. PICK place : place = IF fetch.ask.semantic THEN "suggested" ELSE "scope"
  OBVIOUS
<1>3. PICK nodes : nodes = fetch.nodes \cup Phantoms(links)
  OBVIOUS
<1>4. PICK edges : edges = Edges(links)
  OBVIOUS
<1>5. /\ fetch' = [fetch EXCEPT !.at = place, !.nodes = nodes, !.edges = edges]
      /\ fetch \in FetchState /\ fetch.at = "links" /\ fetch.ask \in Questions
      /\ Graph(fetch.nodes, {}) /\ OfNotes(fetch.nodes)
  BY <1>1, <1>2, <1>3, <1>4 DEF ReadsLinks, RequestInv, FetchInv, At
<1>6. Graph(nodes, edges) /\ OfLinks(edges)
  BY <1>1, <1>3, <1>4, <1>5, LinksDrawn DEF TablesInv
<1>7. place \in {"suggested", "scope"}
  BY <1>2
<1>8. fetch' \in FetchState
  BY <1>5, <1>6, <1>7 DEF FetchState, Graph
<1>9. fetch'.at = place /\ fetch'.nodes = nodes /\ fetch'.edges = edges /\ fetch'.ask \in Questions
  BY <1>5 DEF FetchState
<1> QED
  BY <1>6, <1>7, <1>8, <1>9, LinksDoNotDouble DEF RequestInv, FetchInv, WalkInv

LEMMA SuggestedReadKept ==
  ASSUME RequestInv, ReadsSuggested
  PROVE  RequestInv'
<1>1. PICK best \in BestOf(Fit) :
        fetch' = [fetch EXCEPT !.at = "scope",
          !.edges = @ \cup {[ends |-> s.pair, kind |-> "suggested", label |-> None] : s \in best}]
  BY DEF ReadsSuggested
<1>2. PICK new : new = {[ends |-> s.pair, kind |-> "suggested", label |-> None] : s \in best}
  OBVIOUS
<1>3. PICK edges : edges = fetch.edges \cup new
  OBVIOUS
<1>4. /\ fetch' = [fetch EXCEPT !.at = "scope", !.edges = edges]
      /\ fetch \in FetchState /\ At("suggested") /\ fetch.ask \in Questions
      /\ Graph(fetch.nodes, fetch.edges) /\ OfLinks(fetch.edges)
  BY <1>1, <1>2, <1>3 DEF ReadsSuggested, RequestInv, FetchInv, FetchState, At
<1>5. Graph(fetch.nodes, edges) /\ NoDoubles(edges)
  BY <1>2, <1>3, <1>4, SuggestionsDrawn
<1>6. fetch' \in FetchState
  BY <1>4, <1>5 DEF FetchState, Graph
<1>7. /\ fetch'.at = "scope" /\ fetch'.nodes = fetch.nodes /\ fetch'.edges = edges
      /\ fetch'.ask \in Questions
  BY <1>4 DEF FetchState
<1> QED
  BY <1>5, <1>6, <1>7 DEF RequestInv, FetchInv, WalkInv

LEMMA ScopedKept ==
  ASSUME RequestInv, Scopes
  PROVE  RequestInv'
<1>1. /\ fetch \in FetchState /\ fetch.at = "scope" /\ fetch.ask \in Questions
      /\ Graph(fetch.nodes, fetch.edges) /\ NoDoubles(fetch.edges)
  BY DEF RequestInv, FetchInv, Scopes, At
<1>2. PICK start : start = {n \in fetch.nodes : n.path = fetch.ask.focus}
  OBVIOUS
<1>3. CASE fetch' = [fetch EXCEPT !.at = "answer"]
  <2>1. fetch' \in FetchState
    BY <1>1, <1>3 DEF FetchState
  <2>2. /\ fetch'.at = "answer" /\ fetch'.nodes = fetch.nodes /\ fetch'.edges = fetch.edges
        /\ fetch'.ask = fetch.ask
    BY <1>1, <1>3 DEF FetchState
  <2> QED
    BY <1>1, <2>1, <2>2 DEF RequestInv, FetchInv, WalkInv
<1>4. CASE fetch' = [fetch EXCEPT !.at = "answer", !.nodes = {}, !.edges = {}]
  <2>1. fetch' \in FetchState
    BY <1>1, <1>4 DEF FetchState
  <2>2. fetch'.at = "answer" /\ fetch'.nodes = {} /\ fetch'.edges = {} /\ fetch'.ask = fetch.ask
    BY <1>1, <1>4 DEF FetchState
  <2> QED
    BY <1>1, <2>1, <2>2, NoGraphIsOne DEF RequestInv, FetchInv, WalkInv
<1>5. ASSUME start # {}, fetch.ask.local, NEW n, n = (CHOOSE m \in start : TRUE),
             fetch' = [fetch EXCEPT !.at = "walk", !.kept = {n.id}, !.queue = <<<<n.id, 0>>>>]
      PROVE  RequestInv'
  <2>1. n \in start
    BY <1>5
  <2>2. n \in fetch.nodes /\ n.path = fetch.ask.focus
    BY <1>2, <2>1
  <2>3. n.id \in Ident
    BY <1>1, <2>2 DEF Graph, Node
  <2>4. PICK queue : queue = <<<<n.id, 0>>>>
    OBVIOUS
  <2>5. fetch' = [fetch EXCEPT !.at = "walk", !.kept = {n.id}, !.queue = queue]
    BY <1>5, <2>4
  <2>6. queue \in Seq(Ident \X Nat)
    BY <2>3, <2>4
  <2>7. fetch' \in FetchState
    BY <1>1, <2>3, <2>5, <2>6 DEF FetchState
  <2>8. /\ fetch'.at = "walk" /\ fetch'.nodes = fetch.nodes /\ fetch'.edges = fetch.edges
        /\ fetch'.ask = fetch.ask /\ fetch'.kept = {n.id} /\ fetch'.queue = queue
    BY <1>1, <2>5 DEF FetchState
  <2>9. FetchInv'
    BY <1>1, <2>7, <2>8 DEF FetchInv
  <2>10. PICK depth \in Nat : depth = fetch.ask.depth
    BY <1>1, <1>5, AskIs
  <2>11. WalkFrom(n, fetch.nodes, fetch.edges, depth, {n.id}, queue)
    <3>1. Layers(NearTo(n, fetch.nodes, fetch.edges), Ids(fetch.nodes), NextTo(fetch.nodes, fetch.edges), n.id)
      BY <1>1, <2>2, NearIsInLayers
    <3>2. Walking(Ids(fetch.nodes), NextTo(fetch.nodes, fetch.edges), NearTo(n, fetch.nodes, fetch.edges),
                  depth, {n.id}, <<<<n.id, 0>>>>, 0)
      BY <3>1, WalkStarts
    <3> QED
      BY <2>4, <3>2 DEF WalkFrom
  <2>12. WalkInv'
    BY <1>5, <2>2, <2>8, <2>10, <2>11 DEF WalkInv
  <2> QED
    BY <2>9, <2>12 DEF RequestInv
<1> QED
  BY <1>2, <1>3, <1>4, <1>5 DEF Scopes

LEMMA QueuedAtOneMore ==
  ASSUME NEW new, new \subseteq Ident, NEW d \in Nat,
         NEW more, more = SetToSeq({<<n, d + 1>> : n \in new})
  PROVE  more \in Seq(Ident \X Nat) /\ AllAt(more, new, d + 1)
<1>1. PICK S : S = {<<n, d + 1>> : n \in new}
  OBVIOUS
<1>2. IsFiniteSet(new)
  <2>1. IsFiniteSet(Ident)
    BY GraphAssumption DEF Ident
  <2> QED
    BY <2>1, FS_Subset
<1>3. IsFiniteSet(S)
  <2>1. PICK f : f = [n \in new |-> <<n, d + 1>>]
    OBVIOUS
  <2>2. f \in Surjection(new, S)
    BY <1>1, <2>1 DEF Surjection
  <2> QED
    BY <1>2, <2>2, FS_Surjection
<1>4. more \in Seq(S) /\ \A x \in S : \E i \in 1..Len(more) : more[i] = x
  <2>1. Lists(more, S)
    BY <1>1, <1>3, AllQueued
  <2> QED
    BY <2>1 DEF Lists
<1>5. S \subseteq Ident \X Nat
  BY <1>1
<1>6. more \in Seq(Ident \X Nat)
  BY <1>4, <1>5, SeqMonotonic
<1>7. \A i \in 1..Len(more) : more[i] \in S
  BY <1>4, ElementOfSeq
<1> QED
  BY <1>1, <1>4, <1>6, <1>7 DEF AllAt

LEMMA WalkedKept ==
  ASSUME RequestInv, Walks
  PROVE  RequestInv'
<1> DEFINE ids == Ids(fetch.nodes)
           N   == NextTo(fetch.nodes, fetch.edges)
<1>1. /\ fetch \in FetchState /\ fetch.at = "walk" /\ fetch.ask \in Questions /\ fetch.ask.local
      /\ Graph(fetch.nodes, fetch.edges) /\ NoDoubles(fetch.edges) /\ fetch.queue # << >>
  BY DEF RequestInv, FetchInv, WalkInv, Walks, At
<1>2. PICK depth \in Nat : depth = fetch.ask.depth
  BY <1>1, AskIs
<1>3. PICK start \in fetch.nodes :
        /\ start.path = fetch.ask.focus
        /\ WalkFrom(start, fetch.nodes, fetch.edges, depth, fetch.kept, fetch.queue)
  BY <1>1, <1>2 DEF RequestInv, WalkInv
<1>4. PICK near : near = NearTo(start, fetch.nodes, fetch.edges)
  OBVIOUS
<1>5. Layers(near, ids, N, start.id)
  BY <1>1, <1>4, NearIsInLayers
<1>6. N \in [ids -> SUBSET ids]
  BY <1>1, NeighboursAreDrawn
<1>7. PICK queue : queue = fetch.queue
  OBVIOUS
<1>8. PICK kept : kept = fetch.kept
  OBVIOUS
<1>9. PICK d \in 0..depth : Walking(ids, N, near, depth, kept, queue, d)
  BY <1>3, <1>4, <1>7, <1>8 DEF WalkFrom
<1> HIDE DEF ids, N
<1>10. PICK e : Walking(ids, N, near, depth, kept, queue, e) /\ queue[1][2] = e /\ e \in 0..depth
  <2>1. CASE queue[1][2] = d
    BY <1>9, <2>1
  <2>2. CASE queue[1][2] # d
    <3>1. Walking(ids, N, near, depth, kept, queue, d + 1)
      BY <1>1, <1>5, <1>7, <1>9, <2>2, WalkGoesFurther
    <3>2. queue \in Seq(ids \X Nat) /\ queue # << >>
      BY <1>1, <1>7, <1>9 DEF Walking
    <3>3. 1 \in 1..Len(queue)
      BY <3>2
    <3>4. queue[1][2] \in {d, d + 1}
      BY <1>9, <3>3 DEF Walking
    <3>5. d + 1 \in 0..depth
      BY <3>1 DEF Walking
    <3> QED
      BY <2>2, <3>1, <3>4, <3>5
  <2> QED
    BY <2>1, <2>2
<1>11. queue \in Seq(ids \X Nat) /\ queue # << >> /\ kept \subseteq ids
  BY <1>1, <1>7, <1>10 DEF Walking
<1>12. Head(queue) = queue[1] /\ queue[1][1] \in ids /\ e \in Nat
  BY <1>10, <1>11
<1>13. PICK new : new = IF e >= depth THEN {} ELSE N[queue[1][1]] \ kept
  OBVIOUS
<1>14. Neighbours(queue[1][1]) = N[queue[1][1]]
  BY <1>12 DEF Neighbours, N, NextTo, ids
<1>15. PICK more : more = SetToSeq({<<n, e + 1>> : n \in new})
  OBVIOUS
<1>16. fetch' = [fetch EXCEPT !.kept = @ \cup new, !.queue = Tail(@) \o more]
  <2>1. Head(fetch.queue)[1] = queue[1][1] /\ Head(fetch.queue)[2] = e
    BY <1>7, <1>10, <1>12
  <2>2. new = IF Spent(e) THEN {} ELSE Neighbours(queue[1][1]) \ fetch.kept
    BY <1>2, <1>8, <1>13, <1>14 DEF Spent
  <2> QED
    BY <2>1, <2>2, <1>15 DEF Walks
<1>17. new \subseteq ids /\ ids \subseteq Ident
  <2>1. new \subseteq ids
    BY <1>6, <1>12, <1>13
  <2> QED
    BY <1>1, <2>1 DEF Graph, Node, ids, Ids
<1>18. more \in Seq(Ident \X Nat) /\ AllAt(more, new, e + 1)
  <2>1. new \subseteq Ident
    BY <1>17
  <2> QED
    BY <1>12, <1>15, <2>1, QueuedAtOneMore
<1>19. more \in Seq(ids \X Nat)
  <2>1. \A i \in 1..Len(more) : more[i] \in ids \X Nat
    BY <1>12, <1>17, <1>18 DEF AllAt
  <2>2. DOMAIN more = 1..Len(more) /\ Len(more) \in Nat
    BY <1>18
  <2>3. more = [i \in 1..Len(more) |-> more[i]]
    BY <1>18
  <2>4. more \in [1..Len(more) -> ids \X Nat]
    BY <2>1, <2>3
  <2> QED
    BY <2>2, <2>4
<1>20. PICK after : after = Tail(queue) \o more
  OBVIOUS
<1>21. PICK all : all = kept \cup new
  OBVIOUS
<1>22. Walking(ids, N, near, depth, all, after, e)
  <2>1. Walking(ids, N, near, depth, kept \cup new, Tail(queue) \o more, e)
    BY <1>5, <1>6, <1>10, <1>11, <1>13, <1>18, <1>19, WalkLooks
  <2> QED
    BY <1>20, <1>21, <2>1
<1>23. fetch' = [fetch EXCEPT !.kept = all, !.queue = after]
  BY <1>1, <1>7, <1>8, <1>16, <1>20, <1>21 DEF FetchState
<1>24. after \in Seq(Ident \X Nat) /\ all \subseteq Ident
  <2>1. after \in Seq(ids \X Nat) /\ all \subseteq ids
    BY <1>22 DEF Walking
  <2>2. ids \X Nat \subseteq Ident \X Nat
    BY <1>17
  <2> QED
    BY <1>17, <2>1, <2>2, SeqMonotonic
<1>25. fetch' \in FetchState
  BY <1>1, <1>23, <1>24 DEF FetchState
<1>26. /\ fetch'.at = "walk" /\ fetch'.nodes = fetch.nodes /\ fetch'.edges = fetch.edges
       /\ fetch'.ask = fetch.ask /\ fetch'.kept = all /\ fetch'.queue = after
  BY <1>1, <1>23 DEF FetchState
<1>27. FetchInv'
  BY <1>1, <1>25, <1>26 DEF FetchInv
<1>28. WalkFrom(start, fetch.nodes, fetch.edges, depth, all, after)
  BY <1>4, <1>10, <1>22 DEF WalkFrom, ids, N
<1>29. WalkInv'
  BY <1>1, <1>2, <1>3, <1>26, <1>28 DEF WalkInv
<1> QED
  BY <1>27, <1>29 DEF RequestInv

LEMMA KeptKept ==
  ASSUME RequestInv, KeepsWalked
  PROVE  RequestInv'
<1>1. /\ fetch \in FetchState /\ fetch.ask \in Questions
      /\ Graph(fetch.nodes, fetch.edges) /\ NoDoubles(fetch.edges)
  BY DEF RequestInv, FetchInv, KeepsWalked, At
<1>2. PICK nodes : nodes = {n \in fetch.nodes : n.id \in fetch.kept}
  OBVIOUS
<1>3. PICK edges : edges = {e \in fetch.edges : Joins(e) \subseteq fetch.kept}
  OBVIOUS
<1>4. fetch' = [fetch EXCEPT !.at = "answer", !.nodes = nodes, !.edges = edges]
  <2>1. fetch' = [fetch EXCEPT !.at = "answer",
                               !.nodes = {n \in fetch.nodes : n.id \in fetch.kept},
                               !.edges = {e \in fetch.edges : Joins(e) \subseteq fetch.kept}]
    BY ONLY KeepsWalked, Zenon DEF KeepsWalked
  <2> QED
    BY ONLY <1>2, <1>3, <2>1
<1>5. Graph(nodes, edges) /\ NoDoubles(edges)
  <2>1. PICK kept : kept = fetch.kept
    OBVIOUS
  <2>2. PICK old, was : old = fetch.nodes /\ was = fetch.edges
    OBVIOUS
  <2>3. Graph(old, was) /\ NoDoubles(was)
    BY <1>1, <2>2
  <2>4. nodes = {n \in old : n.id \in kept} /\ edges = {e \in was : Joins(e) \subseteq kept}
    BY <1>2, <1>3, <2>1, <2>2
  <2> QED
    BY <2>3, <2>4, PartOfGraph
<1>6. fetch' \in FetchState
  BY <1>1, <1>4, <1>5 DEF FetchState, Graph
<1>7. fetch'.at = "answer" /\ fetch'.nodes = nodes /\ fetch'.edges = edges /\ fetch'.ask = fetch.ask
  BY <1>1, <1>4 DEF FetchState
<1> QED
  BY <1>1, <1>5, <1>6, <1>7 DEF RequestInv, FetchInv, WalkInv

-----------------------------------------------------------------------------
(***************************************************************************)
(* The steps of the view.                                                  *)
(***************************************************************************)
LEMMA LoadedKept ==
  ASSUME ViewInv, NEW nodes, NEW edges, Loads(nodes, edges), Graph(nodes, edges), NoDoubles(edges)
  PROVE  ViewInv'
<1>1. scene' = [nodes |-> nodes, edges |-> edges] /\ hand' = [hand EXCEPT !.dragging = None, !.pinned = {}]
  BY DEF Loads
<1>2. SceneInv'
  BY <1>1 DEF SceneInv, Graph
<1>3. HandInv'
  BY <1>1 DEF ViewInv, HandInv
<1> QED
  BY <1>2, <1>3 DEF ViewInv

LEMMA AnsweredKept ==
  ASSUME RequestInv, ViewInv, Answered
  PROVE  RequestInv' /\ ViewInv'
<1>1. RequestInv'
  <2>1. fetch' = NoFetch
    BY DEF Answered
  <2> QED
    BY <2>1, NoFetchIs, NoGraphIsOne DEF RequestInv, FetchInv, WalkInv, NoFetch
<1>2. ASSUME Loads(fetch.nodes, fetch.edges) PROVE ViewInv'
  <2>1. Graph(fetch.nodes, fetch.edges) /\ NoDoubles(fetch.edges)
    BY DEF RequestInv, FetchInv
  <2> QED
    BY <1>2, <2>1, LoadedKept
<1>3. ASSUME Loads({}, {}) PROVE ViewInv'
  BY <1>3, LoadedKept, NoGraphIsOne
<1>4. ASSUME UNCHANGED <<scene, hand>> PROVE ViewInv'
  BY <1>4 DEF ViewInv, SceneInv, HandInv
<1> QED
  BY <1>1, <1>2, <1>3, <1>4 DEF Answered

LEMMA IdsAreSome ==
  ASSUME NEW nodes, NEW edges, Graph(nodes, edges)
  PROVE  Ids(nodes) \subseteq Ident /\ None \notin Ids(nodes)
<1>1. Ids(nodes) \subseteq Ident
  BY DEF Graph, Node, Ids
<1> QED
  BY <1>1, GraphAssumption DEF Ident

\* Whatever the pointer does it holds one node or none: going down it held none.
LEMMA PointerKept ==
  ASSUME ViewInv, Down \/ Leaves \/ Up \/ \E step \in Steps : Moves(step)
  PROVE  ViewInv' /\ fetch' = fetch /\ UNCHANGED rewriteVars
<1>1. UNCHANGED <<rewriteVars, fetch, scene>>
  BY DEF Down, Leaves, Up, Moves
<1>2. SceneInv'
  BY <1>1 DEF ViewInv, SceneInv
<1>3. HandInv /\ Graph(scene.nodes, scene.edges)
  BY DEF ViewInv, SceneInv
<1>4. CASE Down
  <2>1. hand.dragging = None /\ hand.pinned = {}
    BY <1>3, <1>4 DEF HandInv, Down
  <2>2. ASSUME NEW id \in Ids(scene.nodes),
               hand' = [hand EXCEPT !.down = TRUE, !.moved = FALSE, !.dragging = id, !.pinned = @ \cup {id}]
        PROVE  HandInv'
    <3>1. id \in Ident /\ id # None
      BY <1>3, IdsAreSome
    <3>2. hand' = [hand EXCEPT !.down = TRUE, !.moved = FALSE, !.dragging = id, !.pinned = {id}]
      BY <2>1, <2>2
    <3>3. hand' \in [down : BOOLEAN, dragging : Ident \cup {None}, panning : BOOLEAN,
                     pinned : SUBSET Ident, moved : BOOLEAN]
      BY <1>3, <3>1, <3>2 DEF HandInv
    <3>4. hand'.down = TRUE /\ hand'.dragging = id /\ hand'.pinned = {id}
      BY <1>3, <3>2 DEF HandInv
    <3> QED
      BY <1>1, <3>1, <3>3, <3>4 DEF HandInv
  <2>3. ASSUME hand' = [hand EXCEPT !.down = TRUE, !.moved = FALSE, !.panning = TRUE]
        PROVE  HandInv'
    <3>1. hand' \in [down : BOOLEAN, dragging : Ident \cup {None}, panning : BOOLEAN,
                     pinned : SUBSET Ident, moved : BOOLEAN]
      BY <1>3, <2>3 DEF HandInv
    <3>2. hand'.down = TRUE /\ hand'.dragging = None /\ hand'.pinned = {}
      BY <1>3, <2>1, <2>3 DEF HandInv
    <3> QED
      BY <1>1, <3>1, <3>2 DEF HandInv
  <2> QED
    BY <1>1, <1>2, <1>4, <2>2, <2>3 DEF Down, ViewInv
<1>5. ASSUME NEW step \in Steps, Moves(step) PROVE HandInv'
  <2>1. PICK moved \in BOOLEAN :
          moved = (hand.moved \/ (step > 3 /\ (hand.dragging # None \/ hand.panning)))
    OBVIOUS
  <2>2. hand' = [hand EXCEPT !.moved = moved]
    BY <1>3, <1>5, <2>1 DEF Moves, HandInv
  <2>3. hand' \in [down : BOOLEAN, dragging : Ident \cup {None}, panning : BOOLEAN,
                   pinned : SUBSET Ident, moved : BOOLEAN]
    BY <1>3, <2>2 DEF HandInv
  <2>4. hand'.down = hand.down /\ hand'.dragging = hand.dragging /\ hand'.pinned = hand.pinned
    BY <1>3, <2>2 DEF HandInv
  <2> QED
    BY <1>1, <1>3, <2>3, <2>4 DEF HandInv
<1>6. CASE Leaves \/ Up
  <2>1. hand.pinned \ {hand.dragging} = {}
    BY <1>3 DEF HandInv
  <2>2. PICK gone : gone = [hand EXCEPT !.dragging = None, !.pinned = {}, !.panning = FALSE]
    OBVIOUS
  <2>3. LetGo = gone
    BY <1>3, <2>1, <2>2 DEF LetGo, HandInv
  <2>4. /\ gone \in [down : BOOLEAN, dragging : Ident \cup {None}, panning : BOOLEAN,
                     pinned : SUBSET Ident, moved : BOOLEAN]
        /\ gone.dragging = None /\ gone.pinned = {}
    BY <1>3, <2>2 DEF HandInv
  <2>5. hand' = gone \/ hand' = [gone EXCEPT !.down = FALSE]
    BY <1>6, <2>3 DEF Leaves, Up
  <2>6. /\ hand' \in [down : BOOLEAN, dragging : Ident \cup {None}, panning : BOOLEAN,
                      pinned : SUBSET Ident, moved : BOOLEAN]
        /\ hand'.dragging = None /\ hand'.pinned = {}
    BY <2>4, <2>5
  <2> QED
    BY <1>1, <1>2, <2>6 DEF HandInv, ViewInv
<1> QED
  BY <1>1, <1>2, <1>4, <1>5, <1>6 DEF ViewInv

-----------------------------------------------------------------------------
(***************************************************************************)
(* The invariant, and what follows from it.                                *)
(***************************************************************************)
LEMMA Starts ==
  ASSUME Init
  PROVE  IInv
<1>1. TablesInv
  BY TablesStart DEF Init
<1>2. PICK notes : notes = Notes
  OBVIOUS
<1>3. PICK links : links = Drawable(notes)
  OBVIOUS
<1>4. Graph(notes, {}) /\ OfNotes(notes)
  BY <1>1, <1>2, NotesDrawn DEF TablesInv
<1>5. PICK nodes : nodes = notes \cup Phantoms(links)
  OBVIOUS
<1>6. PICK edges : edges = Edges(links)
  OBVIOUS
<1>7. Graph(nodes, edges) /\ OfLinks(edges)
  BY <1>1, <1>3, <1>4, <1>5, <1>6, LinksDrawn DEF TablesInv
<1>8. scene = [nodes |-> nodes, edges |-> edges]
  BY <1>2, <1>3, <1>5, <1>6 DEF Init
<1>9. SceneInv
  BY <1>7, <1>8, LinksDoNotDouble DEF SceneInv, Graph
<1>10. HandInv
  BY DEF Init, HandInv, NoHand
<1>11. RequestInv
  BY NoFetchIs, NoGraphIsOne DEF Init, RequestInv, FetchInv, WalkInv, NoFetch
<1> QED
  BY <1>1, <1>9, <1>10, <1>11 DEF IInv, ViewInv

LEMMA StepsKeep ==
  ASSUME IInv, [Next]_vars
  PROVE  IInv'
<1> USE DEF IInv
<1>1. CASE RewriteNext /\ UNCHANGED <<fetch, scene, handVars, counts>>
  <2>1. TablesInv'
    BY <1>1, TablesKept
  <2>2. RequestInv' /\ ViewInv'
    BY <1>1 DEF RequestInv, FetchInv, WalkInv, ViewInv, SceneInv, HandInv, handVars
  <2> QED
    BY <2>1, <2>2
<1>2. CASE /\ (\E ask \in Questions : Asks(ask)) \/ ReadsNotes \/ ReadsLinks \/ ReadsSuggested
              \/ Scopes \/ Walks \/ KeepsWalked
  <2>1. RequestInv'
    BY <1>2, AskedKept, NotesReadKept, LinksReadKept, SuggestedReadKept, ScopedKept, WalkedKept, KeptKept
  <2>2. UNCHANGED <<rewriteVars, scene, handVars>>
    BY <1>2 DEF Asks, ReadsNotes, ReadsLinks, ReadsSuggested, Scopes, Walks, KeepsWalked
  <2>3. TablesInv' /\ ViewInv'
    BY <2>2 DEF rewriteVars, handVars, TablesInv, FilesFit, RowsFit, JobFits, ViewInv, SceneInv, HandInv
  <2> QED
    BY <2>1, <2>3
<1>3. CASE Answered
  <2>1. RequestInv' /\ ViewInv'
    BY <1>3, AnsweredKept
  <2>2. UNCHANGED rewriteVars
    BY <1>3 DEF Answered
  <2>3. TablesInv'
    BY <2>2 DEF rewriteVars, TablesInv, FilesFit, RowsFit, JobFits
  <2> QED
    BY <2>1, <2>3
<1>4. CASE Down \/ Leaves \/ Up \/ \E step \in Steps : Moves(step)
  <2>1. ViewInv' /\ fetch' = fetch /\ UNCHANGED rewriteVars
    BY <1>4, PointerKept
  <2>2. TablesInv' /\ RequestInv'
    BY <2>1 DEF rewriteVars, TablesInv, FilesFit, RowsFit, JobFits, RequestInv, FetchInv, WalkInv
  <2> QED
    BY <2>1, <2>2
<1>5. CASE UNCHANGED vars
  BY <1>5 DEF vars, rewriteVars, handVars, TablesInv, FilesFit, RowsFit, JobFits,
              RequestInv, FetchInv, WalkInv, ViewInv, SceneInv, HandInv
<1> QED
  BY <1>1, <1>2, <1>3, <1>4, <1>5 DEF Next

\* The index, the request and the view keep fitting one another.
THEOREM Invariance == Spec => []IInv
<1>1. Init => IInv
  BY Starts
<1>2. IInv /\ [Next]_vars => IInv'
  BY StepsKeep
<1> QED
  BY <1>1, <1>2, PTL DEF Spec

\* What is drawn, or about to be, is a graph whatever a move did between the reads, and
\* the pointer holds a node of what is drawn or none (routes/graph.rs, graph.rs).
THEOREM TypeCorrect == Spec => []TypeOK
<1>1. IInv => TypeOK
  <2> SUFFICES ASSUME IInv PROVE TypeOK
    OBVIOUS
  <2>1. WellFormed(fetch.nodes, fetch.edges) /\ WellFormed(scene.nodes, scene.edges)
    BY GraphIsWellFormed DEF IInv, RequestInv, FetchInv, ViewInv, SceneInv
  <2> QED
    BY <2>1 DEF IInv, TablesInv, FilesFit, RowsFit, ViewInv, HandInv, TypeOK
<1> QED
  BY <1>1, Invariance, PTL

\* No suggestion doubles a link that is drawn, or another suggestion, in either
\* direction (routes/graph.rs:196-231).
THEOREM SuggestionsOnlyAdd == Spec => []SuggestionsAddOnly
<1>1. IInv => SuggestionsAddOnly
  BY DEF IInv, ViewInv, SceneInv, NoDoubles, SuggestionsAddOnly
<1> QED
  BY <1>1, Invariance, PTL

\* When the queue is empty, what restrict_to_neighbourhood kept is what is within the
\* depth that was asked for, by paths in either direction (routes/graph.rs:250-286).
THEOREM WalkIsTheNeighbourhood == Spec => []LocalIsNear
<1>1. IInv => LocalIsNear
  <2> SUFFICES ASSUME IInv, fetch.at = "walk", fetch.queue = << >>
               PROVE  LET focus == CHOOSE n \in fetch.nodes : n.path = fetch.ask.focus
                      IN  fetch.kept = {id \in Ids(fetch.nodes) :
                                          \E n \in 0..fetch.ask.depth : Hops(focus.id, id, n)}
    BY DEF LocalIsNear, At
  <2>1. /\ fetch.ask \in Questions /\ fetch.ask.local /\ Graph(fetch.nodes, fetch.edges)
    BY DEF IInv, RequestInv, FetchInv, WalkInv
  <2>2. PICK depth \in Nat : depth = fetch.ask.depth
    BY <2>1, AskIs
  <2>3. PICK start \in fetch.nodes :
          /\ start.path = fetch.ask.focus
          /\ WalkFrom(start, fetch.nodes, fetch.edges, depth, fetch.kept, << >>)
    BY <2>2 DEF IInv, RequestInv, WalkInv
  <2>4. PICK focus : focus = CHOOSE n \in fetch.nodes : n.path = fetch.ask.focus
    OBVIOUS
  <2>5. focus = start
    <3>1. focus \in fetch.nodes /\ focus.path = fetch.ask.focus
      BY <2>3, <2>4
    <3>2. start.path # None
      BY <2>1, <2>3, AskIs, GraphAssumption
    <3> QED
      BY <2>1, <2>3, <3>1, <3>2 DEF Graph
  <2>6. PICK near : near = NearTo(start, fetch.nodes, fetch.edges)
    OBVIOUS
  <2>7. PICK ids : ids = Ids(fetch.nodes)
    OBVIOUS
  <2>8. PICK N : N = NextTo(fetch.nodes, fetch.edges)
    OBVIOUS
  <2>9. Layers(near, ids, N, start.id)
    BY <2>1, <2>6, <2>7, <2>8, NearIsInLayers
  <2>10. PICK d : Walking(ids, N, near, depth, fetch.kept, << >>, d)
    BY <2>3, <2>6, <2>7, <2>8 DEF WalkFrom
  <2>11. fetch.kept = near[depth]
    BY <2>9, <2>10, WalkEnds
  <2>12. near[depth] = Within(ids, N, start.id, depth)
    BY <2>6, <2>7, <2>8 DEF NearTo
  <2>13. \A id \in ids, n \in 0..depth : Way(ids, N, start.id, id, n) <=> Hops(start.id, id, n)
    <3> SUFFICES ASSUME NEW id \in ids, NEW n \in 0..depth
                 PROVE  Way(ids, N, start.id, id, n) <=> Hops(start.id, id, n)
      OBVIOUS
    <3>1. \A x \in ids : N[x] = Neighbours(x)
      BY <2>7, <2>8 DEF NextTo, Neighbours
    <3>2. \A path \in [1..(n + 1) -> ids], k \in 1..n : N[path[k]] = Neighbours(path[k])
      BY <3>1
    <3>3. Paths(n + 1) = [1..(n + 1) -> ids]
      BY <2>7 DEF Paths
    <3> QED
      BY <3>2, <3>3 DEF Way, Hops
  <2>14. Within(ids, N, start.id, depth) = {id \in ids : \E n \in 0..depth : Hops(start.id, id, n)}
    BY <2>13 DEF Within
  <2> QED
    BY <2>2, <2>4, <2>5, <2>7, <2>11, <2>12, <2>14
<1> QED
  BY <1>1, Invariance, PTL

-----------------------------------------------------------------------------
(***************************************************************************)
(* Links follow the notes they lead to, however often notes and folders    *)
(* are moved, if no two notes have one stem and no folder is moved while a *)
(* note of it has a link by the whole path to one that is taken before it. *)
(***************************************************************************)
Unambiguous ==
  /\ ~Namesakes
  /\ \A v \in Vaults : /\ Apart(v)
                       /\ \A p \in DOMAIN v : \A k \in DOMAIN v[p].doc : v[p].doc[k].more # "title"

\* A note of the folder has no link by the whole path to one whose row is renamed first.
LooksAhead(folder) ==
  \A p, q \in NotesUnder(folder) :
    p # q /\ Rank[p] <= Rank[q] => \A k \in DOMAIN rows[q].doc : rows[q].doc[k].key # p
FoldersLookAhead == \A f, g \in FolderPath : MovesFolder(f, g) => LooksAhead(f)

\* A key leads to the note of that name; when the note has just been moved, and the link
\* not been rewritten yet, it is of the old name.
Leads(notes, key, id)          == \E p \in DOMAIN notes : key \in KeysFor(p) /\ notes[p].id = id
Owed(notes, key, id, from, to) == key \in KeysFor(from) /\ notes[to].id = id

\* A document is spelt as it was at first, but for its keys.
SpeltAsFirst(was, doc) ==
  /\ DOMAIN was.doc = DOMAIN doc
  /\ \A k \in DOMAIN doc : /\ was.doc[k] \in Link /\ was.doc[k].more # "title"
                           /\ doc[k].label = was.doc[k].label /\ doc[k].more = was.doc[k].more
                           /\ ~Full(was.doc[k]) => ~Full(doc[k])

\* Its links lead where they led, or will once they are rewritten; and the index says so
\* of those that do.
Following(notes, was, doc) ==
  \A k \in DOMAIN doc : was.to[k] # Nothing => Leads(notes, doc[k].key, was.to[k])
Followed(notes, was, doc, from, to) ==
  \A k \in DOMAIN doc : was.to[k] # Nothing =>
    Leads(notes, doc[k].key, was.to[k]) \/ Owed(notes, doc[k].key, was.to[k], from, to)
Indexed(notes, was, row) ==
  /\ DOMAIN row.to = DOMAIN row.doc
  /\ \A k \in DOMAIN row.doc :
       was.to[k] # Nothing /\ Leads(notes, row.doc[k].key, was.to[k]) => row.to[k] = was.to[k]

\* The notes whose files have moved and whose rows have not; all others are in place.
SameNote(file, row) == file.id = row.id /\ file.doc = row.doc
InPlace(r, todo)    == {p \in DOMAIN r : \A m \in todo : m[1] # p}
Waiting(f, r, todo) ==
  /\ todo \subseteq (DOMAIN r) \X (NotePath \ DOMAIN r)
  /\ \A m, n \in todo : m[1] = n[1] \/ m[2] = n[2] => m = n
  /\ DOMAIN f = InPlace(r, todo) \cup {m[2] : m \in todo}
  /\ \A m \in todo : SameNote(f[m[2]], r[m[1]])
  /\ \A m, n \in todo : m # n =>
       /\ Stem(m[2]) = Stem(m[1])
       /\ Rank[m[1]] <= Rank[n[1]] => \A k \in DOMAIN r[n[1]].doc : r[n[1]].doc[k].key # m[1]

\* A note that nothing is being done about.
Rests(r, was, p) == /\ SpeltAsFirst(was, r[p].doc) /\ Following(r, was, r[p].doc)
                    /\ Indexed(r, was, r[p])
AtRest(f, r, j, fst) ==
  /\ Waiting(f, r, j.todo)
  /\ \A p \in DOMAIN r : Rests(r, fst[r[p].id], p)
  /\ \A p \in InPlace(r, j.todo) : SameNote(f[p], r[p])

\* Until the sources are found any link may be owed, and then a source's.  The note that
\* has just been rewritten is not as it is indexed.
Due(j, p) == j.at \in {"reresolve", "sources"} \/ p \in j.sources
Works(f, r, j, was, p) ==
  /\ SpeltAsFirst(was, f[p].doc) /\ f[p].id = r[p].id
  /\ Followed(r, was, f[p].doc, j.from, j.to)
  /\ ~Due(j, p) => Following(r, was, f[p].doc)
  /\ p # j.source \/ j.at # "index" => f[p].doc = r[p].doc
  /\ p = j.source /\ j.at = "outgoing" => DOMAIN r[p].to = DOMAIN r[p].doc
  /\ p # j.source \/ j.at \notin {"index", "outgoing"} => Indexed(r, was, r[p])
AtWork(f, r, j, fst) ==
  /\ Waiting(f, r, j.todo) /\ j.to \in DOMAIN r
  /\ \A p \in DOMAIN r \ {j.to} : Stem(p) # Stem(j.from)
  /\ j.at \notin {"reresolve", "sources"} => j.sources \subseteq DOMAIN r
  /\ j.at \in {"index", "outgoing", "keys"} => j.source \in InPlace(r, j.todo) \ j.sources
  /\ \A p \in DOMAIN r : IF p \in InPlace(r, j.todo) THEN Works(f, r, j, fst[r[p].id], p)
                                                    ELSE Rests(r, fst[r[p].id], p)

FollowInv ==
  /\ Apart(files) /\ Apart(rows)
  /\ job.at = "off" => job.todo = {}
  /\ IF job.at \in {"off", "row"} THEN AtRest(files, rows, job, first)
                                  ELSE AtWork(files, rows, job, first)

LEMMA StemOfKey ==
  ASSUME NEW p \in NotePath, NEW key \in KeysFor(p)
  PROVE  Stem(key) = Stem(p)
<1>1. CASE key = p
  BY <1>1
<1>2. CASE key = <<Stem(p)>>
  BY <1>2 DEF Stem
<1> QED
  BY <1>1, <1>2 DEF KeysFor, Bare

\* When no two notes have one stem, what a key leads to is what it resolves to.
LEMMA LeadsResolves ==
  ASSUME NEW notes, DOMAIN notes \subseteq NotePath, Apart(notes), NEW key, NEW id,
         Leads(notes, key, id)
  PROVE  Resolve(notes, key) = id
<1>1. PICK p \in DOMAIN notes : key \in KeysFor(p) /\ notes[p].id = id
  BY DEF Leads
<1>2. \A q \in DOMAIN notes : q = key \/ Bare(q) = key => q = p
  <2> SUFFICES ASSUME NEW q \in DOMAIN notes, q = key \/ Bare(q) = key PROVE q = p
    OBVIOUS
  <2>1. key \in KeysFor(q)
    BY DEF KeysFor
  <2>2. Stem(p) = Stem(q)
    BY <1>1, <2>1, StemOfKey
  <2> QED
    BY <2>2 DEF Apart
<1>3. CASE key \in DOMAIN notes
  BY <1>1, <1>2, <1>3 DEF Resolve
<1>4. CASE key \notin DOMAIN notes
  <2>1. PICK named : named = {q \in DOMAIN notes : Bare(q) = key}
    OBVIOUS
  <2>2. Bare(p) = key
    BY <1>1, <1>4 DEF KeysFor
  <2>3. named = {p}
    BY <1>2, <2>1, <2>2
  <2>4. Rank[p] \in Int
    BY RewriteAssumption
  <2>5. (CHOOSE q \in named : \A o \in named : Rank[q] <= Rank[o]) = p
    BY <2>3, <2>4
  <2> QED
    BY <1>1, <1>4, <2>1, <2>3, <2>5 DEF Resolve
<1> QED
  BY <1>3, <1>4

LEMMA ResolvesLeads ==
  ASSUME NEW notes, DOMAIN notes \subseteq NotePath, Apart(notes), NEW key,
         Resolve(notes, key) # Nothing
  PROVE  Leads(notes, key, Resolve(notes, key))
<1>1. \E p \in DOMAIN notes : key \in KeysFor(p)
  BY DEF Resolve, KeysFor
<1>2. PICK p \in DOMAIN notes : key \in KeysFor(p)
  BY <1>1
<1>3. Leads(notes, key, notes[p].id)
  BY <1>2 DEF Leads
<1> QED
  BY <1>3, LeadsResolves

\* Only paths and ids matter to where a key leads.
SameIds(f, g) == DOMAIN g = DOMAIN f /\ \A p \in DOMAIN f : g[p].id = f[p].id
LEMMA SameLeads ==
  ASSUME NEW f, NEW g, SameIds(f, g), NEW was
  PROVE  /\ \A doc : Following(f, was, doc) => Following(g, was, doc)
         /\ \A doc, from : \A to \in DOMAIN f :
              Followed(f, was, doc, from, to) => Followed(g, was, doc, from, to)
         /\ \A row : Indexed(f, was, row) => Indexed(g, was, row)
<1>1. \A key, id : Leads(f, key, id) <=> Leads(g, key, id)
  BY DEF SameIds, Leads
<1>2. \A key, id, from : \A to \in DOMAIN f : Owed(f, key, id, from, to) => Owed(g, key, id, from, to)
  BY DEF SameIds, Owed
<1> QED
  BY <1>1, <1>2 DEF Following, Followed, Indexed

\* Looking links up again.
LEMMA RelinkedIs ==
  ASSUME RowsFit(rows), NEW sources, NEW keys
  PROVE  /\ SameIds(rows, Relinked(sources, keys))
         /\ \A p \in DOMAIN rows : /\ Relinked(sources, keys)[p].doc = rows[p].doc
                                   /\ DOMAIN Relinked(sources, keys)[p].to = DOMAIN rows[p].to
<1>1. ASSUME NEW p \in DOMAIN rows
      PROVE  LET row == Relinked(sources, keys)[p]
             IN  row.id = rows[p].id /\ row.doc = rows[p].doc /\ DOMAIN row.to = DOMAIN rows[p].to
  <2>1. RowFits(rows[p])
    BY DEF RowsFit
  <2>2. PICK to : to = [k \in DOMAIN rows[p].to |-> IF rows[p].doc[k].key \in keys
                          THEN Resolve(rows, rows[p].doc[k].key) ELSE rows[p].to[k]]
    OBVIOUS
  <2>3. DOMAIN to = DOMAIN rows[p].to
    BY <2>2
  <2>4. Relinked(sources, keys)[p] \in {rows[p], [rows[p] EXCEPT !.to = to]}
    BY <2>1, <2>2 DEF Relinked, RowFits
  <2> QED
    BY <2>1, <2>3, <2>4 DEF RowFits
<1>2. DOMAIN Relinked(sources, keys) = DOMAIN rows
  BY DEF Relinked
<1> QED
  BY <1>1, <1>2 DEF SameIds

LEMMA RelinkedIndexed ==
  ASSUME RowsFit(rows), Apart(rows), NEW sources, NEW keys, NEW p \in DOMAIN rows, NEW was,
         DOMAIN rows[p].to = DOMAIN rows[p].doc,
         \/ Indexed(rows, was, rows[p])
         \/ p \in sources /\ \A k \in DOMAIN rows[p].doc : rows[p].doc[k].key \in keys
  PROVE  Indexed(rows, was, Relinked(sources, keys)[p])
<1>1. RowFits(rows[p]) /\ DOMAIN rows \subseteq NotePath
  BY DEF RowsFit
<1>2. PICK row : row = Relinked(sources, keys)[p]
  OBVIOUS
<1>3. row.doc = rows[p].doc /\ DOMAIN row.to = DOMAIN rows[p].to
  BY <1>2, RelinkedIs
<1>4. CASE p \notin sources
  BY <1>2, <1>4 DEF Relinked
<1>5. CASE p \in sources
  <2>1. PICK to : to = [k \in DOMAIN rows[p].to |-> IF rows[p].doc[k].key \in keys
                          THEN Resolve(rows, rows[p].doc[k].key) ELSE rows[p].to[k]]
    OBVIOUS
  <2>2. row.to = to
    BY <1>1, <1>2, <1>5, <2>1 DEF Relinked, RowFits
  <2>3. ASSUME NEW k \in DOMAIN row.doc, was.to[k] # Nothing, Leads(rows, row.doc[k].key, was.to[k])
        PROVE  row.to[k] = was.to[k]
    <3>1. Resolve(rows, row.doc[k].key) = was.to[k]
      BY <1>1, <2>3, LeadsResolves
    <3>2. CASE rows[p].doc[k].key \in keys
      BY <1>3, <2>1, <2>2, <3>1, <3>2
    <3>3. CASE rows[p].doc[k].key \notin keys
      BY <1>3, <1>5, <2>1, <2>2, <2>3, <3>3 DEF Indexed
    <3> QED
      BY <3>2, <3>3
  <2> QED
    BY <1>2, <1>3, <2>3 DEF Indexed
<1> QED
  BY <1>2, <1>4, <1>5

\* A note's file, or row, moved.
HasMoved(g, f, from, to) ==
  /\ DOMAIN g = (DOMAIN f \ {from}) \cup {to} /\ g[to] = f[from]
  /\ \A q \in DOMAIN f \ {from, to} : g[q] = f[q]
LEMMA MovedTable ==
  ASSUME NEW f, DOMAIN f \subseteq NotePath, NEW from \in DOMAIN f, NEW to \in NotePath
  PROVE  HasMoved(Relocated(f, from, to), f, from, to)
<1>1. from \in Seq(STRING) /\ to \in Seq(STRING)
  BY RewriteAssumption
<1>2. PICK moved : moved = {p \in DOMAIN f : Under(p, from)}
  OBVIOUS
<1>3. moved = {from}
  BY <1>2, NoteIsApart DEF Under
<1>4. Rebase(from, from, to) = to /\ Rebase(to, to, from) = from
  BY <1>1, RebasedItself
<1>5. PICK new : new = {Rebase(p, from, to) : p \in moved}
  OBVIOUS
<1>6. new = {to}
  BY <1>3, <1>4, <1>5
<1>7. Relocated(f, from, to) =
        [q \in (DOMAIN f \ moved) \cup new |-> IF q \in new THEN f[Rebase(q, to, from)] ELSE f[q]]
  BY <1>2, <1>5 DEF Relocated
<1> QED
  BY <1>3, <1>4, <1>6, <1>7 DEF HasMoved

\* What is beneath a folder is beneath it where it goes, under the same stem.
LEMMA RebasedBeneath ==
  ASSUME NEW S, NEW p \in Seq(S), NEW from \in Seq(S), NEW to \in Seq(S), IsWithin(p, from)
  PROVE  Under(Rebase(p, from, to), to) /\ Stem(Rebase(p, from, to)) = Stem(p)
<1>1. PICK rest : rest = SubSeq(p, Len(from) + 1, Len(p))
  OBVIOUS
<1>2. Len(from) \in Nat /\ Len(p) \in Nat /\ Len(to) \in Nat /\ Len(from) < Len(p)
  <2>1. Len(from) <= Len(p) /\ SubSeq(from, 1, Len(from)) = SubSeq(p, 1, Len(from)) /\ from # p
    BY DEF IsWithin, IsStrictPrefix, IsPrefix
  <2>2. SubSeq(from, 1, Len(from)) = from /\ SubSeq(p, 1, Len(p)) = p
    BY SubSeqFull
  <2>3. Len(from) # Len(p)
    BY <2>1, <2>2
  <2> QED
    BY <2>1, <2>3, LenProperties
<1>3. \A i \in (Len(from) + 1)..Len(p) : p[i] \in S
  BY <1>2, ElementOfSeq
<1>4. /\ rest \in Seq(S) /\ Len(rest) = Len(p) - Len(from)
      /\ \A i \in 1..(Len(p) - Len(from)) : rest[i] = p[Len(from) + i]
  BY <1>1, <1>2, <1>3, SubSeqProperties
<1>5. PICK new : new = to \o rest
  OBVIOUS
<1>6. /\ new \in Seq(S) /\ Len(new) = Len(to) + Len(rest)
      /\ \A i \in 1..(Len(to) + Len(rest)) : new[i] = IF i <= Len(to) THEN to[i] ELSE rest[i - Len(to)]
  BY <1>4, <1>5, ConcatProperties
<1>7. Rebase(p, from, to) = new
  BY <1>1, <1>5 DEF Rebase
<1>8. Stem(new) = Stem(p)
  <2>1. PICK l, m, n \in Nat : l = Len(from) /\ m = Len(p) /\ n = m - l /\ n > 0
    BY <1>2
  <2>2. Len(rest) = n /\ n \in 1..n /\ l + n = m
    BY <1>4, <2>1
  <2>3. rest[n] = p[m]
    BY <1>4, <2>1, <2>2
  <2>4. PICK i : i = Len(to) + n
    OBVIOUS
  <2>5. ~(i <= Len(to)) /\ i - Len(to) = n /\ i \in 1..(Len(to) + n)
    BY <1>2, <2>1, <2>4
  <2>6. i = Len(new) /\ new[i] = rest[n]
    BY <1>6, <2>2, <2>4, <2>5
  <2> QED
    BY <2>1, <2>3, <2>6 DEF Stem
<1>9. Under(new, to)
  <2>1. Len(to) <= Len(new) /\ Len(to) # Len(new)
    BY <1>2, <1>4, <1>6
  <2>2. SubSeq(new, 1, Len(to)) = to
    <3>1. CASE Len(to) = 0
      <4>1. to = << >> /\ SubSeq(new, 1, 0) = << >>
        BY <3>1, EmptySeq, SubSeqEmpty
      <4> QED
        BY <3>1, <4>1
    <3>2. CASE Len(to) # 0
      <4>1. 1 \in 1..Len(to) /\ Len(to) \in 1..Len(to)
        BY <1>2, <3>2
      <4>2. SubSeq(new, 1, Len(to)) = SubSeq(to, 1, Len(to))
        BY <1>4, <1>5, <4>1, SubSeqOfConcat1
      <4> QED
        BY <4>2, SubSeqFull
    <3> QED
      BY <3>1, <3>2
  <2>3. SubSeq(to, 1, Len(to)) = to
    BY SubSeqFull
  <2> QED
    BY <2>1, <2>2, <2>3 DEF Under, IsWithin, IsStrictPrefix, IsPrefix
<1> QED
  BY <1>7, <1>8, <1>9

\* A folder's notes moved, to where there was none.
FolderHasMoved(g, f, from, to) ==
  /\ DOMAIN g = {p \in DOMAIN f : ~Under(p, from)}
                \cup {Rebase(p, from, to) : p \in {q \in DOMAIN f : Under(q, from)}}
  /\ \A p \in DOMAIN f : IF Under(p, from) THEN g[Rebase(p, from, to)] = f[p] ELSE g[p] = f[p]
  /\ \A p \in DOMAIN f : Under(p, from) => /\ Rebase(p, from, to) \in NotePath \ DOMAIN f
                                           /\ Stem(Rebase(p, from, to)) = Stem(p)
  /\ \A p, q \in DOMAIN f : Under(p, from) /\ Under(q, from)
                            /\ Rebase(p, from, to) = Rebase(q, from, to) => p = q
LEMMA MovedNotes ==
  ASSUME NEW f, DOMAIN f \subseteq NotePath, NEW from \in FolderPath, NEW to \in FolderPath,
         \A p \in DOMAIN f : ~Under(p, to)
  PROVE  FolderHasMoved(Relocated(f, from, to), f, from, to)
<1>1. /\ from \in Seq(STRING) /\ to \in Seq(STRING) /\ DOMAIN f \subseteq Seq(STRING)
      /\ from \notin DOMAIN f
  BY RewriteAssumption
<1>2. PICK moved : moved = {p \in DOMAIN f : Under(p, from)}
  OBVIOUS
<1>3. ASSUME NEW p \in moved
      PROVE  /\ Rebase(p, from, to) \in NotePath \ DOMAIN f
             /\ Stem(Rebase(p, from, to)) = Stem(p) /\ Rebase(Rebase(p, from, to), to, from) = p
  <2>1. p \in Seq(STRING) /\ p \in NotePath /\ Under(p, from) /\ IsWithin(p, from)
    BY <1>1, <1>2 DEF Under
  <2>2. Under(Rebase(p, from, to), to) /\ Stem(Rebase(p, from, to)) = Stem(p)
    BY <1>1, <2>1, RebasedBeneath
  <2>3. Rebase(Rebase(p, from, to), to, from) = p
    BY <1>1, <2>1, RebasedBack
  <2>4. Rebase(p, from, to) \in NotePath
    BY <2>1, RewriteAssumption
  <2> QED
    BY <2>2, <2>3, <2>4
<1>4. PICK new : new = {Rebase(p, from, to) : p \in moved}
  OBVIOUS
<1>5. PICK g : g = Relocated(f, from, to)
  OBVIOUS
<1>6. g = [q \in (DOMAIN f \ moved) \cup new |-> IF q \in new THEN f[Rebase(q, to, from)] ELSE f[q]]
  BY <1>2, <1>4, <1>5 DEF Relocated
<1>7. DOMAIN g = (DOMAIN f \ moved) \cup new
  BY <1>6
<1>8. \A p \in moved : g[Rebase(p, from, to)] = f[p]
  BY <1>3, <1>4, <1>6
<1>9. \A p \in DOMAIN f \ moved : g[p] = f[p]
  <2>1. new \cap DOMAIN f = {}
    BY <1>3, <1>4
  <2> QED
    BY <1>6, <2>1
<1>10. DOMAIN f \ moved = {p \in DOMAIN f : ~Under(p, from)}
  BY <1>2
<1>11. DOMAIN g = {p \in DOMAIN f : ~Under(p, from)}
                  \cup {Rebase(p, from, to) : p \in {q \in DOMAIN f : Under(q, from)}}
  BY <1>2, <1>4, <1>7, <1>10
<1>12. \A p, q \in moved : Rebase(p, from, to) = Rebase(q, from, to) => p = q
  BY <1>3
<1>13. \A p \in DOMAIN f : p \in moved <=> Under(p, from)
  BY <1>2
<1>14. FolderHasMoved(g, f, from, to)
  BY ONLY <1>3, <1>8, <1>9, <1>11, <1>12, <1>13 DEF FolderHasMoved
<1> QED
  BY <1>5, <1>14

\* A wait goes on while paths and ids stay, and the documents of those that wait.
LEMMA StillWaiting ==
  ASSUME NEW r, NEW q, SameIds(r, q), NEW f, NEW g, NEW todo, Waiting(f, r, todo),
         \A p \in DOMAIN r \ InPlace(r, todo) : q[p].doc = r[p].doc,
         DOMAIN g = DOMAIN f, \A p \in DOMAIN f \ DOMAIN r : g[p] = f[p]
  PROVE  Waiting(g, q, todo) /\ InPlace(q, todo) = InPlace(r, todo)
<1>1. DOMAIN q = DOMAIN r /\ \A p \in DOMAIN r : q[p].id = r[p].id
  BY DEF SameIds
<1>2. InPlace(q, todo) = InPlace(r, todo)
  BY <1>1 DEF InPlace
<1>3. todo \subseteq (DOMAIN r) \X (NotePath \ DOMAIN r)
  BY DEF Waiting
<1>4. \A m \in todo : m[1] \in DOMAIN r /\ m[2] \notin DOMAIN r /\ m[2] \in DOMAIN f
                      /\ m[1] \notin InPlace(r, todo)
  BY <1>3 DEF Waiting, InPlace
<1>5. \A m \in todo : q[m[1]].id = r[m[1]].id /\ q[m[1]].doc = r[m[1]].doc /\ g[m[2]] = f[m[2]]
  BY <1>1, <1>4
<1>6. Waiting(g, q, todo)
  BY <1>1, <1>2, <1>5 DEF Waiting, SameNote
<1> QED
  BY <1>2, <1>6

\* A link rewritten leads to what it led to, or owed.
LEMMA RespeltLeads ==
  ASSUME NEW notes, DOMAIN notes \subseteq NotePath, NEW from \in NotePath, NEW to \in DOMAIN notes,
         \A p \in DOMAIN notes \ {to} : Stem(p) # Stem(from),
         NEW link \in Link, NEW id,
         Leads(notes, link.key, id) \/ Owed(notes, link.key, id, from, to)
  PROVE  Leads(notes, Respelt(link, from, to).key, id)
<1>1. CASE link.key \notin KeysFor(from)
  BY <1>1 DEF Respelt, Owed
<1>2. CASE link.key \in KeysFor(from)
  <2>1. notes[to].id = id
    <3>1. CASE Leads(notes, link.key, id)
      <4>1. PICK p \in DOMAIN notes : link.key \in KeysFor(p) /\ notes[p].id = id
        BY <3>1 DEF Leads
      <4>2. Stem(p) = Stem(from)
        BY <1>2, <4>1, StemOfKey
      <4> QED
        BY <4>1, <4>2
    <3>2. CASE Owed(notes, link.key, id, from, to)
      BY <3>2 DEF Owed
    <3> QED
      BY <3>1, <3>2
  <2>2. PICK key : key = IF Full(link) THEN to ELSE Bare(to)
    OBVIOUS
  <2>3. key \in KeysFor(to)
    BY <2>2 DEF KeysFor
  <2>4. Respelt(link, from, to).key = key
    BY <1>2, <2>2 DEF Respelt, Link
  <2>5. Leads(notes, key, id)
    BY <2>1, <2>3 DEF Leads
  <2> QED
    BY <2>4, <2>5
<1> QED
  BY <1>1, <1>2

\* A document rewritten is spelt as it was, but for its keys, and owes nothing.
LEMMA RewrittenFollows ==
  ASSUME NEW notes, DOMAIN notes \subseteq NotePath, NEW from \in NotePath, NEW to \in DOMAIN notes,
         \A p \in DOMAIN notes \ {to} : Stem(p) # Stem(from),
         NEW doc \in Seq(Link), NEW was, SpeltAsFirst(was, doc), Followed(notes, was, doc, from, to),
         NEW new, new = Rewritten(doc, from, to)
  PROVE  SpeltAsFirst(was, new) /\ Following(notes, was, new)
<1>1. DOMAIN new = DOMAIN doc /\ \A k \in DOMAIN doc : doc[k] \in Link /\ new[k] = Respelt(doc[k], from, to)
  BY DEF Rewritten
<1>2. ASSUME NEW k \in DOMAIN doc
      PROVE  /\ new[k].label = doc[k].label /\ (doc[k].more # "title" => new[k].more = doc[k].more)
             /\ ~Full(doc[k]) => ~Full(new[k])
  <2>1. PICK link \in Link : link = doc[k] /\ new[k] = Respelt(link, from, to)
    BY <1>1
  <2>2. PICK key : key = IF Full(link) THEN to ELSE Bare(to)
    OBVIOUS
  <2>3. ~Full(link) => ~(Len(key) > 1)
    BY <2>2 DEF Bare
  <2>4. CASE new[k] = link
    BY <2>1, <2>4
  <2>5. CASE new[k] = [link EXCEPT !.key = key, !.more = IF @ = "title" THEN "nothing" ELSE @]
    <3>1. new[k].key = key /\ new[k].label = link.label
          /\ (link.more # "title" => new[k].more = link.more)
      BY <2>5 DEF Link
    <3>2. ~Full(link) => ~Full(new[k])
      BY <2>3, <3>1 DEF Full
    <3> QED
      BY <2>1, <3>1, <3>2
  <2> QED
    BY <2>1, <2>2, <2>4, <2>5 DEF Respelt
<1>3. SpeltAsFirst(was, new)
  BY <1>1, <1>2 DEF SpeltAsFirst
<1>4. Following(notes, was, new)
  <2> SUFFICES ASSUME NEW k \in DOMAIN doc, was.to[k] # Nothing PROVE Leads(notes, new[k].key, was.to[k])
    BY <1>1 DEF Following
  <2>1. Leads(notes, doc[k].key, was.to[k]) \/ Owed(notes, doc[k].key, was.to[k], from, to)
    BY DEF Followed
  <2> QED
    BY <1>1, <2>1, RespeltLeads
<1> QED
  BY <1>3, <1>4

LEMMA FollowingIsFollowed ==
  \A notes, was, doc, from, to : Following(notes, was, doc) => Followed(notes, was, doc, from, to)
BY DEF Following, Followed

\* At first every link leads where it leads.
LEMMA FollowStarts ==
  ASSUME Unambiguous, RewriteInit
  PROVE  FollowInv
<1>1. DOMAIN files \subseteq NotePath /\ DOMAIN rows = DOMAIN files /\ Apart(files)
  BY RewriteAssumption DEF RewriteInit, Unambiguous
<1>2. Apart(rows)
  BY <1>1 DEF Apart
<1>3. \A p \in DOMAIN rows : rows[p] = [id |-> files[p].id, doc |-> files[p].doc,
                                        to |-> Resolved(files, files[p].doc)]
  BY DEF RewriteInit
<1>4. SameIds(files, rows) /\ \A p \in DOMAIN rows : SameNote(files[p], rows[p])
  BY <1>1, <1>3 DEF SameIds, SameNote
<1>5. ASSUME NEW p \in DOMAIN rows PROVE Rests(rows, first[rows[p].id], p)
  <2>1. PICK was : was = first[rows[p].id]
    OBVIOUS
  <2>2. was = [doc |-> files[p].doc, to |-> Resolved(files, files[p].doc)]
    <3>1. PICK q : q = CHOOSE o \in DOMAIN files : files[o].id = files[p].id
      OBVIOUS
    <3>2. q \in DOMAIN files /\ files[q].id = files[p].id
      BY <1>1, <3>1
    <3>3. q = p
      BY <1>1, <3>2, RewriteAssumption DEF RewriteInit
    <3>4. was = [doc |-> files[q].doc, to |-> Resolved(files, files[q].doc)]
      BY <1>1, <1>3, <2>1, <3>1 DEF RewriteInit
    <3> QED
      BY <3>3, <3>4
  <2>3. PICK doc : doc = files[p].doc
    OBVIOUS
  <2>4. was.doc = doc /\ was.to = Resolved(files, doc) /\ rows[p].doc = doc /\ rows[p].to = was.to
    BY <1>3, <2>2, <2>3
  <2>5. doc \in Seq(Link) /\ \A k \in DOMAIN doc : doc[k].more # "title"
    BY <1>1, <2>3, RewriteAssumption DEF RewriteInit, Unambiguous, Note
  <2>6. \A k \in DOMAIN doc : doc[k] \in Link
    BY <2>5
  <2>7. SpeltAsFirst(was, rows[p].doc)
    BY <2>4, <2>5, <2>6 DEF SpeltAsFirst
  <2>8. Following(files, was, doc)
    BY <1>1, <2>4, ResolvesLeads DEF Following, Resolved
  <2>9. Following(rows, was, doc)
    BY <1>4, <2>8, SameLeads
  <2>10. Indexed(rows, was, rows[p])
    BY <2>4 DEF Indexed, Resolved
  <2> QED
    BY <2>1, <2>4, <2>7, <2>9, <2>10 DEF Rests
<1>6. job.at = "off" /\ job.todo = {}
  BY DEF RewriteInit, Off
<1>7. Waiting(files, rows, {}) /\ InPlace(rows, {}) = DOMAIN rows
  BY <1>1 DEF Waiting, InPlace
<1> QED
  BY <1>1, <1>2, <1>4, <1>5, <1>6, <1>7 DEF FollowInv, AtRest


\* When a note moves, or a folder, nothing is asked of the index yet.
LEMMA NothingWaits ==
  ASSUME FollowInv, job.at = "off"
  PROVE  /\ DOMAIN files = DOMAIN rows /\ \A p \in DOMAIN rows : SameNote(files[p], rows[p])
         /\ \A p \in DOMAIN rows : Rests(rows, first[rows[p].id], p)
         /\ Apart(files) /\ Apart(rows)
<1>1. job.todo = {} /\ AtRest(files, rows, job, first)
  BY DEF FollowInv
<1>2. InPlace(rows, {}) = DOMAIN rows
  BY DEF InPlace
<1> QED
  BY <1>1, <1>2 DEF FollowInv, AtRest, Waiting

LEMMA MovesNoteFollows ==
  ASSUME Unambiguous, TablesInv, FollowInv, NEW from \in NotePath, NEW to \in NotePath, MovesNote(from, to)
  PROVE  FollowInv'
<1>1. /\ from \in DOMAIN files /\ to \notin DOMAIN files /\ files' = Relocated(files, from, to)
      /\ Apart(files') /\ rows' = rows /\ first' = first /\ job.at = "off"
  BY DEF MovesNote, Unambiguous, Place
<1>2. job'.at = "row" /\ job'.todo = {<<from, to>>}
  BY DEF MovesNote, Off
<1>3. /\ DOMAIN files = DOMAIN rows /\ \A p \in DOMAIN rows : SameNote(files[p], rows[p])
      /\ \A p \in DOMAIN rows : Rests(rows, first[rows[p].id], p)
      /\ Apart(rows)
  BY <1>1, NothingWaits
<1>4. HasMoved(files', files, from, to)
  <2>1. DOMAIN files \subseteq NotePath
    BY DEF TablesInv, FilesFit
  <2> QED
    BY <1>1, <2>1, MovedTable
<1>5. PICK todo : todo = {<<from, to>>}
  OBVIOUS
<1>6. InPlace(rows, todo) = DOMAIN rows \ {from}
  BY <1>5 DEF InPlace
<1>7. \A p \in InPlace(rows, todo) : SameNote(files'[p], rows[p])
  BY <1>1, <1>3, <1>4, <1>6 DEF HasMoved
<1>8. Waiting(files', rows, todo)
  <2>1. DOMAIN files' = InPlace(rows, todo) \cup {m[2] : m \in todo}
    BY <1>3, <1>4, <1>5, <1>6 DEF HasMoved
  <2>2. SameNote(files'[to], rows[from])
    BY <1>1, <1>3, <1>4 DEF HasMoved
  <2> QED
    BY <1>1, <1>3, <1>5, <2>1, <2>2 DEF Waiting
<1>9. AtRest(files', rows', job', first')
  BY <1>1, <1>2, <1>3, <1>5, <1>7, <1>8 DEF AtRest
<1> QED
  BY <1>1, <1>2, <1>3, <1>9 DEF FollowInv

LEMMA MovesFolderFollows ==
  ASSUME TablesInv, FollowInv, NEW from \in FolderPath, NEW to \in FolderPath,
         MovesFolder(from, to), LooksAhead(from)
  PROVE  FollowInv'
<1>1. /\ files' = Relocated(files, from, to) /\ rows' = rows /\ first' = first /\ job.at = "off"
      /\ \A p \in DOMAIN files : ~Under(p, to)
  BY DEF MovesFolder, Place
<1>2. job'.at = "row" /\ job'.todo = {<<p, Rebase(p, from, to)>> : p \in NotesUnder(from)}
  BY DEF MovesFolder, Off
<1>3. /\ DOMAIN files = DOMAIN rows /\ \A p \in DOMAIN rows : SameNote(files[p], rows[p])
      /\ \A p \in DOMAIN rows : Rests(rows, first[rows[p].id], p)
      /\ Apart(files) /\ Apart(rows)
  BY <1>1, NothingWaits
<1>4. FolderHasMoved(files', files, from, to)
  <2>1. DOMAIN files \subseteq NotePath
    BY DEF TablesInv, FilesFit
  <2> QED
    BY <1>1, <2>1, MovedNotes
<1>5. PICK under : under = NotesUnder(from)
  OBVIOUS
<1>6. /\ under \subseteq DOMAIN rows /\ \A p \in DOMAIN rows : p \in under <=> Under(p, from)
      /\ under = {p \in DOMAIN files : Under(p, from)}
  BY <1>3, <1>5 DEF NotesUnder
<1>7. /\ \A p \in under : /\ files'[Rebase(p, from, to)] = files[p]
                          /\ Rebase(p, from, to) \in NotePath \ DOMAIN rows
                          /\ Stem(Rebase(p, from, to)) = Stem(p)
      /\ \A p, q \in under : Rebase(p, from, to) = Rebase(q, from, to) => p = q
      /\ \A p \in DOMAIN rows \ under : files'[p] = files[p]
      /\ DOMAIN files' = (DOMAIN rows \ under) \cup {Rebase(p, from, to) : p \in under}
  <2>1. {p \in DOMAIN files : ~Under(p, from)} = DOMAIN rows \ under
    BY <1>3, <1>6
  <2> QED
    BY <1>3, <1>4, <1>6, <2>1 DEF FolderHasMoved
<1>8. PICK todo : todo = {<<p, Rebase(p, from, to)>> : p \in under}
  OBVIOUS
<1>9. \A m \in todo : m[1] \in under /\ m[2] = Rebase(m[1], from, to) /\ m = <<m[1], m[2]>>
  BY <1>8
<1>10. ASSUME NEW p \in under
       PROVE  \E m \in todo : m[1] = p /\ m[2] = Rebase(p, from, to)
  <2>1. PICK m : m = <<p, Rebase(p, from, to)>>
    OBVIOUS
  <2>2. m \in todo /\ m[1] = p /\ m[2] = Rebase(p, from, to)
    BY <1>8, <2>1
  <2> QED
    BY <2>2
<1>11. InPlace(rows, todo) = DOMAIN rows \ under
  BY <1>9, <1>10 DEF InPlace
<1>12. Waiting(files', rows, todo)
  <2>1. todo \subseteq (DOMAIN rows) \X (NotePath \ DOMAIN rows)
    BY <1>6, <1>7, <1>8
  <2>2. \A m, n \in todo : m[1] = n[1] \/ m[2] = n[2] => m = n
    BY <1>7, <1>9
  <2>3. {m[2] : m \in todo} = {Rebase(p, from, to) : p \in under}
    BY <1>9, <1>10
  <2>4. DOMAIN files' = InPlace(rows, todo) \cup {m[2] : m \in todo}
    BY <1>7, <1>11, <2>3
  <2>5. \A m \in todo : SameNote(files'[m[2]], rows[m[1]])
    BY <1>3, <1>6, <1>7, <1>9
  <2>6. ASSUME NEW m \in todo, NEW n \in todo, m # n
        PROVE  /\ Stem(m[2]) = Stem(m[1])
               /\ Rank[m[1]] <= Rank[n[1]] => \A k \in DOMAIN rows[n[1]].doc : rows[n[1]].doc[k].key # m[1]
    <3>1. m[1] # n[1] /\ m[1] \in under /\ n[1] \in under
      BY <1>9, <2>2, <2>6
    <3> QED
      BY <1>5, <1>7, <1>9, <3>1 DEF LooksAhead
  <2> QED
    BY <2>1, <2>2, <2>4, <2>5, <2>6 DEF Waiting
<1>13. \A p \in InPlace(rows, todo) : SameNote(files'[p], rows[p])
  BY <1>3, <1>7, <1>11
<1>14. AtRest(files', rows', job', first')
  BY <1>1, <1>2, <1>3, <1>5, <1>8, <1>12, <1>13 DEF AtRest
<1>15. Apart(files')
  <2>1. \A p \in DOMAIN files' : \E q \in DOMAIN rows :
          Stem(p) = Stem(q) /\ p = IF q \in under THEN Rebase(q, from, to) ELSE q
    BY <1>6, <1>7
  <2> QED
    BY <1>3, <2>1 DEF Apart
<1> QED
  BY <1>1, <1>2, <1>3, <1>14, <1>15 DEF FollowInv

\* The row moves: the links to the note are owed, but for those of the notes that wait,
\* which have none by its whole path, and its stem is as it was.
LEMMA RenamesRowFollows ==
  ASSUME TablesInv, FollowInv, RenamesRow
  PROVE  FollowInv'
<1>1. AtRest(files, rows, job, first) /\ files' = files /\ first' = first /\ Apart(files) /\ Apart(rows)
  BY DEF FollowInv, RenamesRow, Place
<1>2. CASE job.todo = {} /\ job' = Off /\ UNCHANGED rows
  <2>1. job'.todo = {} /\ job'.at = "off"
    BY <1>2 DEF Off
  <2>2. AtRest(files', rows', job', first')
    BY <1>1, <1>2, <2>1 DEF AtRest
  <2> QED
    BY <1>1, <1>2, <2>1, <2>2 DEF FollowInv
<1>3. ASSUME NEW move \in job.todo, \A other \in job.todo : Rank[move[1]] <= Rank[other[1]],
             rows' = Relocated(rows, move[1], move[2]),
             job' = [job EXCEPT !.at = "reresolve", !.todo = @ \ {move}, !.from = move[1],
                                !.to = move[2], !.keys = KeysFor(move[1]) \cup KeysFor(move[2])]
      PROVE  FollowInv'
  <2>1. PICK todo : todo = job.todo
    OBVIOUS
  <2>2. PICK left : left = todo \ {move}
    OBVIOUS
  <2>3. Waiting(files, rows, todo) /\ DOMAIN rows \subseteq NotePath
    BY <1>1, <2>1 DEF AtRest, TablesInv, RowsFit
  <2>4. PICK from \in DOMAIN rows, to \in NotePath \ DOMAIN rows : move = <<from, to>>
    BY <1>3, <2>1, <2>3 DEF Waiting
  <2>5. /\ job'.at = "reresolve" /\ job'.todo = left /\ job'.from = from /\ job'.to = to
    BY <1>3, <2>1, <2>2, <2>4 DEF TablesInv, JobFits, JobState
  <2>6. HasMoved(rows', rows, from, to)
    BY <1>3, <2>3, <2>4, MovedTable
  <2>7. /\ DOMAIN rows' = (DOMAIN rows \ {from}) \cup {to} /\ rows'[to] = rows[from]
        /\ \A q \in DOMAIN rows \ {from} : rows'[q] = rows[q]
    BY <2>4, <2>6 DEF HasMoved
  <2>8. \A m \in left : /\ m \in todo /\ m # move /\ m[1] \in DOMAIN rows \ {from}
                        /\ m[2] \in NotePath \ DOMAIN rows /\ m[2] # to
                        /\ m = <<m[1], m[2]>>
    BY <1>3, <2>1, <2>2, <2>3, <2>4 DEF Waiting
  <2>9. InPlace(rows', left) = InPlace(rows, todo) \cup {to}
    <3>1. \A p \in DOMAIN rows : (\A m \in todo : m[1] # p) <=> p # from /\ \A m \in left : m[1] # p
      BY <1>3, <2>1, <2>2, <2>4, <2>8
    <3> QED
      BY <2>4, <2>7, <2>8, <3>1 DEF InPlace
  <2>10. Waiting(files, rows', left)
    <3>1. left \subseteq (DOMAIN rows') \X (NotePath \ DOMAIN rows')
      BY <2>7, <2>8
    <3>2. \A m, n \in left : m[1] = n[1] \/ m[2] = n[2] => m = n
      BY <2>3, <2>8 DEF Waiting
    <3>3. DOMAIN files = InPlace(rows', left) \cup {m[2] : m \in left}
      <4>1. {m[2] : m \in todo} = {m[2] : m \in left} \cup {to}
        BY <1>3, <2>1, <2>2, <2>4
      <4> QED
        BY <2>3, <2>9, <4>1 DEF Waiting
    <3>4. \A m \in left : rows'[m[1]] = rows[m[1]]
      BY <2>7, <2>8
    <3> QED
      BY <2>3, <2>8, <3>1, <3>2, <3>3, <3>4 DEF Waiting
  <2>11. \A p \in InPlace(rows', left) : SameNote(files[p], rows'[p])
    <3>1. SameNote(files[to], rows[from])
      BY <1>3, <2>1, <2>3, <2>4 DEF Waiting
    <3>2. \A p \in InPlace(rows, todo) : p \in DOMAIN rows \ {from} /\ SameNote(files[p], rows[p])
      BY <1>1, <1>3, <2>1, <2>4 DEF AtRest, InPlace
    <3> QED
      BY <2>7, <2>9, <3>1, <3>2
  <2>12. \A p \in DOMAIN rows' \ {to} : Stem(p) # Stem(from)
    BY <1>1, <2>4, <2>7 DEF Apart
  <2>13. ASSUME NEW m \in left
         PROVE  /\ Stem(to) = Stem(from)
                /\ \A k \in DOMAIN rows[m[1]].doc : rows[m[1]].doc[k].key # from
    BY <1>3, <2>1, <2>3, <2>4, <2>8 DEF Waiting
  <2>14. ASSUME NEW key, NEW id, Leads(rows, key, id)
         PROVE  /\ Leads(rows', key, id) \/ Owed(rows', key, id, from, to)
                /\ Stem(to) = Stem(from) /\ key # from => Leads(rows', key, id)
    <3>1. PICK q \in DOMAIN rows : key \in KeysFor(q) /\ rows[q].id = id
      BY <2>14 DEF Leads
    <3>2. CASE q # from
      BY <2>7, <3>1, <3>2 DEF Leads
    <3>3. CASE q = from
      <4>1. Stem(to) = Stem(from) /\ key # from => key \in KeysFor(to)
        BY <3>1, <3>3 DEF KeysFor, Bare
      <4> QED
        BY <2>7, <3>1, <3>3, <4>1 DEF Leads, Owed
    <3> QED
      BY <3>2, <3>3
  <2>15. ASSUME NEW p \in DOMAIN rows', NEW row, row = rows'[p], NEW was, was = first[row.id]
         PROVE  /\ SpeltAsFirst(was, row.doc) /\ Followed(rows', was, row.doc, from, to)
                /\ Indexed(rows', was, row)
                /\ Stem(to) = Stem(from) /\ (\A k \in DOMAIN row.doc : row.doc[k].key # from) =>
                     Following(rows', was, row.doc)
    <3>1. PICK q \in DOMAIN rows : row = rows[q]
      BY <2>4, <2>7, <2>15
    <3>2. SpeltAsFirst(was, row.doc) /\ Following(rows, was, row.doc) /\ Indexed(rows, was, row)
      BY <1>1, <2>15, <3>1 DEF AtRest, Rests
    <3>3. Followed(rows', was, row.doc, from, to)
      BY <2>14, <3>2 DEF Following, Followed
    <3>4. Indexed(rows', was, row)
      BY <3>2 DEF Following, Indexed
    <3>5. Stem(to) = Stem(from) /\ (\A k \in DOMAIN row.doc : row.doc[k].key # from) =>
            Following(rows', was, row.doc)
      BY <2>14, <3>2 DEF Following
    <3> QED
      BY <3>2, <3>3, <3>4, <3>5
  <2>16. ASSUME NEW p \in InPlace(rows', left) PROVE Works(files, rows', job', first[rows'[p].id], p)
    <3>1. PICK row : row = rows'[p]
      OBVIOUS
    <3>2. PICK was : was = first[row.id]
      OBVIOUS
    <3>3. p \in DOMAIN rows' /\ files[p].id = row.id /\ files[p].doc = row.doc
      BY <2>11, <3>1 DEF SameNote, InPlace
    <3>4. /\ SpeltAsFirst(was, row.doc) /\ Followed(rows', was, row.doc, from, to)
          /\ Indexed(rows', was, row)
      BY <2>15, <3>1, <3>2, <3>3
    <3> QED
      BY <2>5, <3>1, <3>2, <3>3, <3>4 DEF Works, Due
  <2>17. ASSUME NEW p \in DOMAIN rows' \ InPlace(rows', left) PROVE Rests(rows', first[rows'[p].id], p)
    <3>1. PICK m \in left : m[1] = p
      BY <2>17 DEF InPlace
    <3>2. rows'[p] = rows[p]
      BY <2>7, <2>8, <3>1
    <3>3. Stem(to) = Stem(from) /\ \A k \in DOMAIN rows'[p].doc : rows'[p].doc[k].key # from
      BY <2>13, <3>1, <3>2
    <3>4. PICK row : row = rows'[p]
      OBVIOUS
    <3>5. PICK was : was = first[row.id]
      OBVIOUS
    <3>6. /\ SpeltAsFirst(was, row.doc) /\ Following(rows', was, row.doc)
          /\ Indexed(rows', was, row)
      BY <2>15, <2>17, <3>3, <3>4, <3>5
    <3> QED
      BY <3>4, <3>5, <3>6 DEF Rests
  <2>18. AtWork(files', rows', job', first')
    BY <1>1, <2>5, <2>7, <2>10, <2>12, <2>16, <2>17 DEF AtWork
  <2>19. Apart(rows')
    <3>1. CASE left = {}
      <4>1. DOMAIN files = DOMAIN rows'
        BY <2>10, <3>1 DEF Waiting, InPlace
      <4> QED
        BY <1>1, <4>1 DEF Apart
    <3>2. CASE left # {}
      <4>1. Stem(to) = Stem(from)
        BY <2>13, <3>2
      <4>2. \A p \in DOMAIN rows' \ {to} : Stem(p) # Stem(to) /\ p \in DOMAIN rows
        BY <2>7, <2>12, <4>1
      <4> QED
        BY <1>1, <4>2 DEF Apart
    <3> QED
      BY <3>1, <3>2
  <2> QED
    BY <1>1, <2>5, <2>18, <2>19 DEF FollowInv
<1> QED
  BY <1>2, <1>3 DEF RenamesRow

\* Links are looked up again, at three places of the work.
LEMMA RelinkedWorks ==
  ASSUME RowsFit(rows), Apart(rows), job \in JobState, AtWork(files, rows, job, first),
         NEW sources, NEW keys, NEW at, NEW j, j = [job EXCEPT !.at = at],
         \/ job.at = "reresolve" /\ at = "sources"
         \/ job.at = "outgoing" /\ at = "keys" /\ job.source \in sources /\ AllKeys \subseteq keys
         \/ job.at = "keys" /\ at = "each",
         NEW r, r = Relinked(sources, keys)
  PROVE  AtWork(files, r, j, first) /\ Apart(r)
<1>1. /\ j.at = at /\ j.todo = job.todo /\ j.from = job.from /\ j.to = job.to
      /\ j.source = job.source /\ j.sources = job.sources
  BY DEF JobState
<1>2. SameIds(rows, r) /\ \A p \in DOMAIN rows : r[p].doc = rows[p].doc /\ DOMAIN r[p].to = DOMAIN rows[p].to
  BY RelinkedIs
<1>3. DOMAIN r = DOMAIN rows /\ \A p \in DOMAIN rows : r[p].id = rows[p].id
  BY <1>2 DEF SameIds
<1>4. \A p : ~Due(j, p) => ~Due(job, p)
  BY <1>1 DEF Due
<1>5. job.to \in DOMAIN rows
  BY DEF AtWork
<1>6. ASSUME NEW p \in InPlace(rows, job.todo) PROVE Works(files, r, j, first[r[p].id], p)
  <2> p \in DOMAIN rows
    BY DEF InPlace
  <2>1. PICK was : was = first[rows[p].id]
    OBVIOUS
  <2>2. Works(files, rows, job, was, p)
    BY <2>1 DEF AtWork
  <2>3. /\ Followed(rows, was, files[p].doc, job.from, job.to) /\ files[p].doc = rows[p].doc
        /\ ~Due(job, p) => Following(rows, was, files[p].doc)
    BY <2>2 DEF Works
  <2>4. /\ Followed(r, was, files[p].doc, job.from, job.to)
        /\ ~Due(job, p) => Following(r, was, files[p].doc)
    BY <1>2, <1>5, <2>3, SameLeads
  <2>5. /\ DOMAIN rows[p].to = DOMAIN rows[p].doc
        /\ \/ Indexed(rows, was, rows[p])
           \/ p \in sources /\ \A k \in DOMAIN rows[p].doc : rows[p].doc[k].key \in keys
    <3>1. CASE Indexed(rows, was, rows[p])
      BY <3>1 DEF Indexed
    <3>2. CASE p = job.source /\ job.at = "outgoing"
      <4>1. \A k \in DOMAIN rows[p].doc : rows[p].doc[k].key \in AllKeys
        BY DEF AllKeys
      <4> QED
        BY <2>2, <3>2, <4>1 DEF Works
    <3> QED
      BY <2>2, <3>1, <3>2 DEF Works
  <2>6. Indexed(rows, was, r[p])
    BY <2>5, RelinkedIndexed
  <2>7. Indexed(r, was, r[p])
    BY <1>2, <2>6, SameLeads
  <2> QED
    BY <1>1, <1>2, <1>3, <1>4, <2>1, <2>2, <2>3, <2>4, <2>7 DEF Works
<1>7. ASSUME NEW p \in DOMAIN rows \ InPlace(rows, job.todo) PROVE Rests(r, first[r[p].id], p)
  <2>1. PICK was : was = first[rows[p].id]
    OBVIOUS
  <2>2. SpeltAsFirst(was, rows[p].doc) /\ Following(rows, was, rows[p].doc) /\ Indexed(rows, was, rows[p])
    BY <2>1 DEF AtWork, Rests
  <2>3. DOMAIN rows[p].to = DOMAIN rows[p].doc
    BY <2>2 DEF Indexed
  <2>4. Indexed(rows, was, r[p])
    BY <2>2, <2>3, RelinkedIndexed
  <2>5. Following(r, was, rows[p].doc) /\ Indexed(r, was, r[p])
    BY <1>2, <2>2, <2>4, SameLeads
  <2> QED
    BY <1>2, <1>3, <2>1, <2>2, <2>5 DEF Rests
<1>8. Waiting(files, r, job.todo) /\ InPlace(r, job.todo) = InPlace(rows, job.todo)
  <2>1. Waiting(files, rows, job.todo)
    BY DEF AtWork
  <2> QED
    BY <1>2, <2>1, StillWaiting
<1>9. AtWork(files, r, j, first)
  BY <1>1, <1>3, <1>6, <1>7, <1>8 DEF AtWork
<1>10. Apart(r)
  BY <1>3 DEF Apart
<1> QED
  BY <1>9, <1>10

LEMMA RelinksFollow ==
  ASSUME TablesInv, FollowInv, ReresolvesMoved \/ ResolvesOutgoing \/ Reresolves
  PROVE  FollowInv'
<1>1. /\ RowsFit(rows) /\ Apart(rows) /\ Apart(files) /\ job \in JobState
      /\ files' = files /\ first' = first
  BY DEF TablesInv, JobFits, FollowInv, ReresolvesMoved, ResolvesOutgoing, Reresolves
<1>2. AtWork(files, rows, job, first)
  BY DEF FollowInv, ReresolvesMoved, ResolvesOutgoing, Reresolves, Place
<1>3. PICK at, sources, keys :
        /\ \/ job.at = "reresolve" /\ at = "sources"
           \/ job.at = "outgoing" /\ at = "keys" /\ job.source \in sources /\ AllKeys \subseteq keys
           \/ job.at = "keys" /\ at = "each"
        /\ job' = [job EXCEPT !.at = at] /\ rows' = Relinked(sources, keys)
  <2>1. CASE ReresolvesMoved
    BY <2>1 DEF ReresolvesMoved, Place, Goes
  <2>2. CASE ResolvesOutgoing
    <3>1. job.source \in {job.source} /\ AllKeys \subseteq AllKeys
      OBVIOUS
    <3> QED
      BY <2>2, <3>1 DEF ResolvesOutgoing, Place, Goes
  <2>3. CASE Reresolves
    BY <2>3 DEF Reresolves, Place, Goes
  <2> QED
    BY <2>1, <2>2, <2>3
<1>4. AtWork(files, rows', job', first) /\ Apart(rows')
  BY <1>1, <1>2, <1>3, RelinkedWorks
<1>5. job'.at \notin {"off", "row"}
  BY <1>1, <1>3 DEF JobState
<1> QED
  BY <1>1, <1>4, <1>5 DEF FollowInv

\* Whoever owes is a source.
LEMMA FindsSourcesFollows ==
  ASSUME TablesInv, FollowInv, FindsSources
  PROVE  FollowInv'
<1>1. PICK found : found = {p \in DOMAIN rows : \E k \in DOMAIN rows[p].doc :
                              rows[p].doc[k].key \in KeysFor(job.from)}
  OBVIOUS
<1>2. job' = [job EXCEPT !.at = "each", !.sources = found] /\ job.at = "sources"
  BY <1>1 DEF FindsSources, Place
<1>3. /\ job'.at = "each" /\ job'.sources = found /\ job'.todo = job.todo
      /\ job'.from = job.from /\ job'.to = job.to
  BY <1>2 DEF TablesInv, JobFits, JobState
<1>4. files' = files /\ rows' = rows /\ first' = first
  BY DEF FindsSources, tables
<1>5. AtWork(files, rows, job, first) /\ Apart(files) /\ Apart(rows)
  BY <1>2 DEF FollowInv
<1>6. ASSUME NEW p \in InPlace(rows, job.todo) PROVE Works(files, rows, job', first[rows[p].id], p)
  <2> p \in DOMAIN rows
    BY DEF InPlace
  <2>1. PICK was : was = first[rows[p].id]
    OBVIOUS
  <2>2. Works(files, rows, job, was, p)
    BY <1>5, <2>1 DEF AtWork
  <2>3. files[p].doc = rows[p].doc /\ Followed(rows, was, files[p].doc, job.from, job.to)
    BY <1>2, <2>2 DEF Works
  <2>4. p \notin found => Following(rows, was, files[p].doc)
    BY <1>1, <2>3 DEF Followed, Following, Owed
  <2> QED
    BY <1>2, <1>3, <2>1, <2>2, <2>3, <2>4 DEF Works, Due
<1>7. AtWork(files', rows', job', first')
  BY <1>1, <1>3, <1>4, <1>5, <1>6 DEF AtWork
<1> QED
  BY <1>3, <1>4, <1>5, <1>7 DEF FollowInv

\* A source is rewritten, or has nothing to rewrite; when no source is left none owes.
LEMMA RewritesFollows ==
  ASSUME TablesInv, FollowInv, Rewrites
  PROVE  FollowInv'
<1>1. rows' = rows /\ first' = first /\ job.at = "each" /\ job \in JobState
  BY DEF Rewrites, Place, TablesInv, JobFits
<1>2. AtWork(files, rows, job, first) /\ Apart(files) /\ Apart(rows)
  BY <1>1 DEF FollowInv
<1>3. /\ \A p \in InPlace(rows, job.todo) : p \in DOMAIN rows /\ Works(files, rows, job, first[rows[p].id], p)
      /\ \A p \in DOMAIN rows \ InPlace(rows, job.todo) : Rests(rows, first[rows[p].id], p)
  BY <1>2 DEF AtWork, InPlace
<1>4. /\ Waiting(files, rows, job.todo) /\ job.to \in DOMAIN rows /\ job.sources \subseteq DOMAIN rows
      /\ \A p \in DOMAIN rows : p \in DOMAIN files <=> p \in InPlace(rows, job.todo)
  <2>1. Waiting(files, rows, job.todo)
    BY <1>2 DEF AtWork
  <2>2. \A p \in DOMAIN rows : p \in DOMAIN files <=> p \in InPlace(rows, job.todo)
    BY <2>1 DEF Waiting
  <2> QED
    BY <1>1, <1>2, <2>1, <2>2 DEF AtWork
<1>5. CASE job.sources = {} /\ Goes("row") /\ UNCHANGED files
  <2>1. job'.at = "row" /\ job'.todo = job.todo
    BY <1>1, <1>5 DEF Goes, JobState
  <2>2. ASSUME NEW p \in InPlace(rows, job.todo)
        PROVE  Rests(rows, first[rows[p].id], p) /\ SameNote(files[p], rows[p])
    BY <1>1, <1>3, <1>5 DEF Works, Due, Rests, SameNote
  <2>3. AtRest(files, rows, job', first)
    BY <1>3, <1>4, <2>1, <2>2 DEF AtRest
  <2> QED
    BY <1>1, <1>2, <1>5, <2>1, <2>3 DEF FollowInv
<1>6. ASSUME NEW p \in job.sources, p \in DOMAIN files,
             NEW doc, doc = Rewritten(files[p].doc, job.from, job.to)
      PROVE  SpeltAsFirst(first[rows[p].id], doc) /\ Following(rows, first[rows[p].id], doc)
  <2>1. DOMAIN rows \subseteq NotePath /\ job.from \in NotePath /\ files[p].doc \in Seq(Link)
    BY <1>1, <1>6 DEF TablesInv, JobFits, RowsFit, FilesFit, Note
  <2>2. \A q \in DOMAIN rows \ {job.to} : Stem(q) # Stem(job.from)
    BY <1>2 DEF AtWork
  <2>3. PICK was : was = first[rows[p].id]
    OBVIOUS
  <2>4. SpeltAsFirst(was, files[p].doc) /\ Followed(rows, was, files[p].doc, job.from, job.to)
    BY <1>3, <1>4, <1>6, <2>3 DEF Works
  <2>5. SpeltAsFirst(was, doc) /\ Following(rows, was, doc)
    BY <1>4, <1>6, <2>1, <2>2, <2>4, RewrittenFollows
  <2> QED
    BY <2>3, <2>5
<1>7. ASSUME NEW p \in job.sources,
             p \notin DOMAIN files \/ files[p].doc = Rewritten(files[p].doc, job.from, job.to),
             job' = [job EXCEPT !.sources = @ \ {p}], UNCHANGED files
      PROVE  FollowInv'
  <2>1. /\ job'.at = "each" /\ job'.sources = job.sources \ {p} /\ job'.todo = job.todo
        /\ job'.from = job.from /\ job'.to = job.to /\ job'.source = job.source
    BY <1>1, <1>7 DEF JobState
  <2>2. ASSUME NEW q \in InPlace(rows, job.todo) PROVE Works(files, rows, job', first[rows[q].id], q)
    <3>1. q = p => Following(rows, first[rows[q].id], files[q].doc)
      BY <1>4, <1>6, <1>7
    <3> QED
      BY <1>1, <1>3, <2>1, <3>1 DEF Works, Due
  <2>3. AtWork(files, rows, job', first)
    BY <1>2, <1>4, <2>1, <2>2 DEF AtWork
  <2> QED
    BY <1>1, <1>2, <1>7, <2>1, <2>3 DEF FollowInv
<1>8. ASSUME NEW p \in job.sources, NEW doc, doc = Rewritten(files[p].doc, job.from, job.to),
             p \in DOMAIN files, files' = [files EXCEPT ![p].doc = doc],
             job' = [job EXCEPT !.at = "index", !.sources = @ \ {p}, !.source = p]
      PROVE  FollowInv'
  <2>1. /\ job'.at = "index" /\ job'.sources = job.sources \ {p} /\ job'.todo = job.todo
        /\ job'.from = job.from /\ job'.to = job.to /\ job'.source = p
    BY <1>1, <1>8 DEF JobState
  <2>2. /\ DOMAIN files' = DOMAIN files /\ \A q \in DOMAIN files \ {p} : files'[q] = files[q]
        /\ files'[p].doc = doc /\ files'[p].id = files[p].id
    BY <1>8 DEF TablesInv, FilesFit, Note
  <2>3. ASSUME NEW q \in InPlace(rows, job.todo) \ {p} PROVE Works(files', rows, job', first[rows[q].id], q)
    <3>1. Works(files, rows, job, first[rows[q].id], q) /\ files'[q] = files[q]
      BY <1>3, <1>4, <2>2
    <3> QED
      BY <1>1, <2>1, <3>1 DEF Works, Due
  <2>4. Works(files', rows, job', first[rows[p].id], p)
    <3>1. PICK was : was = first[rows[p].id]
      OBVIOUS
    <3>2. SpeltAsFirst(was, doc) /\ Following(rows, was, doc)
      BY <1>4, <1>6, <1>8, <3>1
    <3>3. Followed(rows, was, doc, job.from, job.to)
      BY <3>2, FollowingIsFollowed
    <3>4. files[p].id = rows[p].id
      BY <1>3, <1>4, <1>8 DEF Works
    <3> QED
      BY <2>1, <2>2, <3>1, <3>2, <3>3, <3>4 DEF Works
  <2>5. AtWork(files', rows, job', first)
    <3>1. p \in InPlace(rows, job.todo) \ job'.sources
      BY <1>4, <1>8, <2>1
    <3>2. \A q \in DOMAIN rows \ {job.to} : Stem(q) # Stem(job.from)
      BY <1>2 DEF AtWork
    <3>3. Waiting(files', rows, job.todo)
      <4>1. SameIds(rows, rows) /\ p \in DOMAIN rows
        BY <1>4, <1>8 DEF SameIds
      <4> QED
        BY <1>4, <2>2, <4>1, StillWaiting
    <3> QED
      BY <1>3, <1>4, <2>1, <2>3, <2>4, <3>1, <3>2, <3>3 DEF AtWork
  <2>6. Apart(files')
    BY <1>2, <2>2 DEF Apart
  <2> QED
    BY <1>1, <1>2, <2>1, <2>5, <2>6 DEF FollowInv
<1> QED
  BY <1>5, <1>7, <1>8 DEF Rewrites

\* The links written lead nowhere until they are looked up.
LEMMA IndexesFollows ==
  ASSUME TablesInv, FollowInv, Indexes
  PROVE  FollowInv'
<1>1. files' = files /\ first' = first /\ job.at = "index" /\ job \in JobState
  BY DEF Indexes, Place, TablesInv, JobFits
<1>2. AtWork(files, rows, job, first) /\ Apart(files) /\ Apart(rows)
  BY <1>1 DEF FollowInv
<1>3. job' = [job EXCEPT !.at = "outgoing"]
  BY DEF Indexes, Goes
<1>4. /\ job'.at = "outgoing" /\ job'.sources = job.sources /\ job'.todo = job.todo
      /\ job'.from = job.from /\ job'.to = job.to /\ job'.source = job.source
  BY <1>1, <1>3 DEF JobState
<1>5. PICK s \in DOMAIN rows : s = job.source /\ s \in InPlace(rows, job.todo) \ job.sources
  BY <1>1, <1>2 DEF AtWork, InPlace
<1>6. PICK doc : doc = files[s].doc
  OBVIOUS
<1>7. PICK to : to = [k \in DOMAIN doc |-> Nothing]
  OBVIOUS
<1>8. rows' = [rows EXCEPT ![s].doc = doc, ![s].to = to]
  BY <1>5, <1>6, <1>7 DEF Indexes
<1>9. RowFits(rows[s])
  BY <1>5 DEF TablesInv, RowsFit
<1>10. /\ DOMAIN rows' = DOMAIN rows /\ \A q \in DOMAIN rows \ {s} : rows'[q] = rows[q]
       /\ rows'[s].doc = doc /\ DOMAIN rows'[s].to = DOMAIN doc /\ rows'[s].id = rows[s].id
  BY <1>5, <1>7, <1>8, <1>9 DEF RowFits
<1>11. SameIds(rows, rows')
  BY <1>5, <1>10 DEF SameIds
<1>12. ASSUME NEW q \in InPlace(rows, job.todo) PROVE Works(files, rows', job', first[rows'[q].id], q)
  <2> q \in DOMAIN rows
    BY DEF InPlace
  <2>1. PICK was : was = first[rows[q].id]
    OBVIOUS
  <2>2. rows'[q].id = rows[q].id
    BY <1>5, <1>10
  <2>3. Works(files, rows, job, was, q) /\ job.to \in DOMAIN rows
    BY <1>2, <2>1 DEF AtWork
  <2>4. /\ Followed(rows, was, files[q].doc, job.from, job.to)
        /\ ~Due(job, q) => Following(rows, was, files[q].doc)
        /\ q # s => Indexed(rows, was, rows[q])
    BY <1>5, <2>3 DEF Works
  <2>5. /\ Followed(rows', was, files[q].doc, job.from, job.to)
        /\ ~Due(job, q) => Following(rows', was, files[q].doc)
        /\ q # s => Indexed(rows', was, rows[q])
    BY <1>11, <2>3, <2>4, SameLeads
  <2>6. CASE q = s
    BY <1>1, <1>4, <1>5, <1>6, <1>10, <2>1, <2>2, <2>3, <2>5, <2>6 DEF Works, Due
  <2>7. CASE q # s
    BY <1>1, <1>4, <1>5, <1>10, <2>1, <2>2, <2>3, <2>5, <2>7 DEF Works, Due
  <2> QED
    BY <2>6, <2>7
<1>13. ASSUME NEW q \in DOMAIN rows \ InPlace(rows, job.todo) PROVE Rests(rows', first[rows'[q].id], q)
  <2>1. rows'[q] = rows[q]
    BY <1>5, <1>10
  <2>2. Rests(rows, first[rows[q].id], q)
    BY <1>2 DEF AtWork
  <2>3. PICK was : was = first[rows[q].id]
    OBVIOUS
  <2>4. Following(rows', was, rows[q].doc) /\ Indexed(rows', was, rows[q])
    BY <1>11, <2>2, <2>3, SameLeads DEF Rests
  <2> QED
    BY <2>1, <2>2, <2>3, <2>4 DEF Rests
<1>14. Waiting(files, rows', job.todo) /\ InPlace(rows', job.todo) = InPlace(rows, job.todo)
  <2>1. Waiting(files, rows, job.todo)
    BY <1>2 DEF AtWork
  <2>2. \A q \in DOMAIN rows \ InPlace(rows, job.todo) : rows'[q].doc = rows[q].doc
    BY <1>5, <1>10
  <2> QED
    BY <1>11, <2>1, <2>2, StillWaiting
<1>15. AtWork(files, rows', job', first)
  BY <1>1, <1>2, <1>4, <1>5, <1>10, <1>12, <1>13, <1>14 DEF AtWork
<1>16. Apart(rows')
  BY <1>2, <1>10 DEF Apart
<1> QED
  BY <1>1, <1>2, <1>4, <1>15, <1>16 DEF FollowInv

-----------------------------------------------------------------------------
LEMMA FollowKept ==
  ASSUME Unambiguous, TablesInv, FollowInv, [Next]_vars, [FoldersLookAhead]_vars
  PROVE  FollowInv'
<1>1. ASSUME NEW from \in NotePath, NEW to \in NotePath, MovesNote(from, to) PROVE FollowInv'
  BY <1>1, MovesNoteFollows
<1>2. ASSUME NEW from \in FolderPath, NEW to \in FolderPath, MovesFolder(from, to) PROVE FollowInv'
  <2>1. job' # job
    BY <1>2 DEF MovesFolder, Place, Off
  <2>2. LooksAhead(from)
    BY <1>2, <2>1 DEF FoldersLookAhead, vars, rewriteVars
  <2> QED
    BY <1>2, <2>2, MovesFolderFollows
<1>3. CASE RenamesRow
  BY <1>3, RenamesRowFollows
<1>4. CASE ReresolvesMoved \/ ResolvesOutgoing \/ Reresolves
  BY <1>4, RelinksFollow
<1>5. CASE FindsSources
  BY <1>5, FindsSourcesFollows
<1>6. CASE Rewrites
  BY <1>6, RewritesFollows
<1>7. CASE Indexes
  BY <1>7, IndexesFollows
<1>8. CASE UNCHANGED rewriteVars
  BY <1>8 DEF rewriteVars, FollowInv
<1>9. RewriteNext \/ UNCHANGED rewriteVars
  <2>1. CASE Down \/ Leaves \/ Up \/ \E step \in Steps : Moves(step)
    BY <2>1 DEF Down, Leaves, Up, Moves
  <2>2. CASE (\E ask \in Questions : Asks(ask)) \/ ReadsNotes \/ ReadsLinks \/ ReadsSuggested
    BY <2>2 DEF Asks, ReadsNotes, ReadsLinks, ReadsSuggested
  <2>3. CASE Scopes \/ Walks \/ KeepsWalked \/ Answered
    BY <2>3 DEF Scopes, Walks, KeepsWalked, Answered
  <2> QED
    BY <2>1, <2>2, <2>3 DEF Next, vars
<1> QED
  BY <1>1, <1>2, <1>3, <1>4, <1>5, <1>6, <1>7, <1>8, <1>9 DEF RewriteNext

\* Moving notes and folders about, whichever and however often, leaves every link leading
\* to the note it led to, with its style, label, anchor and alias as they were written, and
\* leaves the index saying so (routes/notes.rs:313-371, routes/tree.rs:179-208), if no two
\* notes have one stem, no link has a title, and no folder is moved while a note of it has
\* a link by the whole path to one that is taken before it.
THEOREM LinksLeadWhereTheyLed ==
  ASSUME Unambiguous
  PROVE  Spec /\ [][FoldersLookAhead]_vars => []LinksFollow
<1>1. Init => FollowInv
  BY FollowStarts DEF Init
<1>2. IInv /\ FollowInv /\ [Next]_vars /\ [FoldersLookAhead]_vars => FollowInv'
  BY FollowKept DEF IInv
<1>3. IInv /\ FollowInv => LinksFollow
  <2> SUFFICES ASSUME TablesInv, FollowInv, job.at = "off", NEW p \in DOMAIN rows, NEW was,
                      was = first[rows[p].id]
               PROVE  /\ p \in DOMAIN files /\ files[p].doc = rows[p].doc
                      /\ \A k \in DOMAIN was.doc :
                           /\ [rows[p].doc[k] EXCEPT !.key = was.doc[k].key] = was.doc[k]
                           /\ ~Full(was.doc[k]) => ~Full(rows[p].doc[k])
                           /\ was.to[k] # Nothing => rows[p].to[k] = was.to[k]
    BY DEF IInv, LinksFollow, Place
  <2>1. p \in DOMAIN files /\ files[p].doc = rows[p].doc /\ Rests(rows, was, p)
    BY NothingWaits DEF SameNote
  <2>2. SpeltAsFirst(was, rows[p].doc) /\ Following(rows, was, rows[p].doc) /\ Indexed(rows, was, rows[p])
    BY <2>1 DEF Rests
  <2>3. PICK doc \in Seq(Link) : doc = rows[p].doc
    BY DEF TablesInv, RowsFit, RowFits
  <2>4. \A k \in DOMAIN doc : doc[k] \in Link
    BY <2>3
  <2>5. \A k \in DOMAIN was.doc : /\ [doc[k] EXCEPT !.key = was.doc[k].key] = was.doc[k]
                                  /\ ~Full(was.doc[k]) => ~Full(doc[k])
    <3>1. \A a, b \in Link : a.label = b.label /\ a.more = b.more => [a EXCEPT !.key = b.key] = b
      BY DEF Link
    <3>2. \A k \in DOMAIN was.doc : /\ doc[k] \in Link /\ was.doc[k] \in Link
                                    /\ doc[k].label = was.doc[k].label /\ doc[k].more = was.doc[k].more
                                    /\ ~Full(was.doc[k]) => ~Full(doc[k])
      BY <2>2, <2>3, <2>4 DEF SpeltAsFirst
    <3> QED
      BY ONLY <3>1, <3>2
  <2>6. \A k \in DOMAIN was.doc : was.to[k] # Nothing => rows[p].to[k] = was.to[k]
    BY <2>2 DEF SpeltAsFirst, Following, Indexed
  <2> QED
    BY <2>1, <2>3, <2>5, <2>6
<1> QED
  BY <1>1, <1>2, <1>3, Invariance, PTL DEF Spec
=============================================================================
