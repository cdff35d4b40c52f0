---------------------------- MODULE LinkRewrite ----------------------------
(***************************************************************************)
(* Moving a note, or a folder with all it holds, and rewriting the links   *)
(* that named what moved (crates/server/src/routes/notes.rs, routes/       *)
(* tree.rs and vault/index.rs).  The file moves first, then its row, then  *)
(* every note whose indexed links have a key of the old name is read,      *)
(* rewritten and indexed, one after the other, with an await at each step. *)
(*                                                                         *)
(* A link's key is a path too: the bare stem is the key of a note at the   *)
(* root, and the key by which a stem is looked for anywhere.  A link also  *)
(* has a label, and something more: an alias or an anchor, or the title of *)
(* a [text](target).                                                       *)
(***************************************************************************)
EXTENDS VaultFiles, FiniteSets

CONSTANTS
  NotePath,         \* the paths of notes
  FolderPath,       \* the folders that can be moved, and to where
  Rank,             \* path -> its place by length, then alphabet; in a folder, by alphabet
  Vaults,           \* the vaults to begin with: path -> [id, doc], doc a sequence of links
  None,
  Namesakes,        \* bound: FALSE keeps two notes from having one stem
  MaxMoves

Stem(path)    == path[Len(path)]
Bare(path)    == <<Stem(path)>>
KeysFor(path) == {path, Bare(path)}
Full(link)    == Len(link.key) > 1

\* The ids of the notes, and every key a link has or may come to have.
NoteId == UNION {{v[p].id : p \in DOMAIN v} : v \in Vaults}
Key    == UNION {KeysFor(p) : p \in NotePath}
          \cup UNION {UNION {{v[p].doc[k].key : k \in DOMAIN v[p].doc} : p \in DOMAIN v} : v \in Vaults}
Link   == [key : Key, label : STRING \cup {None}, more : {"nothing", "alias", "anchor", "title"}]
Note   == [id : NoteId, doc : Seq(Link)]

ASSUME RewriteAssumption ==
  /\ NotePath \cup FolderPath \subseteq Seq(STRING) /\ FolderPath \cap NotePath = {}
  /\ \A p, q \in NotePath : ~IsWithin(p, q)
  /\ \A p \in NotePath, f, g \in FolderPath : Under(p, f) => Rebase(p, f, g) \in NotePath
  /\ \A v \in Vaults : /\ DOMAIN v \subseteq NotePath
                       /\ \A p \in DOMAIN v : v[p] \in Note
                       /\ \A p, q \in DOMAIN v : v[p].id = v[q].id => p = q
  /\ \A p \in NotePath : Rank[p] \in Int
  /\ Namesakes \in BOOLEAN

VARIABLES
  files,   \* path -> [id, doc]
  rows,    \* path -> [id, doc, to]: the links as indexed, and the note each leads to
  job,     \* the move's place: [at, todo, from, to, sources, source, keys]
  moves,
  first    \* ghost: note -> its links at first, and the notes they led to

tables      == <<files, rows>>
rewriteVars == <<files, rows, job, moves, first>>

-----------------------------------------------------------------------------
\* resolve_link_target: the note at that path, or for a bare key the shortest path of
\* that stem.
Resolve(notes, key) ==
  LET named == {p \in DOMAIN notes : Bare(p) = key}
  IN  IF key \in DOMAIN notes THEN notes[key].id
      ELSE IF named = {} THEN Nothing
      ELSE notes[CHOOSE p \in named : \A q \in named : Rank[p] <= Rank[q]].id
Resolved(notes, doc) == [k \in DOMAIN doc |-> Resolve(notes, doc[k].key)]

\* The links of the rows in `sources` whose key is in `keys` looked up again.
Relinked(sources, keys) ==
  [p \in DOMAIN rows |->
     IF p \notin sources THEN rows[p]
     ELSE [rows[p] EXCEPT !.to =
             [k \in DOMAIN @ |-> IF rows[p].doc[k].key \in keys
                                 THEN Resolve(rows, rows[p].doc[k].key) ELSE @[k]]]]
AllKeys == UNION {{rows[p].doc[k].key : k \in DOMAIN rows[p].doc} : p \in DOMAIN rows}

Off == [at |-> "off", todo |-> {}, from |-> None, to |-> None,
        sources |-> {}, source |-> None, keys |-> {}]
Place(at)     == job.at = at
Goes(at)      == job' = [job EXCEPT !.at = at]

RewriteInit ==
  /\ files \in Vaults
  /\ rows = [p \in DOMAIN files |-> [id |-> files[p].id, doc |-> files[p].doc,
                                     to |-> Resolved(files, files[p].doc)]]
  /\ first = [i \in {files[p].id : p \in DOMAIN files} |->
                LET p == CHOOSE p \in DOMAIN files : files[p].id = i
                IN  [doc |-> files[p].doc, to |-> Resolved(files, files[p].doc)]]
  /\ job = Off /\ moves = 0

-----------------------------------------------------------------------------
(***************************************************************************)
(* rewrite_link_targets: a link with a key of the old name is spelt with   *)
(* the new one, in full if it had a folder, and keeps its label, anchor    *)
(* and alias.  What is between the parentheses of a [text](target) is      *)
(* replaced whole, its title with it.                                      *)
(***************************************************************************)
Respelt(link, from, to) ==
  LET key == IF Full(link) THEN to ELSE Bare(to)
  IN  IF link.key \notin KeysFor(from) \/ link.key = key THEN link
      ELSE [link EXCEPT !.key = key, !.more = IF @ = "title" THEN "nothing" ELSE @]
Rewritten(doc, from, to) == [k \in DOMAIN doc |-> Respelt(doc[k], from, to)]

-----------------------------------------------------------------------------
Apart(notes) == \A p, q \in DOMAIN notes : Stem(p) = Stem(q) => p = q

\* store::move_entry refuses a missing source and a target that is there.
MovesNote(from, to) ==
  /\ Place("off") /\ moves < MaxMoves /\ moves' = moves + 1
  /\ from # to /\ from \in DOMAIN files /\ to \notin DOMAIN files
  /\ files' = Relocated(files, from, to)
  /\ Namesakes \/ Apart(files')
  /\ job' = [Off EXCEPT !.at = "row", !.todo = {<<from, to>>}]
  /\ UNCHANGED <<rows, first>>

NotesUnder(folder) == {p \in DOMAIN rows : Under(p, folder)}
\* notes_under lists the notes before the move; the directory moves; then they are
\* taken one by one, in the order of their names.
MovesFolder(from, to) ==
  /\ Place("off") /\ moves < MaxMoves /\ moves' = moves + 1
  /\ from # to /\ \E p \in DOMAIN files : Under(p, from)
  /\ \A p \in DOMAIN files : ~Under(p, to)
  /\ files' = Relocated(files, from, to)
  /\ job' = [Off EXCEPT !.at = "row", !.todo = {<<p, Rebase(p, from, to)>> : p \in NotesUnder(from)}]
  /\ UNCHANGED <<rows, first>>

\* rename_note_row: the row, and then the links that have a key of either name.
RenamesRow ==
  /\ Place("row")
  /\ \/ job.todo = {} /\ job' = Off /\ UNCHANGED rows
     \/ \E move \in job.todo :
          /\ \A other \in job.todo : Rank[move[1]] <= Rank[other[1]]
          /\ rows' = Relocated(rows, move[1], move[2])
          /\ job' = [job EXCEPT !.at = "reresolve", !.todo = @ \ {move},
                                !.from = move[1], !.to = move[2],
                                !.keys = KeysFor(move[1]) \cup KeysFor(move[2])]
  /\ UNCHANGED <<files, moves, first>>

ReresolvesMoved ==
  /\ Place("reresolve") /\ Goes("sources")
  /\ rows' = Relinked(DOMAIN rows, job.keys)
  /\ UNCHANGED <<files, moves, first>>

\* Every note the index says has a link with a key of the old name.
FindsSources ==
  /\ Place("sources")
  /\ job' = [job EXCEPT !.at = "each",
                        !.sources = {p \in DOMAIN rows : \E k \in DOMAIN rows[p].doc :
                                       rows[p].doc[k].key \in KeysFor(job.from)}]
  /\ UNCHANGED <<tables, moves, first>>

\* A source is read, rewritten and written.  One that is not where its row says is
\* skipped, and so is one with nothing to change.
Rewrites ==
  /\ Place("each")
  /\ \/ job.sources = {} /\ Goes("row") /\ UNCHANGED files
     \/ \E p \in job.sources :
          LET doc == Rewritten(files[p].doc, job.from, job.to)
          IN  IF p \notin DOMAIN files \/ files[p].doc = doc
              THEN job' = [job EXCEPT !.sources = @ \ {p}] /\ UNCHANGED files
              ELSE /\ files' = [files EXCEPT ![p].doc = doc]
                   /\ job' = [job EXCEPT !.at = "index", !.sources = @ \ {p}, !.source = p]
  /\ UNCHANGED <<rows, moves, first>>

\* index_note_content: the transaction writes the links unresolved; they are resolved
\* after it, and then the links that have a key of this note.
Indexes ==
  /\ Place("index") /\ Goes("outgoing")
  /\ rows' = LET doc == files[job.source].doc
             IN  [rows EXCEPT ![job.source].doc = doc,
                              ![job.source].to = [k \in DOMAIN doc |-> Nothing]]
  /\ UNCHANGED <<files, moves, first>>
\* Mutant: the links written are left unresolved.
ResolvesOutgoing_Not ==
  /\ Place("outgoing") /\ Goes("keys")
  /\ UNCHANGED <<tables, moves, first>>
ResolvesOutgoing ==
  /\ Place("outgoing") /\ Goes("keys")
  /\ rows' = Relinked({job.source}, AllKeys)
  /\ UNCHANGED <<files, moves, first>>
Reresolves ==
  /\ Place("keys") /\ Goes("each")
  /\ rows' = Relinked(DOMAIN rows, KeysFor(job.source))
  /\ UNCHANGED <<files, moves, first>>

RewriteNext ==
  \/ \E p, q \in NotePath : MovesNote(p, q)
  \/ \E f, g \in FolderPath : MovesFolder(f, g)
  \/ RenamesRow \/ ReresolvesMoved \/ FindsSources
  \/ Rewrites \/ Indexes \/ ResolvesOutgoing \/ Reresolves

-----------------------------------------------------------------------------
\* Moving notes and folders about leaves every link leading to the note it led to, with
\* its style, label, anchor and alias as they were written: "Renames that break
\* nothing" (README.md:25), "every link written as a full path has to follow"
\* (routes/tree.rs:174-178).
LinksFollow ==
  Place("off") =>
    \A p \in DOMAIN rows :
      LET was == first[rows[p].id]
      IN  /\ p \in DOMAIN files /\ files[p].doc = rows[p].doc
          /\ \A k \in DOMAIN was.doc :
               /\ [rows[p].doc[k] EXCEPT !.key = was.doc[k].key] = was.doc[k]
               /\ ~Full(was.doc[k]) => ~Full(rows[p].doc[k])
               /\ was.to[k] # Nothing => rows[p].to[k] = was.to[k]
=============================================================================
