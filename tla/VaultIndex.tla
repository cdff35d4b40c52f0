----------------------------- MODULE VaultIndex ----------------------------
(***************************************************************************)
(* The index of a vault in the database, and the three that write it:      *)
(* note requests, the watcher and the reconcile at startup                 *)
(* (crates/server/src/vault/index.rs, watch.rs, store.rs).  Each goes from *)
(* await to await between the others, and files also change by hand.       *)
(*                                                                         *)
(* A text is [id, key]: the write it came by, which is also its file's     *)
(* modification time, and the link it holds.  A key is a path without its  *)
(* extension or the name alone, as a sequence of names.  What a request    *)
(* checks before it touches a file is in NoteServer.                       *)
(***************************************************************************)
EXTENDS VaultFiles, FiniteSets

CONSTANTS
  NotePath, Key,       \* the paths of notes; the keys that links use
  Rank,                \* the order of paths by length, then by name
  AtFirst,             \* the notes at first: path -> text, with ids below 1
  Req, Watcher, Reconcile,   \* the tasks
  Timely,              \* bound: TRUE has requests and the reconcile over by the time
                       \* the watcher is told of a change (half a second after it)
  MaxWrites, MaxCrashes

Texts == [id : Int, key : Key \cup {Nothing}]

ASSUME IndexAssumption ==
  /\ Timely \in BOOLEAN /\ Rank \in [NotePath -> Nat] /\ Nothing \notin NotePath
  /\ \A p, q \in NotePath : Rank[p] = Rank[q] => p = q
  /\ DOMAIN AtFirst \subseteq NotePath /\ IsFiniteSet(DOMAIN AtFirst)
  /\ AtFirst \in [DOMAIN AtFirst -> Texts] /\ MaxWrites \in Nat /\ MaxCrashes \in Nat
  /\ Watcher \notin Req /\ Reconcile \notin Req /\ Watcher # Reconcile

Task == Req \cup {Watcher, Reconcile}

VARIABLES
  files,    \* path -> text
  rows,     \* the notes table with its links: path -> [id, text, time, target]
  events,   \* the changes the watcher has not been told of
  task,     \* each task's place and locals
  clock, issued,   \* writes and row ids so far
  crashes

vars == <<files, rows, events, task, clock, issued, crashes>>
db   == <<rows, issued>>
disk == <<files, events, clock>>

Off == [at |-> "off", path |-> Nothing, to |-> Nothing, text |-> Nothing, time |-> 0, row |-> 0,
        todo |-> {}, found |-> <<>>, listed |-> <<>>]

-----------------------------------------------------------------------------
(***************************************************************************)
(* Link resolution: a full path wins, then the first of the notes of that  *)
(* name (resolve_link_target in the migrations).                           *)
(***************************************************************************)
KeysFor(path)    == {path, <<Last(path)>>}
Names(key, path) == path = key \/ (Len(key) = 1 /\ <<Last(path)>> = key)
ResolveAmong(ids, key) ==
  LET named == {p \in DOMAIN ids : key # Nothing /\ Names(key, p)}
      first == IF key \in named THEN key
               ELSE CHOOSE p \in named : \A q \in named : Rank[p] <= Rank[q]
  IN  IF named = {} THEN Nothing ELSE ids[first]
Resolve(key) == ResolveAmong([p \in DOMAIN rows |-> rows[p].id], key)

\* The links of these notes are looked up again.
Relinked(sources) ==
  rows' = [p \in DOMAIN rows |-> IF p \in sources
                                 THEN [rows[p] EXCEPT !.target = Resolve(rows[p].text.key)]
                                 ELSE rows[p]]

-----------------------------------------------------------------------------
Place(t, at) == task[t].at = at
Busy(t)      == ~Place(t, "off")
Goes(t, at)  == task' = [task EXCEPT ![t].at = at]
Begins(t, at, path, text) ==
  task' = [task EXCEPT ![t].at = at, ![t].path = path, ![t].text = text, ![t].todo = @ \ {path}]
\* A request is over; the others have more to look at.
After(t) == IF t \in Req THEN Off
            ELSE [Off EXCEPT !.at = "each", !.todo = task[t].todo, !.found = task[t].found,
                             !.listed = task[t].listed]
Over(t)  == task' = [task EXCEPT ![t] = After(t)]

Init ==
  /\ files = AtFirst /\ events = {} /\ clock = 0 /\ issued = Cardinality(DOMAIN AtFirst)
  /\ \E n \in [DOMAIN AtFirst -> 1..Cardinality(DOMAIN AtFirst)] :
       /\ \A p, q \in DOMAIN AtFirst : n[p] = n[q] => p = q
       /\ \A p, q \in DOMAIN AtFirst : Rank[p] < Rank[q] => n[p] < n[q]
       /\ rows = [p \in DOMAIN AtFirst |->
                    [id |-> n[p], text |-> AtFirst[p], time |-> AtFirst[p].id,
                     target |-> ResolveAmong(n, AtFirst[p].key)]]
  /\ task = [t \in Task |-> Off] /\ crashes = 0

-----------------------------------------------------------------------------
(***************************************************************************)
(* Files change: by a request's first step, or by hand.  The watcher will  *)
(* be told.                                                                *)
(***************************************************************************)
\* A note's file or row, whatever folder has its name: gone, or at another path.
Without(f, path)     == Restrict(f, DOMAIN f \ {path})
Renamed(f, from, to) == IF from \in DOMAIN f THEN Written(Without(f, from), to, f[from]) ELSE f

Wrote(path, text) ==
  /\ clock < MaxWrites /\ clock' = clock + 1
  /\ files' = Written(files, path, text) /\ events' = events \cup {path}
Text(key) == [id |-> clock + 1, key |-> key]

ByHand(path) ==
  /\ clock < MaxWrites
  /\ \/ \E key \in Key : Wrote(path, Text(key))
     \/ /\ path \in DOMAIN files /\ files' = Without(files, path)
        /\ events' = events \cup {path} /\ clock' = clock + 1
  /\ UNCHANGED <<db, task, crashes>>

Save(r, path, key) ==
  /\ ~Busy(r) /\ Wrote(path, Text(key)) /\ Begins(r, "stat", path, Text(key))
  /\ UNCHANGED <<db, crashes>>
Read(r, path) ==
  /\ ~Busy(r) /\ clock < MaxWrites /\ path \in DOMAIN files
  /\ Begins(r, "stat", path, files[path])
  /\ UNCHANGED <<disk, db, crashes>>
Delete(r, path) ==
  /\ ~Busy(r) /\ clock < MaxWrites /\ path \in DOMAIN files
  /\ files' = Without(files, path) /\ events' = events \cup {path} /\ clock' = clock + 1
  /\ Begins(r, "unrow", path, Nothing)
  /\ UNCHANGED <<db, crashes>>
Move(r, path, to) ==
  /\ ~Busy(r) /\ clock < MaxWrites /\ path \in DOMAIN files /\ to \notin DOMAIN files
  /\ files' = Renamed(files, path, to) /\ events' = events \cup {path, to} /\ clock' = clock + 1
  /\ task' = [task EXCEPT ![r] = [Off EXCEPT !.at = "rerow", !.path = path, !.to = to]]
  /\ UNCHANGED <<db, crashes>>

-----------------------------------------------------------------------------
(***************************************************************************)
(* index_note_content, remove_note and rename_note_row, step by step.      *)
(***************************************************************************)
\* Mutant: the watcher indexes nothing it has a row for.
Stats_RowIsEnough(t) ==
  /\ Place(t, "stat")
  /\ IF task[t].path \notin DOMAIN files THEN Over(t)
     ELSE IF t = Watcher /\ task[t].path \in DOMAIN rows THEN Over(t)
     ELSE task' = [task EXCEPT ![t].at = "row", ![t].time = files[task[t].path].id]
  /\ UNCHANGED <<disk, db, crashes>>
\* The file's time, read after its text; and the watcher leaves alone what has the
\* hash that is indexed.
Stats(t) ==
  LET path == task[t].path
  IN  /\ Place(t, "stat")
      /\ IF path \notin DOMAIN files
            \/ (t = Watcher /\ path \in DOMAIN rows /\ rows[path].text = task[t].text)
         THEN Over(t)
         ELSE task' = [task EXCEPT ![t].at = "row", ![t].time = files[path].id]
      /\ UNCHANGED <<disk, db, crashes>>

\* The transaction, with the links not resolved yet.
Indexes(t) ==
  LET path == task[t].path
      new  == path \notin DOMAIN rows
      id   == IF new THEN issued + 1 ELSE rows[path].id
  IN  /\ Place(t, "row")
      /\ rows' = Written(rows, path, [id |-> id, text |-> task[t].text, time |-> task[t].time,
                                      target |-> Nothing])
      /\ issued' = IF new THEN issued + 1 ELSE issued
      /\ task' = [task EXCEPT ![t].at = "outgoing", ![t].row = id]
      /\ UNCHANGED <<disk, crashes>>
ResolvesOutgoing(t) ==
  /\ Place(t, "outgoing") /\ Goes(t, "keys")
  /\ Relinked({p \in DOMAIN rows : rows[p].id = task[t].row})
  /\ UNCHANGED <<disk, issued, crashes>>

Reresolves(t) ==
  LET keys == KeysFor(task[t].path)
              \cup (IF task[t].to = Nothing THEN {} ELSE KeysFor(task[t].to))
  IN  /\ Place(t, "keys") /\ Over(t)
      /\ Relinked({p \in DOMAIN rows : rows[p].text.key \in keys})
      /\ UNCHANGED <<disk, issued, crashes>>

\* Mutant: the links to a removed row keep its id.
Unindexes_Dangling(t) ==
  /\ Place(t, "unrow") /\ Goes(t, "keys")
  /\ rows' = Without(rows, task[t].path)
  /\ UNCHANGED <<disk, issued, crashes>>
\* Mutant: the links to a removed row stay broken.
Unindexes_NoLookup(t) ==
  LET path == task[t].path
      left == Without(rows, path)
  IN  /\ Place(t, "unrow") /\ Over(t)
      /\ rows' = [p \in DOMAIN left |->
                    IF path \in DOMAIN rows /\ rows[p].target = rows[path].id
                    THEN [rows[p] EXCEPT !.target = Nothing] ELSE rows[p]]
      /\ UNCHANGED <<disk, issued, crashes>>
\* The row goes, and with it the targets that name it (ON DELETE SET NULL).
Unindexes(t) ==
  LET path == task[t].path
      left == Without(rows, path)
  IN  /\ Place(t, "unrow") /\ Goes(t, "keys")
      /\ rows' = [p \in DOMAIN left |->
                    IF path \in DOMAIN rows /\ rows[p].target = rows[path].id
                    THEN [rows[p] EXCEPT !.target = Nothing] ELSE rows[p]]
      /\ UNCHANGED <<disk, issued, crashes>>

\* A row already at the new path refuses the update, and the request fails with the
\* file moved.
Reindexes(t) ==
  LET path == task[t].path
      to   == task[t].to
  IN  /\ Place(t, "rerow")
      /\ IF path \in DOMAIN rows /\ to \in DOMAIN rows THEN Over(t) /\ UNCHANGED rows
         ELSE Goes(t, "keys") /\ rows' = Renamed(rows, path, to)
      /\ UNCHANGED <<disk, issued, crashes>>

-----------------------------------------------------------------------------
(***************************************************************************)
(* The watcher takes what it is told in batches.                           *)
(***************************************************************************)
TakesBatch ==
  /\ ~Busy(Watcher) /\ events # {} /\ (Timely => \A t \in Task : ~Busy(t))
  /\ task' = [task EXCEPT ![Watcher] = [Off EXCEPT !.at = "each", !.todo = events]]
  /\ events' = {}
  /\ UNCHANGED <<files, clock, db, crashes>>
Applies ==
  /\ Place(Watcher, "each")
  /\ \/ task[Watcher].todo = {} /\ task' = [task EXCEPT ![Watcher] = Off]
     \/ \E path \in task[Watcher].todo :
          IF path \in DOMAIN files THEN Begins(Watcher, "stat", path, files[path])
          ELSE Begins(Watcher, "unrow", path, Nothing)
  /\ UNCHANGED <<disk, db, crashes>>

(***************************************************************************)
(* The reconcile: a walk of the files, the rows as they are then, each     *)
(* file whose time differs, and the rows that had no file.                 *)
(***************************************************************************)
Scans ==
  /\ Place(Reconcile, "scan")
  /\ task' = [task EXCEPT ![Reconcile].at = "list", ![Reconcile].found = files]
  /\ UNCHANGED <<disk, db, crashes>>
Lists ==
  /\ Place(Reconcile, "list")
  /\ task' = [task EXCEPT ![Reconcile].at = "each", ![Reconcile].listed = rows,
                          ![Reconcile].todo = DOMAIN task[Reconcile].found \cup DOMAIN rows]
  /\ UNCHANGED <<disk, db, crashes>>

Found(path)     == path \in DOMAIN task[Reconcile].found
Unchanged(path) ==
  /\ path \in DOMAIN task[Reconcile].listed
  /\ task[Reconcile].listed[path].time = task[Reconcile].found[path].id
\* Mutant: rows without a file are not looked for.
Reconciles_FilesOnly ==
  LET todo == {p \in task[Reconcile].todo : Found(p)}
  IN  /\ Place(Reconcile, "each")
      /\ \/ todo = {} /\ task' = [task EXCEPT ![Reconcile] = Off]
         \/ \E path \in todo :
              IF Unchanged(path) \/ path \notin DOMAIN files
              THEN task' = [task EXCEPT ![Reconcile].todo = @ \ {path}]
              ELSE Begins(Reconcile, "stat", path, files[path])
      /\ UNCHANGED <<disk, db, crashes>>
Reconciles ==
  LET todo  == task[Reconcile].todo
      onDisk == {p \in todo : Found(p)}
  IN  /\ Place(Reconcile, "each")
      /\ \/ todo = {} /\ task' = [task EXCEPT ![Reconcile] = Off]
         \/ \E path \in onDisk :
              IF Unchanged(path) \/ path \notin DOMAIN files
              THEN task' = [task EXCEPT ![Reconcile].todo = @ \ {path}]
              ELSE Begins(Reconcile, "stat", path, files[path])
         \/ onDisk = {} /\ \E path \in todo : Begins(Reconcile, "unrow", path, Nothing)
      /\ UNCHANGED <<disk, db, crashes>>

\* The process dies and is started again; it is told of no change it missed.
Crash ==
  /\ crashes < MaxCrashes /\ crashes' = crashes + 1
  /\ events' = {} /\ task' = [[t \in Task |-> Off] EXCEPT ![Reconcile].at = "scan"]
  /\ UNCHANGED <<files, clock, db>>

Next ==
  \/ \E p \in NotePath : ByHand(p)
  \/ \E r \in Req, p \in NotePath :
       \/ Read(r, p) \/ Delete(r, p)
       \/ \E key \in Key : Save(r, p, key)
       \/ \E q \in NotePath : Move(r, p, q)
  \/ \E t \in Task :
       \/ Stats(t) \/ Indexes(t) \/ ResolvesOutgoing(t) \/ Reresolves(t)
       \/ Unindexes(t) \/ Reindexes(t)
  \/ TakesBatch \/ Applies \/ Scans \/ Lists \/ Reconciles \/ Crash

Spec == Init /\ [][Next]_vars

-----------------------------------------------------------------------------
(***************************************************************************)
(* Correctness.                                                            *)
(***************************************************************************)
\* Row ids are unique, and a link's target is the id of a row or nothing: the table's
\* keys, through rows that go and come back (migrations/0002_vault_index.sql).
TypeOK ==
  /\ DOMAIN files \cup DOMAIN rows \cup events \subseteq NotePath
  /\ \A p, q \in DOMAIN rows : rows[p].id = rows[q].id => p = q
  /\ \A p \in DOMAIN rows :
       /\ rows[p].id \in 1..issued
       /\ rows[p].target \in {rows[q].id : q \in DOMAIN rows} \cup {Nothing}

Settled == events = {} /\ \A t \in Task : ~Busy(t)
HasRow(p) == p \in DOMAIN rows /\ rows[p].text = files[p]
Indexed == DOMAIN rows = DOMAIN files /\ \A p \in DOMAIN files : HasRow(p)
Linked  == \A p \in DOMAIN rows : rows[p].target = Resolve(rows[p].text.key)

\* When requests, hands and the watcher have come to rest, every note has the row of
\* the text it has, and nothing else has one, whatever order they wrote in: the last
\* change to a file is looked at after the requests that overlapped it (watch.rs:1-30).
IndexCatchesUp == Settled /\ crashes = 0 => Indexed

\* And every link points at the note its key names, or at none: each row that comes,
\* goes or moves is followed by a lookup of the keys it answers to (index.rs:332-354).
LinksHeal == Settled /\ crashes = 0 => Linked

\* After a crash the reconcile leaves a row for every note and no other, of the text
\* of the note unless its time hides the difference (index.rs:467-520).
ReconcileFindsAll ==
  Settled => /\ DOMAIN rows = DOMAIN files
             /\ \A p \in DOMAIN files : HasRow(p) \/ rows[p].time = files[p].id

\* The reconcile is "the safety net" for "a crash between the rename and the database
\* update", and "after it runs the index is correct by definition" (index.rs:467-472).
\* The code does not give it: a row whose links were not resolved yet, or that has an
\* old text under the new time, is taken for unchanged.
CorrectAfterReconcile == Settled => Indexed /\ Linked
=============================================================================
