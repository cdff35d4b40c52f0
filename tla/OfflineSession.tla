--------------------------- MODULE OfflineSession ---------------------------
(***************************************************************************)
(* A stretch of work with no connection, as the offline arms of            *)
(* crates/ui/src/vault.rs do it: every operation changes the cached notes  *)
(* and the cached tree at once and joins the outbox.  The server stands    *)
(* still meanwhile; what replaying the outbox against it would do is the   *)
(* fold of its handlers (crates/server/src/vault/store.rs) over the queue. *)
(***************************************************************************)
EXTENDS VaultFiles

CONSTANTS
  NotePath, FolderPath,   \* the paths used, as sequences of names
  OnServer,               \* the notes and folders the server has
  MaxOps                  \* bound: operations done offline

ASSUME OnServerAssumption == OnServer \subseteq NotePath \cup FolderPath

VARIABLES
  cache,   \* cached notes: path -> [text, hash]
  tree,    \* the paths in the cached tree
  outbox,
  made     \* operations done so far; a text is the number of the one that wrote it

vars == <<cache, tree, outbox, made>>

-----------------------------------------------------------------------------
(***************************************************************************)
(* The server, and the replay of a queue against it.                       *)
(***************************************************************************)
Server == [p \in OnServer |-> IF p \in FolderPath THEN Folder ELSE 0]

\* Each conflict answered with "keep mine", which writes the text over the token.
Replayed(ops) ==
  LET Kept(v, op) == IF op.kind = "save" THEN Put(v, op.path, op.text) ELSE Effect(v, op)
  IN  FoldLeft(Kept, Server, ops)

\* No write of a note meets a conflict or a refusal.
WritesReplayClean(ops) ==
  \A n \in DOMAIN ops :
     ops[n].kind \in {"save", "create", "delete"}
     => LET v == Replayed(SubSeq(ops, 1, n - 1))
        IN  Accepted(v, ops[n]) \/ AlreadyDone(v, ops[n])

-----------------------------------------------------------------------------
(***************************************************************************)
(* The device.  A name the person picks is free in the tree (a bound: the  *)
(* interface does not check it offline).                                   *)
(***************************************************************************)
Init ==
  /\ \E opened \in SUBSET (NotePath \cap OnServer) :
        cache = [p \in opened |-> [text |-> 0, hash |-> 0]]
  /\ tree = OnServer /\ outbox = <<>> /\ made = 0

Enqueue(op) == made < MaxOps /\ made' = made + 1 /\ outbox' = Enqueued(outbox, op)

PutNote(path, text, hash) == cache' = Written(cache, path, [text |-> text, hash |-> hash])
RenameNotes(from, to)     == cache' = Relocated(cache, from, to)
RemoveUnder(path)         == cache' = Removed(cache, path)

\* The cached tree.  The way to a folder is made as it is walked; a subtree taken
\* out leaves the folders it was in.
FolderMut(nodes, path) == nodes \cup {SubSeq(path, 1, n) : n \in 1..Len(path)}
InsertFolder(path)     == FolderMut(tree, path)
InsertNote(path)       == FolderMut(tree, Front(path)) \cup {path}
Subtree(path)          == {p \in tree : Under(p, path)}
RebaseNode(nodes, from, to) == {Rebase(p, from, to) : p \in nodes}
TreeRename(from, to) ==
  tree' = FolderMut(tree \ Subtree(from), Front(to)) \cup RebaseNode(Subtree(from), from, to)
TreeRemove(path) == tree' = tree \ Subtree(path)

DoSave(path) ==
  /\ path \in DOMAIN cache
  /\ PutNote(path, made + 1, cache[path].hash)
  /\ Enqueue(SaveNote(path, made + 1, cache[path].hash))
  /\ UNCHANGED tree
DoCreate(path) ==
  /\ path \notin tree
  /\ PutNote(path, made + 1, Nothing)
  /\ tree' = InsertNote(path)
  /\ Enqueue(CreateNote(path, made + 1))
DoDelete(path) ==
  /\ path \in tree
  /\ RemoveUnder(path) /\ TreeRemove(path) /\ Enqueue(DeleteNote(path))
DoMove(from, to) ==
  /\ from \in tree /\ to \notin tree
  /\ RenameNotes(from, to) /\ TreeRename(from, to) /\ Enqueue(MoveNote(from, to))
DoMoveFolder(from, to) ==
  /\ from \in tree /\ to \notin tree /\ ~IsWithin(to, from)
  /\ RenameNotes(from, to) /\ TreeRename(from, to) /\ Enqueue(MoveFolder(from, to))
DoCreateFolder(path) ==
  /\ path \notin tree /\ Parents(path) \subseteq tree
  /\ tree' = InsertFolder(path)
  /\ Enqueue(CreateFolder(path)) /\ UNCHANGED cache
DoDeleteFolder(path) ==
  /\ path \in tree
  /\ RemoveUnder(path) /\ TreeRemove(path) /\ Enqueue(DeleteFolder(path))

Next ==
  \/ \E p \in NotePath : DoSave(p) \/ DoCreate(p) \/ DoDelete(p)
  \/ \E p, q \in NotePath : DoMove(p, q)
  \/ \E p \in FolderPath : DoCreateFolder(p) \/ DoDeleteFolder(p)
  \/ \E p, q \in FolderPath : DoMoveFolder(p, q)

Spec == Init /\ [][Next]_vars

-----------------------------------------------------------------------------
(***************************************************************************)
(* Correctness.                                                            *)
(***************************************************************************)

\* Replaying the compacted queue gives the server exactly the notes and texts
\* this device shows, and no folder it does not show (queue.rs coalesce).
\* Compaction may lose a folder: the create that a delete cancels would also have
\* made the folders on the way to the note.
QueueReachesView ==
  LET v == Replayed(outbox)
  IN  /\ DOMAIN v \subseteq tree /\ DOMAIN v \cap NotePath = tree \cap NotePath
      /\ \A p \in DOMAIN cache : v[p] = cache[p].text

\* A device that is alone with its vault and has renamed nothing meets no conflict
\* on replay: each queued save holds the base hash the server has by then, though
\* compaction dropped the saves between (queue.rs coalesce, the SaveNote arm).
UnmovedReplaysClean ==
  (\A op \in ToSet(outbox) : op.kind \notin {"move", "moveFolder"})
  => WritesReplayClean(outbox)

\* A device alone with its vault meets no conflict on replay at all: a conflict
\* "means two people - or one person on two machines - wrote different things into
\* the same note" (sync.rs:9-11).  The code does not give it: a save after a rename
\* keeps the base hash of before it, which an earlier queued save of the same note
\* has made stale by the time it is sent.
OwnWorkReplaysClean == WritesReplayClean(outbox)

\* Pruning the cache to a tree the server sent before the queue is replayed drops
\* nothing this device is the only one to have (cache.rs is_protected).
NothingOfOursPruned ==
  \A p \in DOMAIN cache : p \in OnServer \/ IsProtected(p, outbox)
=============================================================================
