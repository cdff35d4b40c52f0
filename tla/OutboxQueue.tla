---------------------------- MODULE OutboxQueue ----------------------------
(***************************************************************************)
(* The offline outbox as data: the operations of                           *)
(* crates/ui/src/offline/queue.rs, the rules by which one touches a path,  *)
(* the compaction applied on every enqueue, and the rule by which a queued *)
(* operation protects a cached note from pruning.                          *)
(*                                                                         *)
(* A path is the sequence of its components.  An operation is a record: a  *)
(* create or delete has to = path and the fields it does not use are       *)
(* Nothing.                                                                *)
(***************************************************************************)
EXTENDS Naturals, Sequences, SequencesExt

CONSTANT Nothing   \* an unused field, and the empty hash

Write(kind, path, text, base) ==
  [kind |-> kind, path |-> path, to |-> path, text |-> text, base |-> base,
   id |-> 0, failed |-> FALSE]
SaveNote(path, text, base) == Write("save", path, text, base)
CreateNote(path, text)     == Write("create", path, text, Nothing)
DeleteNote(path)           == Write("delete", path, Nothing, Nothing)
CreateFolder(path)         == Write("newFolder", path, Nothing, Nothing)
DeleteFolder(path)         == Write("deleteFolder", path, Nothing, Nothing)
MoveNote(from, to)   == [Write("move", from, Nothing, Nothing) EXCEPT !.to = to]
MoveFolder(from, to) == [Write("moveFolder", from, Nothing, Nothing) EXCEPT !.to = to]

\* paths::is_within and paths::rebase.
IsWithin(path, folder) == IsStrictPrefix(folder, path)
Under(path, root)      == path = root \/ IsWithin(path, root)
Rebase(path, from, to) == to \o SubSeq(path, Len(from) + 1, Len(path))

Touches(op, path) ==
  \/ op.kind \in {"create", "save", "delete", "newFolder"} /\ op.path = path
  \/ op.kind = "move" /\ path \in {op.path, op.to}
  \/ op.kind = "deleteFolder" /\ Under(path, op.path)
  \/ op.kind = "moveFolder" /\ (Under(path, op.path) \/ Under(path, op.to))

ChangesIdentity(op) == op.kind \in {"move", "moveFolder", "deleteFolder"}

\* How many operations at the head of the queue lie at or before the last one
\* that changed which file the path is.
SegmentStart(ops, path) ==
  SelectLastInSeq(ops, LAMBDA op : ChangesIdentity(op) /\ Touches(op, path))

\* The last operation on the path, or 0.
LastTouching(ops, path) == SelectLastInSeq(ops, LAMBDA op : Touches(op, path))

\* Mutant: the base hash is that of the text the save replaces.
MergeSave_LaterBase(ops, op) ==
  LET at == LastTouching(ops, op.path)
  IN  IF at > SegmentStart(ops, op.path) /\ ops[at].kind \in {"save", "create"}
      THEN [ops EXCEPT ![at].text = op.text, ![at].base = ops[at].text]
      ELSE Append(ops, op)

\* A save merges into the save or create it follows, which keeps its base hash.
MergeSave(ops, op) ==
  LET at == LastTouching(ops, op.path)
  IN  IF at > SegmentStart(ops, op.path) /\ ops[at].kind \in {"save", "create"}
      THEN [ops EXCEPT ![at].text = op.text, ![at].failed = FALSE]
      ELSE Append(ops, op)

\* A queue without some of its operations, in the order it has.
LeavingOut(ops, gone) ==
  FoldLeft(LAMBDA kept, op : IF op \in gone THEN kept ELSE Append(kept, op), <<>>, ops)

\* Mutant: the delete is dropped whenever it cancels a write.
CancelWrites_DropsDelete(ops, op) ==
  LET start   == SegmentStart(ops, op.path)
      segment == SubSeq(ops, start + 1, Len(ops))
      written == {q \in ToSet(segment) : q.path = op.path /\ q.kind \in {"save", "create"}}
      rest    == SubSeq(ops, 1, start) \o LeavingOut(segment, written)
  IN  IF written # {} THEN rest ELSE Append(rest, op)

\* A delete cancels the writes before it, and itself with the create.
CancelWrites(ops, op) ==
  LET start   == SegmentStart(ops, op.path)
      segment == SubSeq(ops, start + 1, Len(ops))
      written == {q \in ToSet(segment) : q.path = op.path /\ q.kind \in {"save", "create"}}
      rest    == SubSeq(ops, 1, start) \o LeavingOut(segment, written)
  IN  IF \E q \in written : q.kind = "create" THEN rest ELSE Append(rest, op)

Compacted(out, op) == CASE op.kind = "save"   -> MergeSave(out, op)
                        [] op.kind = "delete" -> CancelWrites(out, op)
                        [] OTHER              -> Append(out, op)
Coalesce(ops) == FoldLeft(Compacted, <<>>, ops)

\* Mutants: an id is the place in the queue; every change to the path is dropped.
NextId_Len(ops) == Len(ops) + 1
Dropped_Path(ops, id) ==
  LeavingOut(ops, {op \in ToSet(ops) : \E n \in DOMAIN ops : ops[n].id = id /\ ops[n].path = op.path})

\* cache::enqueue: the next id is one above the largest queued.
NextId(ops) == 1 + Max({0} \cup {op.id : op \in ToSet(ops)})
Enqueued(ops, op) == Coalesce(Append(ops, [op EXCEPT !.id = NextId(ops)]))
Dropped(ops, id) == LeavingOut(ops, {op \in ToSet(ops) : op.id = id})
Marked(ops, id)  == [n \in DOMAIN ops |-> IF ops[n].id = id
                                          THEN [ops[n] EXCEPT !.failed = TRUE] ELSE ops[n]]

\* Mutant: a folder move protects the place the notes left.
IsProtected_From(path, ops) ==
  \E op \in ToSet(ops) :
     \/ op.kind \in {"create", "save"} /\ op.path = path
     \/ op.kind = "move" /\ op.to = path
     \/ op.kind = "moveFolder" /\ Under(path, op.path)

\* A cached note a queued operation still needs.
IsProtected(path, ops) ==
  \E op \in ToSet(ops) :
     \/ op.kind \in {"create", "save"} /\ op.path = path
     \/ op.kind = "move" /\ op.to = path
     \/ op.kind = "moveFolder" /\ Under(path, op.to)
=============================================================================
