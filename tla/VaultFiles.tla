---------------------------- MODULE VaultFiles -----------------------------
(***************************************************************************)
(* The vault's files as one request sees them, when requests do not        *)
(* overlap: what the handlers of crates/server/src/routes/notes.rs and     *)
(* tree.rs answer and leave behind, through crates/server/src/vault/store. *)
(*                                                                         *)
(* A vault is a function from the paths that exist to a text or Folder.  A *)
(* text stands for its content hash, which is the token of a save.         *)
(***************************************************************************)
EXTENDS Integers, Sequences, SequencesExt, Functions, OutboxQueue

Folder == -1

Parents(path) == {SubSeq(path, 1, n) : n \in 1..(Len(path) - 1)}

\* One entry written, entries moved with everything beneath them (over what is
\* there), an entry removed with everything beneath it.
Written(f, path, what) ==
  [p \in DOMAIN f \cup {path} |-> IF p = path THEN what ELSE f[p]]
Relocated(f, from, to) ==
  LET moved == {p \in DOMAIN f : Under(p, from)}
      new   == {Rebase(p, from, to) : p \in moved}
  IN  [q \in (DOMAIN f \ moved) \cup new |-> IF q \in new THEN f[Rebase(q, to, from)] ELSE f[q]]
Removed(f, path) == Restrict(f, {p \in DOMAIN f : ~Under(p, path)})

\* The paths at which two vaults differ.
Changed(f, g) == {p \in DOMAIN f \cup DOMAIN g :
                    ~(p \in DOMAIN f \cap DOMAIN g /\ f[p] = g[p])}

\* The folders on the way to a path come with it.
WithParents(v, path) ==
  [p \in DOMAIN v \cup Parents(path) |-> IF p \in DOMAIN v THEN v[p] ELSE Folder]
Put(v, path, what)  == WithParents(Written(v, path, what), path)
Rename(v, from, to) == WithParents(Relocated(v, from, to), to)

\* A folder that is there already is left as it is.
WithFolder(v, path) == IF path \in DOMAIN v THEN v ELSE Put(v, path, Folder)

\* What the server accepts: a save whose token is current or that finds nothing at
\* its path, a create or a move onto a free name, the removal of what is there.
Accepted(v, op) ==
  CASE op.kind = "save"   -> op.path \in DOMAIN v => v[op.path] = op.base
    [] op.kind = "create" -> op.path \notin DOMAIN v
    [] op.kind \in {"delete", "deleteFolder"} -> op.path \in DOMAIN v
    [] op.kind = "newFolder" -> TRUE
    [] op.kind \in {"move", "moveFolder"} ->
         op.path \in DOMAIN v /\ op.to \notin DOMAIN v /\ ~IsWithin(op.to, op.path)

\* A refused operation that the server shows to be done already: the text is there,
\* the note to delete is not.
AlreadyDone(v, op) ==
  \/ op.kind \in {"save", "create"} /\ op.path \in DOMAIN v /\ v[op.path] = op.text
  \/ op.kind = "delete" /\ op.path \notin DOMAIN v

\* What an accepted operation leaves; a refused one leaves the vault alone.
Effect(v, op) ==
  IF ~Accepted(v, op) THEN v
  ELSE CASE op.kind \in {"save", "create"} -> Put(v, op.path, op.text)
         [] op.kind = "newFolder" -> WithFolder(v, op.path)
         [] op.kind \in {"delete", "deleteFolder"} -> Removed(v, op.path)
         [] op.kind \in {"move", "moveFolder"} -> Rename(v, op.path, op.to)
=============================================================================
