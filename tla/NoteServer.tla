---------------------------- MODULE NoteServer -----------------------------
(***************************************************************************)
(* The note requests as the server runs them: saving, creating, deleting   *)
(* and moving (crates/server/src/routes/notes.rs) are sequences of file    *)
(* operations (crates/server/src/vault/store.rs) with an await at each,    *)
(* where another request's steps can fall.  A write is a temporary file    *)
(* renamed into place, so it is one step; a file a step expects and does   *)
(* not find ends the request.                                              *)
(***************************************************************************)
EXTENDS VaultFiles, FiniteSets

CONSTANTS
  NotePath, Linked,   \* the paths of notes; those a text can link to
  Start,              \* the notes at first: path -> text
  Req, None,
  MaxRequests, MaxCrashes

VARIABLES
  files,    \* path -> [id, link]: the text's name and the note it links to
  trash,    \* the texts moved to the trash
  req,      \* each request's place: [at, op, seen, todo]
  made,     \* requests so far; a text is named by the one that brought it
  crashes,
  overtaken \* ghost: the requests for which a note has changed since they looked at it

vars == <<files, trash, req, made, crashes, overtaken>>

\* The texts of Start have the names -1 and 0.
Text == [id : -1..MaxRequests, link : NotePath \cup {Nothing}]
Ops  == [kind : {"save", "create", "delete", "move"}, path : NotePath, to : NotePath,
         text : Text \cup {Nothing}, base : Text \cup {Nothing}, id : {0}, failed : {FALSE}]

\* A note is a file, so no note lies within another.
ASSUME ServerAssumption ==
  /\ NotePath \subseteq Seq(STRING) /\ \A p, q \in NotePath : ~IsWithin(p, q)
  /\ DOMAIN Start \subseteq NotePath /\ Start \in [DOMAIN Start -> Text] /\ Linked \subseteq NotePath
  /\ MaxRequests \in Nat /\ Nothing \notin Text /\ None \notin Ops

Off == [at |-> "off", op |-> None, seen |-> Nothing, todo |-> {}]

Init ==
  /\ files = Start /\ trash = {} /\ req = [r \in Req |-> Off] /\ made = 0 /\ crashes = 0
  /\ overtaken = {}

-----------------------------------------------------------------------------
Place(r, at)      == req[r].at = at
Goes(r, at)       == req' = [req EXCEPT ![r].at = at]
Ends(r)           == req' = [req EXCEPT ![r] = Off]
Exists(path)      == path \in DOMAIN files
LinkingTo(path)   == {n \in DOMAIN files : files[n].link = path}

\* The token of a save is that of the file as it is, or of something older.
Asked ==
  LET texts == [id : {made + 1}, link : Linked \cup {Nothing}]
  IN  {SaveNote(p, t, b) : p \in NotePath, t \in texts, b \in {Nothing}}
      \cup {SaveNote(p, t, files[p]) : p \in DOMAIN files, t \in texts}
      \cup {CreateNote(p, t) : p \in NotePath, t \in texts}
      \cup {DeleteNote(p) : p \in NotePath}
      \cup {MoveNote(p, q) : p \in Linked, q \in NotePath}
FirstStep(op) == IF op.kind = "move" THEN "from" ELSE "exists"

Arrive(r, op) ==
  /\ Place(r, "off") /\ made < MaxRequests /\ made' = made + 1
  /\ op.kind = "move" => op.path # op.to
  /\ req' = [req EXCEPT ![r] = [Off EXCEPT !.at = FirstStep(op), !.op = op]]
  /\ UNCHANGED <<files, trash, crashes>>

\* store::exists, and what each handler makes of the answer.
\* Mutant: a move does not ask whether its target is free.
Looks_NotTo(r) ==
  /\ Place(r, "from")
  /\ IF Exists(req[r].op.path) THEN Goes(r, "rename") ELSE Ends(r)
  /\ UNCHANGED <<files, trash, made, crashes>>
Looks(r) ==
  LET op == req[r].op
  IN  /\ \/ Place(r, "exists") /\ op.kind = "save"
            /\ Goes(r, IF Exists(op.path) THEN "compare" ELSE "write")
         \/ Place(r, "exists") /\ op.kind = "create"
            /\ IF Exists(op.path) THEN Ends(r) ELSE Goes(r, "write")
         \/ Place(r, "exists") /\ op.kind = "delete"
            /\ IF Exists(op.path) THEN Goes(r, "trash") ELSE Ends(r)
         \/ Place(r, "from") /\ IF Exists(op.path) THEN Goes(r, "to") ELSE Ends(r)
         \/ Place(r, "to") /\ IF Exists(op.to) THEN Ends(r) ELSE Goes(r, "rename")
      /\ UNCHANGED <<files, trash, made, crashes>>

\* The file is read and its hash compared with the If-Match header.
\* Mutant: any header will do.
Compares_Always(r) ==
  /\ Place(r, "compare") /\ Goes(r, "write")
  /\ UNCHANGED <<files, trash, made, crashes>>
Compares(r) ==
  /\ Place(r, "compare")
  /\ IF Exists(req[r].op.path) /\ files[req[r].op.path] = req[r].op.base
     THEN Goes(r, "write") ELSE Ends(r)
  /\ UNCHANGED <<files, trash, made, crashes>>

Writes(r) ==
  /\ Place(r, "write") /\ files' = Written(files, req[r].op.path, req[r].op.text) /\ Ends(r)
  /\ UNCHANGED <<trash, made, crashes>>

ToTrash(r) ==
  /\ Place(r, "trash") /\ Ends(r)
  /\ LET path == req[r].op.path
     IN  IF Exists(path) THEN files' = Removed(files, path) /\ trash' = trash \cup {files[path]}
         ELSE UNCHANGED <<files, trash>>
  /\ UNCHANGED <<made, crashes>>

\* The rename, over whatever is there by now.
Renames(r) ==
  /\ Place(r, "rename")
  /\ IF Exists(req[r].op.path)
     THEN files' = Relocated(files, req[r].op.path, req[r].op.to) /\ Goes(r, "sources")
     ELSE Ends(r) /\ UNCHANGED files
  /\ UNCHANGED <<trash, made, crashes>>

\* rewrite_links_after_move: the notes whose links named the old path, then each is
\* read, and written back if it still names it.
FindsSources(r) ==
  /\ Place(r, "sources")
  /\ req' = [req EXCEPT ![r].at = "next", ![r].todo = LinkingTo(req[r].op.path)]
  /\ UNCHANGED <<files, trash, made, crashes>>
\* Mutant: the last of them is left.
ReadsSource_StopsShort(r) ==
  /\ Place(r, "next")
  /\ \/ Cardinality(req[r].todo) <= 1 /\ Ends(r)
     \/ \E n \in req[r].todo :
          IF n \in LinkingTo(req[r].op.path)
          THEN req' = [req EXCEPT ![r].at = "relink", ![r].todo = @ \ {n},
                                  ![r].seen = [path |-> n, text |-> files[n]]]
          ELSE req' = [req EXCEPT ![r].todo = @ \ {n}]
  /\ UNCHANGED <<files, trash, made, crashes>>
ReadsSource(r) ==
  /\ Place(r, "next")
  /\ \/ req[r].todo = {} /\ Ends(r)
     \/ \E n \in req[r].todo :
          IF n \in LinkingTo(req[r].op.path)
          THEN req' = [req EXCEPT ![r].at = "relink", ![r].todo = @ \ {n},
                                  ![r].seen = [path |-> n, text |-> files[n]]]
          ELSE req' = [req EXCEPT ![r].todo = @ \ {n}]
  /\ UNCHANGED <<files, trash, made, crashes>>
WritesSource(r) ==
  /\ Place(r, "relink") /\ Goes(r, "next")
  /\ files' = Written(files, req[r].seen.path, [req[r].seen.text EXCEPT !.link = req[r].op.to])
  /\ UNCHANGED <<trash, made, crashes>>

\* The process dies; the files stay as they are.
Crash ==
  /\ crashes < MaxCrashes /\ crashes' = crashes + 1
  /\ req' = [r \in Req |-> Off] /\ UNCHANGED <<files, trash, made>>

-----------------------------------------------------------------------------
\* The notes whose state a request has looked at and goes by: the one to compare or to
\* write, the name to rename to, the notes left to relink.
Following(q) == q.at \in {"next", "relink"}
Watched(q) ==
  CASE q.at \in {"compare", "write"} -> {q.op.path}
    [] q.at = "rename" -> {q.op.to}
    [] Following(q) -> LinkingTo(q.op.path)
    [] OTHER -> {}
\* Another request's step overtakes it by changing one of them; to look again, or to
\* end, makes good for it, but the links are looked for only once.
Overtakes ==
  overtaken' = {r \in Req :
    \/ req'[r] = req[r] /\ (\/ r \in overtaken
                            \/ Changed(files, files') \cap (Watched(req[r]) \cup Watched(req[r])') # {})
    \/ r \in overtaken /\ Following(req[r]) /\ Following(req'[r])}

Step ==
  \/ \E r \in Req : \E op \in Asked : Arrive(r, op)
  \/ \E r \in Req :
       \/ Looks(r) \/ Compares(r) \/ Writes(r) \/ ToTrash(r) \/ Renames(r)
       \/ FindsSources(r) \/ ReadsSource(r) \/ WritesSource(r)
  \/ Crash
Next == Step /\ Overtakes

Spec == Init /\ [][Next]_vars

-----------------------------------------------------------------------------
(***************************************************************************)
(* Correctness.                                                            *)
(***************************************************************************)
Names == {files[p].id : p \in DOMAIN files} \cup {t.id : t \in trash}

\* The note a request is about to write, and whether it carries the token of that text.
Replaces(r, p) == \/ Place(r, "write") /\ p = req[r].op.path
                  \/ Place(r, "rename") /\ p = req[r].op.to
                  \/ Place(r, "relink") /\ p = req[r].seen.path
CarriesToken(r, text) ==
  Place(r, "write") /\ req[r].op.kind = "save" /\ req[r].op.base = text

\* The name of a text disappears from the vault and its trash only by a save that
\* carries the token of it, or by a request that another has overtaken between its
\* look and its write, and only at the note it writes: a concurrent edit "becomes a
\* conflict you resolve rather than silent data loss" (README.md:244-245;
\* routes/notes.rs:56-59), but for that moment.
NothingDestroyed ==
  [][\A id \in Names : id \in Names' \/
       \E r \in Req, p \in DOMAIN files :
         /\ req'[r] # req[r] /\ Replaces(r, p) /\ files[p].id = id
         /\ r \in overtaken \/ CarriesToken(r, files[p])]_vars

\* The same without the moment, as the two texts above have it.
SavesAreOptimistic ==
  [][\A id \in Names : id \in Names' \/
       \E r \in Req, p \in DOMAIN files :
         /\ req'[r] # req[r] /\ Replaces(r, p) /\ files[p].id = id
         /\ CarriesToken(r, files[p])]_vars

\* What each request, by its place, still asks for, and what links it is following.
asked == [r \in Req |-> IF req[r].at \in {"off", "sources", "next", "relink"}
                        THEN None ELSE req[r].op]
moved == [r \in Req |-> IF req[r].at \in {"sources", "next", "relink"}
                        THEN req[r].op ELSE None]
Atomic == INSTANCE AtomicVault WITH asked <- asked, moved <- moved
\* Requests on any notes, in any overlap, do what they would do at once, or are
\* refused, and a move follows every link; a crash alone cuts them off, and one that is
\* overtaken alone goes by what it saw: the steps of routes/notes.rs implement
\* AtomicVault.
IsAtomic == Atomic!Spec
=============================================================================
