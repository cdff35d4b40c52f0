-------------------------- MODULE NoteServer_proof --------------------------
(***************************************************************************)
(* Theorems about NoteServer, for every vault, number of requests and      *)
(* number of crashes, in whatever way the requests overlap.                *)
(***************************************************************************)
EXTENDS NoteServer, SequenceTheorems, TLAPS

-----------------------------------------------------------------------------
(***************************************************************************)
(* What VaultFiles does to notes none of which lies within another: each   *)
(* operation touches the note it names and no other.                       *)
(***************************************************************************)

\* A set of paths of notes.
NotesApart(N) == \A p, q \in N : ~IsWithin(p, q)

LEMMA OnlyItself ==
  ASSUME NEW N, NotesApart(N), NEW p \in N, NEW q \in N
  PROVE  Under(p, q) <=> p = q
  BY DEF NotesApart, Under

LEMMA RebasedItself ==
  ASSUME NEW S, NEW p \in Seq(S), NEW q \in Seq(S)
  PROVE  Rebase(p, p, q) = q
<1>1. SubSeq(p, Len(p) + 1, Len(p)) = << >>
  BY SubSeqEmpty, LenProperties
<1>2. QED
  BY <1>1, ConcatEmptySeq DEF Rebase

LEMMA ParentIsOutside ==
  ASSUME NEW N, NotesApart(N), NEW S, N \subseteq Seq(S), NEW p \in N
  PROVE  Parents(p) \cap N = {}
<1>1. SUFFICES ASSUME NEW q \in Parents(p), q \in N PROVE FALSE
  OBVIOUS
<1>2. PICK n \in 1..(Len(p) - 1) : q = SubSeq(p, 1, n)
  BY <1>1 DEF Parents
<1>3. /\ q \in Seq(S) /\ Len(q) = n /\ n <= Len(p) /\ q # p
  BY <1>2, LenProperties, SubSeqProperties
<1>4. SubSeq(q, 1, Len(q)) = SubSeq(p, 1, Len(q))
  BY <1>2, <1>3, SubSeqFull
<1>5. IsWithin(p, q)
  BY <1>3, <1>4, LenProperties DEF IsWithin, IsStrictPrefix, IsPrefix
<1>6. QED
  BY <1>1, <1>5 DEF NotesApart

\* g is f without p, f with the text at from at to instead, f as it is.
WithoutNote(g, f, p) == DOMAIN g = DOMAIN f \ {p} /\ \A q \in DOMAIN g : g[q] = f[q]
WithNoteMoved(g, f, from, to) ==
  /\ DOMAIN g = (DOMAIN f \ {from}) \cup {to} /\ g[to] = f[from]
  /\ \A q \in DOMAIN f \ {from, to} : g[q] = f[q]
SameNotes(g, f, N) == DOMAIN g \cap N = DOMAIN f /\ \A q \in DOMAIN f : g[q] = f[q]

\* A note renamed leaves its path for the new one, over whatever note is there.
LEMMA MovedNote ==
  ASSUME NEW N, NotesApart(N), NEW S, N \subseteq Seq(S),
         NEW f, DOMAIN f \subseteq N, NEW from \in DOMAIN f, NEW to \in N
  PROVE  WithNoteMoved(Relocated(f, from, to), f, from, to)
<1> DEFINE gone == {p \in DOMAIN f : Under(p, from)}
           new  == {Rebase(p, from, to) : p \in gone}
<1>1. gone = {from}
  BY OnlyItself
<1>2. from \in Seq(S) /\ to \in Seq(S)
  OBVIOUS
<1>3. Rebase(from, from, to) = to /\ Rebase(to, to, from) = from
  BY <1>2, RebasedItself
<1>4. new = {to}
  BY <1>1, <1>3
<1> HIDE DEF gone, new
<1>5. Relocated(f, from, to) =
        [q \in (DOMAIN f \ gone) \cup new |-> IF q \in new THEN f[Rebase(q, to, from)] ELSE f[q]]
  BY DEF Relocated, gone, new
<1>6. QED
  BY <1>1, <1>3, <1>4, <1>5 DEF WithNoteMoved

\* A note removed is the only one gone.
LEMMA RemovedNote ==
  ASSUME NEW N, NotesApart(N), NEW f, DOMAIN f \subseteq N, NEW path \in N
  PROVE  WithoutNote(Removed(f, path), f, path)
<1>1. {p \in DOMAIN f : ~Under(p, path)} = DOMAIN f \ {path}
  BY OnlyItself
<1>2. QED
  BY <1>1 DEF Removed, Restrict, WithoutNote

\* The folders that come with a path are no notes.
LEMMA ParentsAddNoNote ==
  ASSUME NEW N, NotesApart(N), NEW S, N \subseteq Seq(S),
         NEW f, DOMAIN f \subseteq N, NEW path \in N
  PROVE  SameNotes(WithParents(f, path), f, N)
<1>1. DOMAIN WithParents(f, path) \cap N = DOMAIN f
  BY ParentIsOutside DEF WithParents
<1>2. QED
  BY <1>1 DEF WithParents, SameNotes

-----------------------------------------------------------------------------
(***************************************************************************)
(* The inductive invariant.                                                *)
(***************************************************************************)
Source  == [path : NotePath, text : Text]
Request == [at : {"off", "exists", "compare", "write", "trash", "from", "to", "rename", "sources",
                  "next", "relink"},
            op : Ops \cup {None}, seen : Source \cup {Nothing}, todo : SUBSET NotePath]
Active(r) == req[r].at # "off"
Moving    == {"from", "to", "rename", "sources", "next", "relink"}

\* A request is at a place of its kind, with what the kind needs.
Fits(q) == q.at # "off" =>
             /\ q.op \in Ops
             /\ q.op.kind \in {"save", "create"} => q.op.text \in Text
             /\ q.op.kind = "move" => q.op.path # q.op.to
             /\ q.at = "compare" => q.op.kind = "save"
             /\ q.at = "write" => q.op.kind \in {"save", "create"}
             /\ q.at = "trash" => q.op.kind = "delete"
             /\ q.at = "exists" => q.op.kind \in {"save", "create", "delete"}
             /\ q.at \in Moving => q.op.kind = "move"
             /\ q.at = "relink" => q.seen \in Source /\ q.seen.text.link = q.op.path

\* What a request has looked at is as it was.
Ready(q) == /\ q.at = "compare" => q.op.path \in DOMAIN files
            /\ q.at = "write" => Accepted(files, q.op)
            /\ q.at = "rename" => q.op.to \notin DOMAIN files
            /\ q.at = "next" => LinkingTo(q.op.path) \subseteq q.todo
            /\ q.at = "relink" => /\ LinkingTo(q.op.path) \subseteq q.todo \cup {q.seen.path}
                                  /\ q.seen.path \in DOMAIN files
                                  /\ files[q.seen.path] = q.seen.text

Types == /\ DOMAIN files \subseteq NotePath /\ files \in [DOMAIN files -> Text]
         /\ made \in 0..MaxRequests /\ req \in [Req -> Request]
         /\ \A r \in Req : Fits(req[r])

\* Only a request that goes by what it has looked at can be overtaken.
OvertakenLooked == /\ overtaken \subseteq Req
                   /\ \A r \in overtaken : req[r].at \in {"compare", "write", "rename", "next", "relink"}
\* What holds of each request that is not.
AllReady == \A r \in Req \ overtaken : Ready(req[r])

IInv == Types /\ OvertakenLooked /\ AllReady

-----------------------------------------------------------------------------
(***************************************************************************)
(* A request that no step overtakes has what it looked at as it was.       *)
(***************************************************************************)
LEMMA Unchanged ==
  ASSUME NEW f, NEW g, NEW p, p \notin Changed(f, g)
  PROVE  (p \in DOMAIN f <=> p \in DOMAIN g) /\ (p \in DOMAIN f => f[p] = g[p])
  BY DEF Changed

LEMMA SameIsUnchanged ==
  ASSUME NEW f
  PROVE  Changed(f, f) = {}
  BY DEF Changed

\* The links that lead to a note are of the same notes, which are as they were.
LEMMA SameLinks ==
  ASSUME NEW path,
         Changed(files, files') \cap (LinkingTo(path) \cup LinkingTo(path)') = {}
  PROVE  /\ LinkingTo(path)' = LinkingTo(path)
         /\ \A n \in LinkingTo(path) : n \in DOMAIN files' /\ files'[n] = files[n]
<1>1. ASSUME NEW n \in LinkingTo(path)
      PROVE  n \in DOMAIN files' /\ files'[n] = files[n] /\ n \in LinkingTo(path)'
  <2>1. n \in DOMAIN files' /\ files'[n] = files[n]
    BY <1>1, Unchanged DEF LinkingTo
  <2>2. QED
    BY <1>1, <2>1 DEF LinkingTo
<1>2. ASSUME NEW n \in LinkingTo(path)'
      PROVE  n \in LinkingTo(path)
  <2>1. n \in DOMAIN files /\ files[n] = files'[n]
    BY <1>2, Unchanged DEF LinkingTo
  <2>2. QED
    BY <1>2, <2>1 DEF LinkingTo
<1>3. QED
  BY <1>1, <1>2

LEMMA OthersReady ==
  ASSUME IInv, Overtakes, NEW s \in Req, req'[s] = req[s], s \notin overtaken'
  PROVE  Ready(req[s])'
<1>1. PICK q : q = req[s]
  OBVIOUS
<1>2. /\ s \notin overtaken /\ Ready(q) /\ Fits(q) /\ req'[s] = q
      /\ Changed(files, files') \cap (Watched(q) \cup Watched(q)') = {}
  BY <1>1 DEF Overtakes, IInv, AllReady, Types
<1>3. ASSUME q.at = "compare" PROVE q.op.path \in DOMAIN files'
  <2>1. q.op.path \notin Changed(files, files')
    <3>1. Watched(q) = {q.op.path}
      BY <1>3 DEF Watched, Following
    <3>2. QED
      BY <1>2, <3>1
  <2>2. QED
    BY <1>2, <1>3, <2>1, Unchanged DEF Ready
<1>4. ASSUME q.at = "write" PROVE Accepted(files', q.op)
  <2>1. q.op.path \notin Changed(files, files')
    <3>1. Watched(q) = {q.op.path}
      BY <1>4 DEF Watched, Following
    <3>2. QED
      BY <1>2, <3>1
  <2>2. /\ q.op.path \in DOMAIN files <=> q.op.path \in DOMAIN files'
        /\ q.op.path \in DOMAIN files => files'[q.op.path] = files[q.op.path]
    BY <2>1, Unchanged
  <2>3. q.op.kind \in {"save", "create"} /\ Accepted(files, q.op)
    BY <1>2, <1>4 DEF Fits, Ready
  <2>4. QED
    BY <2>2, <2>3 DEF Accepted
<1>5. ASSUME q.at = "rename" PROVE q.op.to \notin DOMAIN files'
  <2>1. q.op.to \notin Changed(files, files')
    <3>1. Watched(q) = {q.op.to}
      BY <1>5 DEF Watched, Following
    <3>2. QED
      BY <1>2, <3>1
  <2>2. QED
    BY <1>2, <1>5, <2>1, Unchanged DEF Ready
<1>6. ASSUME q.at \in {"next", "relink"}
      PROVE  /\ LinkingTo(q.op.path)' = LinkingTo(q.op.path)
             /\ \A n \in LinkingTo(q.op.path) : n \in DOMAIN files' /\ files'[n] = files[n]
  <2>1. Watched(q) = LinkingTo(q.op.path) /\ Watched(q)' = LinkingTo(q.op.path)'
    BY <1>6 DEF Watched, Following
  <2>2. QED
    BY <1>2, <2>1, SameLinks
<1>7. ASSUME q.at = "relink"
      PROVE  q.seen.path \in DOMAIN files' /\ files'[q.seen.path] = q.seen.text
  <2>1. q.seen.path \in LinkingTo(q.op.path) /\ files[q.seen.path] = q.seen.text
    BY <1>2, <1>7 DEF Ready, Fits, LinkingTo
  <2>2. QED
    BY <1>6, <1>7, <2>1
<1>8. Ready(q)'
  BY <1>2, <1>3, <1>4, <1>5, <1>6, <1>7 DEF Ready
<1>9. QED
  BY <1>2, <1>8

\* A step of one request keeps the invariant when it leaves that request ready, or
\* overtaken as it was.
LEMMA Acts ==
  ASSUME IInv, Overtakes, NEW r \in Req, NEW q \in Request, req' = [req EXCEPT ![r] = q],
         made' \in 0..MaxRequests, DOMAIN files' \subseteq NotePath,
         files' \in [DOMAIN files' -> Text], Fits(q),
         Ready(q)' \/ (r \in overtaken /\ Following(req[r]) /\ Following(q))
  PROVE  IInv'
<1>1. req'[r] = q /\ \A s \in Req : s # r => req'[s] = req[s]
  BY DEF IInv, Types
<1>2. Types'
  BY <1>1 DEF IInv, Types
<1>3. OvertakenLooked'
  BY <1>1 DEF Overtakes, IInv, OvertakenLooked, Watched, Following
<1>4. ASSUME NEW s \in Req, s \notin overtaken' PROVE Ready(req[s])'
  <2>1. CASE s = r
    <3>1. ~(r \in overtaken /\ Following(req[r]) /\ Following(req'[r]))
      BY <1>4, <2>1 DEF Overtakes
    <3>2. QED
      BY <1>1, <2>1, <3>1
  <2>2. CASE s # r
    BY <1>1, <1>4, <2>2, OthersReady
  <2>3. QED
    BY <2>1, <2>2
<1>5. QED
  BY <1>2, <1>3, <1>4 DEF IInv, AllReady

\* A step of one request that leaves the notes alone.
LEMMA LooksOn ==
  ASSUME IInv, Overtakes, NEW r \in Req, NEW q \in Request, req' = [req EXCEPT ![r] = q],
         UNCHANGED <<files, made>>, Fits(q),
         Ready(q) \/ (r \in overtaken /\ Following(req[r]) /\ Following(q))
  PROVE  IInv'
<1>1. /\ DOMAIN files' \subseteq NotePath /\ files' \in [DOMAIN files' -> Text]
      /\ made' \in 0..MaxRequests
  BY DEF IInv, Types
<1>2. Ready(q)' = Ready(q)
  BY DEF Ready, LinkingTo
<1>3. QED
  BY <1>1, <1>2, Acts

-----------------------------------------------------------------------------
(***************************************************************************)
(* The steps.                                                              *)
(***************************************************************************)
LEMMA OffIsRequest == Off \in Request /\ Fits(Off) /\ Ready(Off) /\ (Ready(Off))'
  BY DEF Off, Request, Fits, Ready, Moving

LEMMA AskedInOps ==
  ASSUME IInv, made < MaxRequests, NEW op \in Asked
  PROVE  /\ op \in Ops
         /\ op.kind \in {"save", "create"} => op.text \in Text
<1> DEFINE texts == [id : {made + 1}, link : Linked \cup {Nothing}]
<1>1. texts \subseteq Text
  BY ServerAssumption DEF IInv, Types, Text
<1>2. ASSUME NEW p \in NotePath, NEW t \in texts, NEW b \in Text \cup {Nothing}, op = SaveNote(p, t, b)
      PROVE  op \in Ops /\ op.text \in Text
  BY <1>1, <1>2 DEF SaveNote, Write, Ops
<1>3. ASSUME NEW p \in NotePath, NEW t \in texts, op = CreateNote(p, t)
      PROVE  op \in Ops /\ op.text \in Text
  BY <1>1, <1>3 DEF CreateNote, Write, Ops
<1>4. ASSUME NEW p \in NotePath, op = DeleteNote(p)
      PROVE  op \in Ops /\ op.kind = "delete"
  BY <1>4 DEF DeleteNote, Write, Ops
<1>5. ASSUME NEW p \in Linked, NEW q \in NotePath, op = MoveNote(p, q)
      PROVE  op \in Ops /\ op.kind = "move"
  BY <1>5, ServerAssumption DEF MoveNote, Write, Ops
<1>6. \A p \in DOMAIN files : p \in NotePath /\ files[p] \in Text
  BY DEF IInv, Types
<1>7. QED
  BY <1>2, <1>3, <1>4, <1>5, <1>6 DEF Asked

LEMMA ArriveStep ==
  ASSUME IInv, Overtakes, NEW r \in Req, NEW op \in Asked, Arrive(r, op)
  PROVE  IInv'
<1>1. PICK q : q = [Off EXCEPT !.at = FirstStep(op), !.op = op]
  OBVIOUS
<1>2. op \in Ops /\ (op.kind \in {"save", "create"} => op.text \in Text)
  BY AskedInOps DEF Arrive
<1>3. /\ q \in Request /\ q.op = op
      /\ q.at = IF op.kind = "move" THEN "from" ELSE "exists"
  BY <1>1, <1>2 DEF Off, Request, FirstStep
<1>4. /\ req' = [req EXCEPT ![r] = q] /\ files' = files /\ made' = made + 1 /\ made < MaxRequests
      /\ op.kind = "move" => op.path # op.to
  BY <1>1 DEF Arrive
<1>5. Fits(q) /\ Ready(q)'
  BY <1>2, <1>3, <1>4 DEF Fits, Ready, Moving, Ops
<1>6. made' \in 0..MaxRequests
  BY <1>4, ServerAssumption DEF IInv, Types
<1>7. DOMAIN files' \subseteq NotePath /\ files' \in [DOMAIN files' -> Text]
  BY <1>4 DEF IInv, Types
<1>8. QED
  BY <1>3, <1>4, <1>5, <1>6, <1>7, Acts

\* Ending, or going to another place with nothing changed.
LEMMA EndsStep ==
  ASSUME IInv, Overtakes, NEW r \in Req, Ends(r), UNCHANGED <<files, made>>
  PROVE  IInv'
  BY OffIsRequest, LooksOn DEF Ends, Off

LEMMA GoesStep ==
  ASSUME IInv, Overtakes, NEW r \in Req, NEW at, Goes(r, at), UNCHANGED <<files, made>>,
         at \in {"compare", "write", "trash", "to", "rename", "sources"},
         Fits([req[r] EXCEPT !.at = at]), Ready([req[r] EXCEPT !.at = at])
  PROVE  IInv'
<1>1. PICK q : q = [req[r] EXCEPT !.at = at]
  OBVIOUS
<1>2. q \in Request /\ q.op = req[r].op
  BY <1>1 DEF IInv, Types, Request
<1>3. req' = [req EXCEPT ![r] = q]
  BY <1>1 DEF Goes, IInv, Types, Request
<1>4. QED
  BY <1>1, <1>2, <1>3, LooksOn

LEMMA LooksStep ==
  ASSUME IInv, Overtakes, NEW r \in Req, Looks(r)
  PROVE  IInv'
<1>1. PICK op : op = req[r].op
  OBVIOUS
<1>2. /\ op \in Ops /\ req[r] \in Request /\ Fits(req[r]) /\ Active(r)
      /\ UNCHANGED <<files, made>>
  BY <1>1 DEF Looks, Place, IInv, Types, Fits, Active
<1>3. CASE Ends(r)
  BY <1>2, <1>3, EndsStep
<1>4. CASE /\ Place(r, "exists") /\ op.kind = "save"
           /\ Goes(r, IF Exists(op.path) THEN "compare" ELSE "write")
  <2>1. CASE Exists(op.path)
    <3>1. Fits([req[r] EXCEPT !.at = "compare"]) /\ Ready([req[r] EXCEPT !.at = "compare"])
      BY <1>1, <1>2, <1>4, <2>1 DEF Fits, Ready, Request, Place, Moving, Exists
    <3>2. QED
      BY <1>2, <1>4, <2>1, <3>1, GoesStep
  <2>2. CASE ~Exists(op.path)
    <3>1. Accepted(files, op)
      BY <1>4, <2>2 DEF Accepted, Exists
    <3>2. Fits([req[r] EXCEPT !.at = "write"]) /\ Ready([req[r] EXCEPT !.at = "write"])
      BY <1>1, <1>2, <1>4, <3>1 DEF Fits, Ready, Request, Place, Moving
    <3>3. QED
      BY <1>2, <1>4, <2>2, <3>2, GoesStep
  <2>3. QED
    BY <2>1, <2>2
<1>5. CASE Place(r, "exists") /\ op.kind = "create" /\ ~Exists(op.path) /\ Goes(r, "write")
  <2>1. Accepted(files, op)
    BY <1>5 DEF Accepted, Exists
  <2>2. Fits([req[r] EXCEPT !.at = "write"]) /\ Ready([req[r] EXCEPT !.at = "write"])
    BY <1>1, <1>2, <1>5, <2>1 DEF Fits, Ready, Request, Place, Moving
  <2>3. QED
    BY <1>2, <1>5, <2>2, GoesStep
<1>6. CASE Place(r, "exists") /\ op.kind = "delete" /\ Goes(r, "trash")
  <2>1. Fits([req[r] EXCEPT !.at = "trash"]) /\ Ready([req[r] EXCEPT !.at = "trash"])
    BY <1>1, <1>2, <1>6 DEF Fits, Ready, Request, Place, Moving
  <2>2. QED
    BY <1>2, <1>6, <2>1, GoesStep
<1>7. CASE Place(r, "from") /\ Goes(r, "to")
  <2>1. Fits([req[r] EXCEPT !.at = "to"]) /\ Ready([req[r] EXCEPT !.at = "to"])
    BY <1>1, <1>2, <1>7 DEF Fits, Ready, Request, Place, Moving
  <2>2. QED
    BY <1>2, <1>7, <2>1, GoesStep
<1>8. CASE Place(r, "to") /\ ~Exists(op.to) /\ Goes(r, "rename")
  <2>1. Fits([req[r] EXCEPT !.at = "rename"]) /\ Ready([req[r] EXCEPT !.at = "rename"])
    BY <1>1, <1>2, <1>8 DEF Fits, Ready, Request, Place, Moving, Exists
  <2>2. QED
    BY <1>2, <1>8, <2>1, GoesStep
<1>9. QED
  BY <1>1, <1>3, <1>4, <1>5, <1>6, <1>7, <1>8 DEF Looks

LEMMA ComparesStep ==
  ASSUME IInv, Overtakes, NEW r \in Req, Compares(r)
  PROVE  IInv'
<1>1. PICK op : op = req[r].op
  OBVIOUS
<1>2. /\ op \in Ops /\ op.kind = "save" /\ req[r] \in Request /\ Fits(req[r]) /\ Active(r)
      /\ UNCHANGED <<files, made>> /\ req[r].at = "compare"
  BY <1>1 DEF Compares, Place, IInv, Types, Fits, Active
<1>3. CASE Ends(r)
  BY <1>2, <1>3, EndsStep
<1>4. CASE ~Ends(r)
  <2>1. files[op.path] = op.base /\ Goes(r, "write")
    BY <1>1, <1>4 DEF Compares
  <2>2. Accepted(files, op)
    BY <1>2, <2>1 DEF Accepted
  <2>3. Fits([req[r] EXCEPT !.at = "write"]) /\ Ready([req[r] EXCEPT !.at = "write"])
    BY <1>1, <1>2, <2>2 DEF Fits, Ready, Request, Moving
  <2>4. QED
    BY <1>2, <2>1, <2>3, GoesStep
<1>5. QED
  BY <1>3, <1>4

LEMMA WritesStep ==
  ASSUME IInv, Overtakes, NEW r \in Req, Writes(r)
  PROVE  IInv'
<1>1. PICK op : op = req[r].op
  OBVIOUS
<1>2. /\ op \in Ops /\ op.text \in Text /\ Active(r) /\ made' = made
      /\ files' = Written(files, op.path, op.text) /\ Ends(r)
  BY <1>1 DEF Writes, Place, IInv, Types, Fits, Active
<1>3. op.path \in NotePath
  BY <1>2 DEF Ops
<1>4. /\ DOMAIN files' \subseteq NotePath /\ files' \in [DOMAIN files' -> Text]
      /\ made' \in 0..MaxRequests
  BY <1>2, <1>3 DEF Written, IInv, Types
<1>5. QED
  BY <1>2, <1>4, OffIsRequest, Acts DEF Ends, Off

LEMMA NotesAreApart == NotesApart(NotePath) /\ NotePath \subseteq Seq(STRING)
  BY ServerAssumption DEF NotesApart

LEMMA ToTrashStep ==
  ASSUME IInv, Overtakes, NEW r \in Req, ToTrash(r)
  PROVE  IInv'
<1>1. PICK op : op = req[r].op
  OBVIOUS
<1>2. op \in Ops /\ Active(r) /\ made' = made /\ Ends(r)
  BY <1>1 DEF ToTrash, Place, IInv, Types, Fits, Active
<1>3. CASE Exists(op.path)
  <2>1. op.path \in NotePath /\ DOMAIN files \subseteq NotePath
    BY <1>2 DEF Ops, IInv, Types
  <2>2. PICK path \in NotePath : path = op.path
    BY <2>1
  <2>3. WithoutNote(Removed(files, path), files, path)
    BY <2>1, NotesAreApart, RemovedNote
  <2>4. files' = Removed(files, path)
    BY <1>1, <1>3, <2>2 DEF ToTrash
  <2>5. /\ DOMAIN files' \subseteq NotePath /\ files' \in [DOMAIN files' -> Text]
        /\ made' \in 0..MaxRequests
    BY <1>2, <2>3, <2>4 DEF WithoutNote, IInv, Types, Removed, Restrict
  <2>6. QED
    BY <1>2, <2>5, OffIsRequest, Acts DEF Ends, Off
<1>4. CASE ~Exists(op.path)
  BY <1>1, <1>2, <1>4, EndsStep DEF ToTrash
<1>5. QED
  BY <1>3, <1>4

\* The rename leaves the note at its new path, over what is there, and nowhere else.
LEMMA RenamesLeaves ==
  ASSUME IInv, NEW r \in Req, Renames(r), Exists(req[r].op.path)
  PROVE  /\ WithNoteMoved(files', files, req[r].op.path, req[r].op.to)
         /\ files' = Relocated(files, req[r].op.path, req[r].op.to)
         /\ DOMAIN files' \subseteq NotePath /\ files' \in [DOMAIN files' -> Text]
<1>1. PICK op : op = req[r].op
  OBVIOUS
<1>2. op \in Ops
  BY <1>1 DEF Renames, Place, IInv, Types, Fits
<1>3. op.path \in DOMAIN files /\ op.to \in NotePath /\ DOMAIN files \subseteq NotePath
  BY <1>1, <1>2 DEF Exists, Ops, IInv, Types
<1>4. files' = Relocated(files, op.path, op.to)
  BY <1>1 DEF Renames
<1>5. WithNoteMoved(files', files, op.path, op.to)
  <2>1. PICK from \in DOMAIN files, to \in NotePath : from = op.path /\ to = op.to
    BY <1>3
  <2>2. WithNoteMoved(Relocated(files, from, to), files, from, to)
    BY <1>3, NotesAreApart, MovedNote
  <2>3. QED
    BY <1>4, <2>1, <2>2
<1>6. DOMAIN files' \subseteq NotePath /\ \A q \in DOMAIN files' : files'[q] \in Text
  BY <1>3, <1>5 DEF WithNoteMoved, IInv, Types
<1>7. files' = [q \in DOMAIN files' |-> files'[q]]
  BY <1>4 DEF Relocated
<1>8. QED
  BY <1>1, <1>4, <1>5, <1>6, <1>7

LEMMA RenamesStep ==
  ASSUME IInv, Overtakes, NEW r \in Req, Renames(r)
  PROVE  IInv'
<1>1. PICK op : op = req[r].op
  OBVIOUS
<1>2. op \in Ops /\ Fits(req[r]) /\ made' = made /\ made \in 0..MaxRequests /\ op.kind = "move"
  BY <1>1 DEF Renames, Place, IInv, Types, Fits, Moving
<1>3. CASE Exists(op.path)
  <2>1. DOMAIN files' \subseteq NotePath /\ files' \in [DOMAIN files' -> Text]
    BY <1>1, <1>3, RenamesLeaves
  <2>2. PICK q : q = [req[r] EXCEPT !.at = "sources"]
    OBVIOUS
  <2>3. q \in Request /\ q.op = op /\ q.at = "sources" /\ req' = [req EXCEPT ![r] = q]
    BY <1>1, <1>3, <2>2 DEF Renames, Goes, IInv, Types, Request
  <2>4. Fits(q) /\ Ready(q)'
    BY <1>1, <1>2, <2>3 DEF Fits, Ready, Moving, Renames, Place
  <2>5. QED
    BY <1>2, <2>1, <2>3, <2>4, Acts
<1>4. CASE ~Exists(op.path)
  BY <1>1, <1>2, <1>4, EndsStep DEF Renames
<1>5. QED
  BY <1>3, <1>4

LEMMA SourcesStep ==
  ASSUME IInv, Overtakes, NEW r \in Req, FindsSources(r) \/ ReadsSource(r)
  PROVE  IInv'
<1>1. PICK op : op = req[r].op
  OBVIOUS
<1>2. /\ op \in Ops /\ UNCHANGED <<files, made>> /\ op.kind = "move"
      /\ req[r] \in Request /\ Fits(req[r]) /\ op.path # op.to
  BY <1>1 DEF FindsSources, ReadsSource, Place, IInv, Types, Fits, Moving
<1>3. CASE FindsSources(r)
  <2>1. PICK q : q = [req[r] EXCEPT !.at = "next", !.todo = LinkingTo(op.path)]
    OBVIOUS
  <2>2. LinkingTo(op.path) \subseteq NotePath
    BY DEF LinkingTo, IInv, Types
  <2>3. /\ q \in Request /\ q.op = op /\ q.at = "next" /\ q.todo = LinkingTo(op.path)
        /\ req' = [req EXCEPT ![r] = q]
    BY <1>1, <1>2, <1>3, <2>1, <2>2 DEF FindsSources, IInv, Types, Request
  <2>4. Fits(q) /\ Ready(q)
    BY <1>2, <2>3 DEF Fits, Ready, Moving
  <2>5. QED
    BY <1>2, <2>3, <2>4, LooksOn
<1>4. CASE Ends(r)
  BY <1>2, <1>4, EndsStep
<1>5. ASSUME NEW n \in req[r].todo, n \in LinkingTo(req[r].op.path), Place(r, "next"),
             req' = [req EXCEPT ![r].at = "relink", ![r].todo = @ \ {n},
                                ![r].seen = [path |-> n, text |-> files[n]]]
      PROVE  IInv'
  <2>1. PICK s : s = [path |-> n, text |-> files[n]]
    OBVIOUS
  <2>2. s \in Source /\ s.path = n /\ n \in DOMAIN files /\ files[n] = s.text /\ s.text.link = op.path
    BY <1>1, <1>5, <2>1 DEF Source, LinkingTo, IInv, Types
  <2>3. PICK x : x = req[r]
    OBVIOUS
  <2>4. PICK q : q = [x EXCEPT !.at = "relink", !.todo = @ \ {n}, !.seen = s]
    OBVIOUS
  <2>5. q = [at |-> "relink", op |-> op, seen |-> s, todo |-> x.todo \ {n}]
    BY <1>1, <1>2, <2>3, <2>4 DEF Request
  <2>6. req' = [req EXCEPT ![r] = q]
    BY <1>1, <1>2, <1>5, <2>1, <2>3, <2>5 DEF IInv, Types, Request
  <2>7. q \in Request /\ q.op = op /\ q.at = "relink" /\ q.seen = s /\ q.todo = x.todo \ {n}
    BY <1>2, <2>2, <2>3, <2>5 DEF Request
  <2>8. Fits(q)
    BY <1>2, <2>2, <2>7 DEF Fits, Moving
  <2>9. CASE r \in overtaken
    BY <1>2, <1>5, <2>6, <2>7, <2>8, <2>9, LooksOn DEF Following, Place
  <2>10. CASE r \notin overtaken
    <3>1. LinkingTo(op.path) \subseteq x.todo
      BY <1>1, <1>5, <2>3, <2>10 DEF IInv, AllReady, Ready, Place
    <3>2. Ready(q)
      BY <2>2, <2>7, <3>1 DEF Ready
    <3>3. QED
      BY <1>2, <2>6, <2>7, <2>8, <3>2, LooksOn
  <2>11. QED
    BY <2>9, <2>10
<1>6. ASSUME NEW n \in req[r].todo, n \notin LinkingTo(req[r].op.path), Place(r, "next"),
             req' = [req EXCEPT ![r].todo = @ \ {n}]
      PROVE  IInv'
  <2>1. PICK q : q = [req[r] EXCEPT !.todo = @ \ {n}]
    OBVIOUS
  <2>2. /\ q \in Request /\ q.op = op /\ q.at = "next" /\ q.todo = req[r].todo \ {n}
        /\ req' = [req EXCEPT ![r] = q]
    BY <1>1, <1>2, <1>6, <2>1 DEF Place, IInv, Types, Request
  <2>3. Fits(q)
    BY <1>2, <2>2 DEF Fits, Moving
  <2>4. CASE r \in overtaken
    BY <1>2, <1>6, <2>2, <2>3, <2>4, LooksOn DEF Following, Place
  <2>5. CASE r \notin overtaken
    <3>1. LinkingTo(op.path) \subseteq req[r].todo
      BY <1>1, <1>6, <2>5 DEF IInv, AllReady, Ready, Place
    <3>2. Ready(q)
      BY <1>1, <1>6, <2>2, <3>1 DEF Ready
    <3>3. QED
      BY <1>2, <2>2, <2>3, <3>2, LooksOn
  <2>6. QED
    BY <2>4, <2>5
<1>7. QED
  BY <1>3, <1>4, <1>5, <1>6 DEF ReadsSource

\* A link followed is written into the text that was read.
LEMMA WritesSourceLeaves ==
  ASSUME IInv, NEW r \in Req, WritesSource(r),
         NEW t, t = [req[r].seen.text EXCEPT !.link = req[r].op.to]
  PROVE  /\ t \in Text /\ t.link = req[r].op.to /\ t.id = req[r].seen.text.id
         /\ req[r].op \in Ops /\ req[r].op.path # req[r].op.to
         /\ req[r].seen.path \in NotePath /\ req[r].seen.text \in Text
         /\ req[r].seen.text.link = req[r].op.path
         /\ files' = Written(files, req[r].seen.path, t)
<1>1. PICK op : op = req[r].op
  OBVIOUS
<1>2. /\ op \in Ops /\ op.kind = "move" /\ op.path # op.to /\ req[r].seen \in Source
      /\ req[r].seen.text.link = op.path
  BY <1>1 DEF WritesSource, Place, IInv, Types, Fits, Moving
<1>3. op.to \in NotePath
  BY <1>2 DEF Ops
<1>4. req[r].seen.path \in NotePath /\ req[r].seen.text \in Text
  BY <1>2 DEF Source
<1>5. t \in Text /\ t.link = op.to /\ t.id = req[r].seen.text.id
  BY <1>1, <1>3, <1>4 DEF Text
<1>6. files' = Written(files, req[r].seen.path, t)
  BY DEF WritesSource
<1>7. QED
  BY <1>1, <1>2, <1>4, <1>5, <1>6

LEMMA WritesSourceStep ==
  ASSUME IInv, Overtakes, NEW r \in Req, WritesSource(r)
  PROVE  IInv'
<1>1. PICK op, n, t : /\ op = req[r].op /\ n = req[r].seen.path
                      /\ t = [req[r].seen.text EXCEPT !.link = op.to]
  OBVIOUS
<1>2. /\ t \in Text /\ t.link = op.to /\ op \in Ops /\ op.path # op.to /\ n \in NotePath
      /\ files' = Written(files, n, t)
  BY <1>1, WritesSourceLeaves
<1>3. made' \in 0..MaxRequests /\ req[r] \in Request /\ Fits(req[r]) /\ req[r].at = "relink"
  BY DEF WritesSource, Place, IInv, Types
<1>4. DOMAIN files' \subseteq NotePath /\ files' \in [DOMAIN files' -> Text]
  BY <1>2 DEF Written, IInv, Types
<1>5. PICK q : q = [req[r] EXCEPT !.at = "next"]
  OBVIOUS
<1>6. /\ q \in Request /\ q.op = op /\ q.at = "next" /\ q.todo = req[r].todo
      /\ req' = [req EXCEPT ![r] = q]
  BY <1>1, <1>3, <1>5 DEF WritesSource, Goes, IInv, Types, Request
<1>7. Fits(q)
  BY <1>1, <1>3, <1>6 DEF Fits, Moving
<1>8. CASE r \in overtaken
  BY <1>3, <1>4, <1>6, <1>7, <1>8, Acts DEF Following
<1>9. CASE r \notin overtaken
  <2>1. LinkingTo(op.path) \subseteq req[r].todo \cup {n}
    BY <1>1, <1>3, <1>9 DEF IInv, AllReady, Ready
  <2>2. LinkingTo(op.path)' \subseteq LinkingTo(op.path) \ {n}
    BY <1>2 DEF LinkingTo, Written
  <2>3. Ready(q)'
    BY <1>6, <2>1, <2>2 DEF Ready
  <2>4. QED
    BY <1>3, <1>4, <1>6, <1>7, <2>3, Acts
<1>10. QED
  BY <1>8, <1>9

\* With no request under way there is none to overtake.
LEMMA CrashStep ==
  ASSUME IInv, Overtakes, Crash
  PROVE  IInv' /\ overtaken' = {}
<1>1. req' = [r \in Req |-> Off] /\ UNCHANGED <<files, made>>
  BY DEF Crash
<1>2. Types'
  BY <1>1, OffIsRequest DEF IInv, Types
<1>3. overtaken' = {}
  <2>1. SUFFICES ASSUME NEW r \in overtaken' PROVE FALSE
    OBVIOUS
  <2>2. r \in Req /\ req'[r] = Off
    BY <1>1, <2>1 DEF Overtakes
  <2>3. Watched(Off) = {} /\ Watched(Off)' = {} /\ ~Following(Off)
    BY DEF Watched, Off, Following
  <2>4. req[r] = Off /\ r \in overtaken
    BY <2>1, <2>2, <2>3 DEF Overtakes
  <2>5. QED
    BY <2>4 DEF IInv, OvertakenLooked, Off
<1>4. AllReady'
  BY <1>1, OffIsRequest DEF AllReady
<1>5. QED
  BY <1>2, <1>3, <1>4 DEF IInv, OvertakenLooked

LEMMA Begins == Init => IInv
<1>1. SUFFICES ASSUME Init PROVE IInv
  OBVIOUS
<1>2. Types
  BY <1>1, OffIsRequest, ServerAssumption DEF Init, Types
<1>3. OvertakenLooked /\ AllReady
  BY <1>1, OffIsRequest DEF Init, OvertakenLooked, AllReady
<1>4. QED
  BY <1>2, <1>3 DEF IInv

LEMMA Preserves ==
  ASSUME IInv, [Next]_vars
  PROVE  IInv'
<1>1. ASSUME Overtakes, NEW r \in Req, NEW op \in Asked, Arrive(r, op) PROVE IInv'
  BY <1>1, ArriveStep
<1>2. ASSUME Overtakes, NEW r \in Req, Looks(r) PROVE IInv'
  BY <1>2, LooksStep
<1>3. ASSUME Overtakes, NEW r \in Req, Compares(r) PROVE IInv'
  BY <1>3, ComparesStep
<1>4. ASSUME Overtakes, NEW r \in Req, Writes(r) PROVE IInv'
  BY <1>4, WritesStep
<1>5. ASSUME Overtakes, NEW r \in Req, ToTrash(r) PROVE IInv'
  BY <1>5, ToTrashStep
<1>6. ASSUME Overtakes, NEW r \in Req, Renames(r) PROVE IInv'
  BY <1>6, RenamesStep
<1>7. ASSUME Overtakes, NEW r \in Req, FindsSources(r) \/ ReadsSource(r) PROVE IInv'
  BY <1>7, SourcesStep
<1>8. ASSUME Overtakes, NEW r \in Req, WritesSource(r) PROVE IInv'
  BY <1>8, WritesSourceStep
<1>9. ASSUME Overtakes, Crash PROVE IInv'
  BY <1>9, CrashStep
<1>10. CASE UNCHANGED vars
  BY <1>10 DEF vars, IInv, Types, OvertakenLooked, AllReady, Ready, LinkingTo
<1>11. QED
  BY <1>1, <1>2, <1>3, <1>4, <1>5, <1>6, <1>7, <1>8, <1>9, <1>10 DEF Next, Step

\* What a request has looked at is still so when it acts on it, or the request is one that
\* another has overtaken: across any number of awaits, and crashes, in routes/notes.rs.
THEOREM Invariance == Spec => []IInv
<1>1. Init => IInv
  BY Begins
<1>2. IInv /\ [Next]_vars => IInv'
  BY Preserves
<1>3. QED
  BY <1>1, <1>2, PTL DEF Spec

-----------------------------------------------------------------------------
(***************************************************************************)
(* No text is lost.                                                        *)
(***************************************************************************)
\* How the name of a text may go.
Excused(id) == \E r \in Req, p \in DOMAIN files :
                 /\ req'[r] # req[r] /\ Replaces(r, p) /\ files[p].id = id
                 /\ r \in overtaken \/ CarriesToken(r, files[p])

LEMMA NamesKept ==
  ASSUME trash \subseteq trash',
         \A p \in DOMAIN files : \/ \E q \in DOMAIN files' : files'[q].id = files[p].id
                                 \/ \E t \in trash' : t.id = files[p].id
                                 \/ Excused(files[p].id)
  PROVE  \A id \in Names : id \in Names' \/ Excused(id)
  BY DEF Names

LEMMA WritesKeeps ==
  ASSUME IInv, NEW r \in Req, Writes(r)
  PROVE  \A id \in Names : id \in Names' \/ Excused(id)
<1>1. PICK op : op = req[r].op
  OBVIOUS
<1>2. /\ op \in Ops /\ op.kind \in {"save", "create"} /\ trash' = trash /\ req[r].at = "write"
      /\ files' = Written(files, op.path, op.text) /\ Ends(r)
  BY <1>1 DEF Writes, Place, IInv, Types, Fits
<1>3. \A p \in DOMAIN files \ {op.path} : p \in DOMAIN files' /\ files'[p] = files[p]
  BY <1>2 DEF Written
<1>4. req'[r] # req[r]
  BY <1>2 DEF Ends, Off, IInv, Types
<1>5. ASSUME op.path \in DOMAIN files PROVE Excused(files[op.path].id)
  <2>1. Replaces(r, op.path)
    BY <1>1, <1>2 DEF Replaces, Place
  <2>2. r \in overtaken \/ CarriesToken(r, files[op.path])
    <3>1. SUFFICES ASSUME r \notin overtaken PROVE CarriesToken(r, files[op.path])
      OBVIOUS
    <3>2. Accepted(files, op)
      BY <1>1, <1>2, <3>1 DEF IInv, AllReady, Ready
    <3>3. op.kind = "save" /\ op.base = files[op.path]
      BY <1>2, <1>5, <3>2 DEF Accepted
    <3>4. QED
      BY <1>1, <1>2, <3>3 DEF CarriesToken, Place
  <2>3. QED
    BY <1>4, <1>5, <2>1, <2>2 DEF Excused
<1>6. QED
  BY <1>2, <1>3, <1>5, NamesKept

LEMMA ToTrashKeeps ==
  ASSUME IInv, NEW r \in Req, ToTrash(r)
  PROVE  \A id \in Names : id \in Names' \/ Excused(id)
<1>1. PICK path : path = req[r].op.path
  OBVIOUS
<1>2. CASE path \in DOMAIN files
  <2>1. files' = Removed(files, path) /\ trash' = trash \cup {files[path]}
    BY <1>1, <1>2 DEF ToTrash, Exists
  <2>2. path \in NotePath /\ DOMAIN files \subseteq NotePath
    BY <1>2 DEF IInv, Types
  <2>3. WithoutNote(Removed(files, path), files, path)
    BY <2>2, NotesAreApart, RemovedNote
  <2>4. QED
    BY <2>1, <2>3, NamesKept DEF WithoutNote
<1>3. CASE path \notin DOMAIN files
  BY <1>1, <1>3, NamesKept DEF ToTrash, Exists
<1>4. QED
  BY <1>2, <1>3

LEMMA RenamesKeeps ==
  ASSUME IInv, NEW r \in Req, Renames(r)
  PROVE  \A id \in Names : id \in Names' \/ Excused(id)
<1>1. PICK op : op = req[r].op
  OBVIOUS
<1>2. CASE Exists(op.path)
  <2>1. WithNoteMoved(files', files, op.path, op.to) /\ op.path \in DOMAIN files
    BY <1>1, <1>2, RenamesLeaves DEF Exists
  <2>2. \A p \in DOMAIN files \ {op.to} :
          \E q \in DOMAIN files' : files'[q].id = files[p].id
    BY <2>1 DEF WithNoteMoved
  <2>3. ASSUME op.to \in DOMAIN files PROVE Excused(files[op.to].id)
    <3>1. Replaces(r, op.to) /\ req[r].at = "rename"
      BY <1>1 DEF Replaces, Renames, Place
    <3>2. r \in overtaken
      BY <1>1, <2>3, <3>1 DEF IInv, AllReady, Ready
    <3>3. req'[r].at = "sources"
      BY <1>1, <1>2 DEF Renames, Goes, IInv, Types, Request
    <3>4. QED
      BY <2>3, <3>1, <3>2, <3>3 DEF Excused
  <2>4. QED
    BY <2>2, <2>3, NamesKept DEF Renames
<1>3. CASE ~Exists(op.path)
  BY <1>1, <1>3, NamesKept DEF Renames
<1>4. QED
  BY <1>2, <1>3

LEMMA WritesSourceKeeps ==
  ASSUME IInv, NEW r \in Req, WritesSource(r)
  PROVE  \A id \in Names : id \in Names' \/ Excused(id)
<1>1. PICK n, t : n = req[r].seen.path /\ t = [req[r].seen.text EXCEPT !.link = req[r].op.to]
  OBVIOUS
<1>2. t.id = req[r].seen.text.id /\ files' = Written(files, n, t) /\ trash' = trash
  BY <1>1, WritesSourceLeaves DEF WritesSource
<1>3. \A p \in DOMAIN files \ {n} : p \in DOMAIN files' /\ files'[p] = files[p]
  BY <1>2 DEF Written
<1>4. req[r].at = "relink" /\ req'[r].at = "next"
  BY DEF WritesSource, Place, Goes, IInv, Types, Request
<1>5. ASSUME n \in DOMAIN files
      PROVE  (\E q \in DOMAIN files' : files'[q].id = files[n].id) \/ Excused(files[n].id)
  <2>1. CASE r \in overtaken
    <3>1. Replaces(r, n)
      BY <1>1, <1>4 DEF Replaces, Place
    <3>2. QED
      BY <1>4, <1>5, <2>1, <3>1 DEF Excused
  <2>2. CASE r \notin overtaken
    <3>1. files[n] = req[r].seen.text
      BY <1>1, <1>4, <2>2 DEF IInv, AllReady, Ready
    <3>2. n \in DOMAIN files' /\ files'[n] = t
      BY <1>2 DEF Written
    <3>3. QED
      BY <1>2, <3>1, <3>2
  <2>3. QED
    BY <2>1, <2>2
<1>6. QED
  BY <1>2, <1>3, <1>5, NamesKept

\* The name of a text goes from the vault and its trash only by a save that carries the
\* token of that text, or at the hand of a request that another has overtaken between its
\* look and its write (routes/notes.rs:56-84): however requests overlap, not by a delete,
\* nor by a move or the links it rewrites that nothing overtook, nor by a crash.
THEOREM NeverDestroyed == Spec => NothingDestroyed
<1> DEFINE Kept == \A id \in Names : id \in Names' \/ Excused(id)
<1>1. ASSUME IInv, [Next]_vars PROVE Kept
  <2>1. ASSUME UNCHANGED <<files, trash>> PROVE Kept
    BY <2>1 DEF Names
  <2>2. QED
    BY <1>1, <2>1, WritesKeeps, ToTrashKeeps, RenamesKeeps, WritesSourceKeeps
       DEF Next, Step, Arrive, Looks, Compares, FindsSources, ReadsSource, Crash, vars
<1>2. IInv /\ [Next]_vars => Kept
  BY <1>1
<1>3. Spec => []IInv
  BY Invariance
<1>4. QED
  BY <1>2, <1>3, PTL DEF Spec, NothingDestroyed, Excused

-----------------------------------------------------------------------------
(***************************************************************************)
(* The steps of the requests implement AtomicVault.                        *)
(***************************************************************************)
\* What a request at a place asks for, and the move it follows the links of.
Asks(q)    == IF q.at \in {"off", "sources", "next", "relink"} THEN None ELSE q.op
Follows(q) == IF q.at \in {"sources", "next", "relink"} THEN q.op ELSE None

LEMMA OneAsks ==
  ASSUME IInv, NEW r \in Req, NEW q, req' = [req EXCEPT ![r] = q]
  PROVE  /\ asked' = [asked EXCEPT ![r] = Asks(q)]
         /\ moved' = [moved EXCEPT ![r] = Follows(q)]
<1>1. req'[r] = q /\ \A s \in Req : s # r => req'[s] = req[s]
  BY DEF IInv, Types
<1>2. asked' = [s \in Req |-> Asks(req'[s])] /\ moved' = [s \in Req |-> Follows(req'[s])]
  BY DEF asked, moved, Asks, Follows
<1>3. asked = [s \in Req |-> Asks(req[s])] /\ moved = [s \in Req |-> Follows(req[s])]
  BY DEF asked, moved, Asks, Follows
<1> HIDE DEF asked, moved
<1>4. asked' = [asked EXCEPT ![r] = Asks(q)]
  BY <1>1, <1>2, <1>3
<1>5. moved' = [moved EXCEPT ![r] = Follows(q)]
  BY <1>1, <1>2, <1>3
<1>6. QED
  BY <1>4, <1>5

\* What a request at a place is taken for.
LEMMA Place2 ==
  ASSUME NEW r \in Req, NEW q, req[r] = q
  PROVE  asked[r] = Asks(q) /\ moved[r] = Follows(q)
  BY DEF asked, moved, Asks, Follows

\* A request that goes on asks for what it asked for.
LEMMA StepKeeps ==
  ASSUME IInv, NEW r \in Req, NEW q, req' = [req EXCEPT ![r] = q],
         Asks(q) = Asks(req[r]), Follows(q) = Follows(req[r])
  PROVE  UNCHANGED <<asked, moved>>
<1>1. asked' = [asked EXCEPT ![r] = Asks(q)] /\ moved' = [moved EXCEPT ![r] = Follows(q)]
  BY OneAsks
<1>2. asked[r] = Asks(q) /\ moved[r] = Follows(q)
  BY Place2
<1>3. asked = [s \in Req |-> asked[s]] /\ moved = [s \in Req |-> moved[s]]
  BY DEF asked, moved
<1> HIDE DEF asked, moved
<1>4. QED
  BY <1>1, <1>2, <1>3

-----------------------------------------------------------------------------
(***************************************************************************)
(* Who is overtaken by a step.                                             *)
(***************************************************************************)
LEMMA SameChanged ==
  ASSUME NEW f, NEW g
  PROVE  Atomic!Changed(f, g) = Changed(f, g)
  BY DEF Atomic!Changed, Changed

\* The others a step overtakes are those it disturbs.
LEMMA OthersDisturbed ==
  ASSUME IInv, Overtakes, NEW r \in Req, NEW q, req' = [req EXCEPT ![r] = q],
         NEW s \in overtaken', s # r
  PROVE  s \in overtaken \/ s \in Atomic!Disturbed(r)
<1>1. SUFFICES ASSUME s \notin overtaken PROVE s \in Atomic!Disturbed(r)
  OBVIOUS
<1>2. PICK p : p = req[s]
  OBVIOUS
<1>3. s \in Req /\ req'[s] = p
  BY <1>2 DEF Overtakes, IInv, Types
<1>4. Changed(files, files') \cap (Watched(p) \cup Watched(p)') # {}
  BY <1>1, <1>2, <1>3 DEF Overtakes
<1>5. p.at \in {"compare", "write", "rename", "next", "relink"} /\ p.op \in Ops /\ p.op # None
  BY <1>2, <1>3, <1>4, ServerAssumption DEF Watched, Following, IInv, Types, Fits
<1>6. asked[s] = Asks(p) /\ moved[s] = Follows(p)
  BY <1>2, <1>3, Place2
<1>7. Atomic!Changed(files, files') = Changed(files, files')
  BY SameChanged
<1>8. CASE p.at \in {"compare", "write", "rename"}
  <2>1. Watched(p) \subseteq {p.op.path, p.op.to} /\ Watched(p)' \subseteq {p.op.path, p.op.to}
    BY <1>8 DEF Watched, Following
  <2>2. asked[s] = p.op
    BY <1>6, <1>8 DEF Asks
  <2>3. {p.op.path, p.op.to} \cap Changed(files, files') # {}
    BY <1>4, <2>1
  <2>4. asked[s] # None /\ {asked[s].path, asked[s].to} \cap Atomic!Changed(files, files') # {}
    BY <1>5, <1>7, <2>2, <2>3
  <2>5. QED
    BY <1>3, <2>4 DEF Atomic!Disturbed
<1>9. CASE p.at \in {"next", "relink"}
  <2>1. Watched(p) = LinkingTo(p.op.path) /\ Watched(p)' = LinkingTo(p.op.path)'
    BY <1>9 DEF Watched, Following
  <2>2. LinkingTo(p.op.path) = Atomic!Links(files, p.op.path)
    BY DEF LinkingTo, Atomic!Links
  <2>3. LinkingTo(p.op.path)' = Atomic!Links(files', p.op.path)
    BY DEF LinkingTo, Atomic!Links
  <2>4. moved[s] = p.op
    BY <1>6, <1>9 DEF Follows
  <2>5. Changed(files, files') \cap
          (Atomic!Links(files, p.op.path) \cup Atomic!Links(files', p.op.path)) # {}
    BY <1>4, <2>1, <2>2, <2>3
  <2>6. moved[s] # None /\ Atomic!Changed(files, files') \cap
          (Atomic!Links(files, moved[s].path) \cup Atomic!Links(files', moved[s].path)) # {}
    BY <1>5, <1>7, <2>4, <2>5
  <2>7. QED
    BY <1>3, <2>6 DEF Atomic!Disturbed
<1>10. QED
  BY <1>5, <1>8, <1>9

\* Whoever was overtaken and did not move still is.
LEMMA OthersStay ==
  ASSUME IInv, Overtakes, NEW r \in Req, NEW q, req' = [req EXCEPT ![r] = q],
         NEW s \in overtaken, s # r
  PROVE  s \in overtaken'
  BY DEF Overtakes, IInv, Types, OvertakenLooked

\* The one that steps is overtaken if it was and follows links on, and else is not.
LEMMA ActorStays ==
  ASSUME IInv, Overtakes, NEW r \in Req, NEW q, req' = [req EXCEPT ![r] = q], q # req[r]
  PROVE  r \in overtaken' <=> r \in overtaken /\ Following(req[r]) /\ Following(q)
  BY DEF Overtakes, IInv, Types

LEMMA StepOvertakes ==
  ASSUME IInv, Overtakes, NEW r \in Req, NEW q, req' = [req EXCEPT ![r] = q], q # req[r],
         NEW then, then = IF Following(req[r]) /\ Following(q) THEN overtaken ELSE overtaken \ {r}
  PROVE  Atomic!Overtaking(r, then) /\ (files' = files => overtaken' = then)
<1>1. \A s \in then : s \in overtaken'
  BY OthersStay, ActorStays
<1>2. \A s \in overtaken' : s \in then \/ s \in Atomic!Disturbed(r)
  BY OthersDisturbed, ActorStays
<1>3. PICK S : S = overtaken' \cap Atomic!Disturbed(r)
  OBVIOUS
<1>4. S \in SUBSET Atomic!Disturbed(r) /\ overtaken' = then \cup S
  BY <1>1, <1>2, <1>3
<1>5. ASSUME files' = files PROVE Atomic!Disturbed(r) = {}
  <2>1. Atomic!Changed(files, files') = {}
    BY <1>5, SameChanged, SameIsUnchanged
  <2>2. QED
    BY <2>1 DEF Atomic!Disturbed
<1>6. QED
  BY <1>4, <1>5 DEF Atomic!Overtaking

-----------------------------------------------------------------------------
(***************************************************************************)
(* Each action's step.                                                     *)
(***************************************************************************)
\* The two modules' names for the same operations.
LEMMA SameOperations ==
  ASSUME NEW v, NEW op, op.kind \in {"save", "create", "delete", "move"}
  PROVE  Atomic!Accepted(v, op) = Accepted(v, op) /\ Atomic!Effect(v, op) = Effect(v, op)
<1>1. \A p, q : Atomic!IsWithin(p, q) = IsWithin(p, q)
  BY DEF Atomic!IsWithin, IsWithin, Atomic!IsStrictPrefix, IsStrictPrefix, Atomic!IsPrefix, IsPrefix
<1>2. \A p, q : Atomic!Under(p, q) = Under(p, q)
  BY <1>1 DEF Atomic!Under, Under
<1>3. \A f, p : Atomic!WithParents(f, p) = WithParents(f, p)
  BY DEF Atomic!WithParents, WithParents, Atomic!Parents, Parents, Atomic!Folder, Folder
<1>4. \A f, p, t : Atomic!Put(f, p, t) = Put(f, p, t)
  BY <1>3 DEF Atomic!Put, Put, Atomic!Written, Written
<1>5. Atomic!Accepted(v, op) = Accepted(v, op)
  BY <1>1 DEF Atomic!Accepted, Accepted
<1>6. Atomic!WithFolder(v, op.path) = WithFolder(v, op.path)
  BY <1>4 DEF Atomic!WithFolder, WithFolder, Atomic!Folder, Folder
<1>7. Atomic!Removed(v, op.path) = Removed(v, op.path)
  BY <1>2 DEF Atomic!Removed, Removed, Atomic!Restrict, Restrict
<1>8. Atomic!Relocated(v, op.path, op.to) = Relocated(v, op.path, op.to)
  BY <1>2 DEF Atomic!Relocated, Relocated, Atomic!Rebase, Rebase
<1>9. Atomic!Rename(v, op.path, op.to) = Rename(v, op.path, op.to)
  BY <1>3, <1>8 DEF Atomic!Rename, Rename
<1>10. Atomic!Effect(v, op) = Effect(v, op)
  <2>1. CASE ~Accepted(v, op)
    BY <1>5, <2>1 DEF Atomic!Effect, Effect
  <2>2. CASE Accepted(v, op)
    BY <1>4, <1>5, <1>6, <1>7, <1>9, <2>2 DEF Atomic!Effect, Effect
  <2> QED
    BY <2>1, <2>2
<1> QED
  BY <1>5, <1>10

\* A request refused: what it asks for is not to be had, or it was overtaken.
LEMMA EndsRefuses ==
  ASSUME IInv, Overtakes, NEW r \in Req, Ends(r), UNCHANGED <<files, crashes>>,
         req[r].at \in {"exists", "compare", "trash", "from", "to", "rename"},
         ~Accepted(files, req[r].op) \/ r \in overtaken
  PROVE  Atomic!Refuse(r)
<1>1. Asks(Off) = None /\ Follows(Off) = None /\ ~Following(Off) /\ Off.at = "off"
  BY DEF Asks, Follows, Following, Off
<1>2. req' = [req EXCEPT ![r] = Off] /\ Off # req[r]
  BY <1>1 DEF Ends
<1>3. asked[r] = req[r].op /\ moved[r] = None
  BY Place2 DEF Asks, Follows
<1>4. req[r].op \in Ops /\ req[r].op # None
  BY ServerAssumption DEF IInv, Types, Fits
<1>5. asked' = [asked EXCEPT ![r] = None] /\ moved' = [moved EXCEPT ![r] = None]
  BY <1>1, <1>2, OneAsks
<1>6. moved' = moved
  BY <1>3, <1>5 DEF moved
<1>7. overtaken' = overtaken \ {r}
  BY <1>1, <1>2, StepOvertakes
<1>8. Atomic!Accepted(files, req[r].op) = Accepted(files, req[r].op)
  <2>1. req[r].op.kind \in {"save", "create", "delete", "move"}
    BY <1>4 DEF Ops
  <2>2. QED
    BY <2>1, SameOperations
<1>9. QED
  BY <1>3, <1>4, <1>5, <1>6, <1>7, <1>8 DEF Atomic!Refuse

\* A request that has looked and goes on has handled nothing yet.
LEMMA GoesLooks ==
  ASSUME IInv, Overtakes, NEW r \in Req, NEW at, Goes(r, at), UNCHANGED <<files, crashes>>,
         req[r].at \in {"exists", "compare", "from", "to"}, at # req[r].at,
         at \in {"compare", "write", "trash", "to", "rename"}
  PROVE  Atomic!LooksAgain(r)
<1>1. PICK q : q = [req[r] EXCEPT !.at = at]
  OBVIOUS
<1>2. q.at = at /\ q.op = req[r].op /\ req' = [req EXCEPT ![r] = q] /\ q # req[r]
  BY <1>1 DEF Goes, IInv, Types, Request
<1>3. Asks(q) = Asks(req[r]) /\ Follows(q) = Follows(req[r]) /\ ~Following(q)
  BY <1>2 DEF Asks, Follows, Following
<1>4. UNCHANGED <<asked, moved>>
  BY <1>2, <1>3, StepKeeps
<1>5. overtaken' = overtaken \ {r}
  BY <1>2, <1>3, StepOvertakes
<1>6. asked[r] = req[r].op
  BY Place2 DEF Asks
<1>7. req[r].op # None
  BY ServerAssumption DEF IInv, Types, Fits
<1>8. QED
  BY <1>4, <1>5, <1>6, <1>7 DEF Atomic!LooksAgain

LEMMA LooksMaps ==
  ASSUME IInv, Overtakes, NEW r \in Req, Looks(r)
  PROVE  Atomic!Refuse(r) \/ Atomic!LooksAgain(r)
<1>1. PICK op : op = req[r].op
  OBVIOUS
<1>2. /\ UNCHANGED <<files, crashes>> /\ req[r].at \in {"exists", "from", "to"}
      /\ req[r].at \in {"from", "to"} => op.kind = "move"
  BY <1>1 DEF Looks, Place, IInv, Types, Fits, Moving
<1>3. CASE Ends(r)
  <2>1. \A at : at # "off" => ~Goes(r, at)
    BY <1>3 DEF Ends, Goes, Off, IInv, Types, Request
  <2>2. \/ op.kind = "create" /\ Exists(op.path)
        \/ op.kind = "delete" /\ ~Exists(op.path)
        \/ op.kind = "move" /\ (~Exists(op.path) \/ Exists(op.to))
    BY <1>1, <1>2, <2>1 DEF Looks, Place
  <2>3. ~Accepted(files, op)
    BY <2>2 DEF Accepted, Exists
  <2>4. QED
    BY <1>1, <1>2, <1>3, <2>3, EndsRefuses
<1>4. ASSUME ~Ends(r)
      PROVE  \E at \in {"compare", "write", "trash", "to", "rename"} :
               Goes(r, at) /\ at # req[r].at
  BY <1>4 DEF Looks, Place
<1>5. QED
  BY <1>2, <1>3, <1>4, GoesLooks

LEMMA ComparesMaps ==
  ASSUME IInv, Overtakes, NEW r \in Req, Compares(r)
  PROVE  Atomic!Refuse(r) \/ Atomic!LooksAgain(r)
<1>1. PICK op : op = req[r].op
  OBVIOUS
<1>2. UNCHANGED <<files, crashes>> /\ req[r].at = "compare" /\ op.kind = "save"
  BY <1>1 DEF Compares, Place, IInv, Types, Fits
<1>3. CASE Exists(op.path) /\ files[op.path] = op.base
  <2>1. Goes(r, "write")
    BY <1>1, <1>3 DEF Compares
  <2>2. QED
    BY <1>2, <2>1, GoesLooks
<1>4. CASE ~(Exists(op.path) /\ files[op.path] = op.base)
  <2>1. Ends(r)
    BY <1>1, <1>4 DEF Compares
  <2>2. ~Accepted(files, op) \/ r \in overtaken
    BY <1>1, <1>2, <1>4 DEF Accepted, Exists, IInv, AllReady, Ready
  <2>3. QED
    BY <1>1, <1>2, <2>1, <2>2, EndsRefuses
<1>5. QED
  BY <1>3, <1>4

\* The step by which a request is handled.
LEMMA StepTakes ==
  ASSUME IInv, Overtakes, NEW r \in Req, NEW op \in Ops, req[r].op = op, crashes' = crashes,
         req[r].at \in {"write", "trash", "rename"}, NEW q, req' = [req EXCEPT ![r] = q],
         q.at # req[r].at, Asks(q) = None, Follows(q) = IF op.kind = "move" THEN op ELSE None
  PROVE  Atomic!Taken(r) /\ asked[r] = op /\ op # None
<1>1. asked[r] = op /\ moved[r] = None /\ op # None
  BY Place2, ServerAssumption DEF Asks, Follows
<1>2. asked' = [asked EXCEPT ![r] = None] /\ moved' = [moved EXCEPT ![r] = Follows(q)]
  BY OneAsks
<1>3. moved' = IF op.kind = "move" THEN [moved EXCEPT ![r] = op] ELSE moved
  <2>1. CASE op.kind = "move"
    BY <1>2, <2>1
  <2>2. CASE op.kind # "move"
    BY <1>1, <1>2, <2>2 DEF moved
  <2>3. QED
    BY <2>1, <2>2
<1>4. ~Following(req[r])
  BY DEF Following
<1>5. Atomic!Overtaking(r, overtaken \ {r})
  BY <1>4, StepOvertakes
<1>6. QED
  BY <1>1, <1>2, <1>3, <1>5 DEF Atomic!Taken

\* What a handler leaves of the notes.
LEMMA NotesOfSame ==
  ASSUME NEW f, f = [p \in DOMAIN f |-> f[p]], NEW g, SameNotes(g, f, NotePath)
  PROVE  Atomic!NotesOf(g) = f
<1>1. DOMAIN g \cap NotePath = DOMAIN f /\ \A p \in DOMAIN f : g[p] = f[p]
  BY DEF SameNotes
<1>2. Atomic!NotesOf(g) = [p \in DOMAIN f |-> g[p]]
  BY <1>1 DEF Atomic!NotesOf, Restrict, Atomic!Restrict
<1>3. QED
  BY <1>1, <1>2

\* Handled at once when what it asks for can be had.
LEMMA StepHandles ==
  ASSUME NEW r \in Req, NEW op \in Ops, asked[r] = op, op # None, Atomic!Taken(r),
         Accepted(files, op), files' = Atomic!NotesOf(Effect(files, op))
  PROVE  Atomic!Handle(r)
<1>1. Atomic!Accepted(files, op) /\ Atomic!Effect(files, op) = Effect(files, op)
  BY SameOperations DEF Ops
<1>2. QED
  BY <1>1 DEF Atomic!Handle

LEMMA WritesMaps ==
  ASSUME IInv, Overtakes, NEW r \in Req, Writes(r)
  PROVE  Atomic!Handle(r) \/ Atomic!HandleLate(r)
<1>1. PICK op : op = req[r].op
  OBVIOUS
<1>2. /\ op \in Ops /\ op.kind \in {"save", "create"} /\ req[r].at = "write"
      /\ files' = Written(files, op.path, op.text) /\ Ends(r) /\ crashes' = crashes
  BY <1>1 DEF Writes, Place, IInv, Types, Fits
<1>3. PICK q : q = Off
  OBVIOUS
<1>4. /\ req' = [req EXCEPT ![r] = q] /\ q.at # req[r].at
      /\ Asks(q) = None /\ Follows(q) = IF op.kind = "move" THEN op ELSE None
  BY <1>2, <1>3 DEF Ends, Asks, Follows, Off
<1>5. Atomic!Taken(r) /\ asked[r] = op /\ op # None
  BY <1>1, <1>2, <1>4, StepTakes
<1>6. CASE Accepted(files, op)
  <2>1. Effect(files, op) = WithParents(Written(files, op.path, op.text), op.path)
    BY <1>2, <1>6 DEF Effect, Put
  <2>2. PICK path, f : path \in NotePath /\ path = op.path /\ f = Written(files, op.path, op.text)
    BY <1>2 DEF Ops
  <2>3. DOMAIN f \subseteq NotePath /\ f = [p \in DOMAIN f |-> f[p]]
    BY <2>2 DEF Written, IInv, Types
  <2>4. SameNotes(WithParents(f, path), f, NotePath)
    BY <2>2, <2>3, NotesAreApart, ParentsAddNoNote
  <2>5. Atomic!NotesOf(WithParents(f, path)) = f
    BY <2>3, <2>4, NotesOfSame
  <2>6. files' = Atomic!NotesOf(Effect(files, op))
    BY <1>2, <2>1, <2>2, <2>5
  <2>7. QED
    BY <1>2, <1>5, <1>6, <2>6, StepHandles
<1>7. CASE ~Accepted(files, op)
  <2>1. r \in overtaken
    BY <1>1, <1>2, <1>7 DEF IInv, AllReady, Ready
  <2>2. files' = Atomic!Written(files, op.path, op.text)
    BY <1>2 DEF Written, Atomic!Written
  <2>3. QED
    BY <1>2, <1>5, <2>1, <2>2 DEF Atomic!HandleLate
<1>8. QED
  BY <1>6, <1>7

LEMMA ToTrashMaps ==
  ASSUME IInv, Overtakes, NEW r \in Req, ToTrash(r)
  PROVE  Atomic!Handle(r) \/ Atomic!Refuse(r)
<1>1. PICK op : op = req[r].op
  OBVIOUS
<1>2. op \in Ops /\ op.kind = "delete" /\ req[r].at = "trash" /\ Ends(r) /\ crashes' = crashes
  BY <1>1 DEF ToTrash, Place, IInv, Types, Fits
<1>3. CASE Exists(op.path)
  <2>1. Accepted(files, op)
    BY <1>2, <1>3 DEF Accepted, Exists
  <2>2. files' = Removed(files, op.path) /\ Effect(files, op) = Removed(files, op.path)
    BY <1>1, <1>2, <1>3, <2>1 DEF ToTrash, Effect
  <2>3. PICK f : f = Removed(files, op.path)
    OBVIOUS
  <2>4. DOMAIN f \subseteq NotePath /\ f = [p \in DOMAIN f |-> f[p]]
    BY <2>3 DEF Removed, Restrict, IInv, Types
  <2>5. Atomic!NotesOf(f) = f
    BY <2>4, NotesOfSame DEF SameNotes
  <2>6. files' = Atomic!NotesOf(Effect(files, op))
    BY <2>2, <2>3, <2>5
  <2>7. PICK q : q = Off
    OBVIOUS
  <2>8. /\ req' = [req EXCEPT ![r] = q] /\ q.at # req[r].at
        /\ Asks(q) = None /\ Follows(q) = IF op.kind = "move" THEN op ELSE None
    BY <1>2, <2>7 DEF Ends, Asks, Follows, Off
  <2>9. Atomic!Taken(r) /\ asked[r] = op /\ op # None
    BY <1>1, <1>2, <2>8, StepTakes
  <2>10. QED
    BY <1>2, <2>1, <2>6, <2>9, StepHandles
<1>4. CASE ~Exists(op.path)
  <2>1. UNCHANGED <<files, crashes>> /\ ~Accepted(files, op)
    BY <1>1, <1>2, <1>4 DEF ToTrash, Accepted, Exists
  <2>2. QED
    BY <1>1, <1>2, <2>1, EndsRefuses
<1>5. QED
  BY <1>3, <1>4

LEMMA SameRelocated ==
  ASSUME NEW v, NEW from, NEW to
  PROVE  Atomic!Relocated(v, from, to) = Relocated(v, from, to)
<1>1. \A p, q : Atomic!IsWithin(p, q) = IsWithin(p, q)
  BY DEF Atomic!IsWithin, IsWithin, Atomic!IsStrictPrefix, IsStrictPrefix, Atomic!IsPrefix, IsPrefix
<1>2. \A p, q : Atomic!Under(p, q) = Under(p, q)
  BY <1>1 DEF Atomic!Under, Under
<1>3. QED
  BY <1>2 DEF Atomic!Relocated, Relocated, Atomic!Rebase, Rebase

LEMMA RenamesMaps ==
  ASSUME IInv, Overtakes, NEW r \in Req, Renames(r)
  PROVE  Atomic!Handle(r) \/ Atomic!HandleLate(r) \/ Atomic!Refuse(r)
<1>1. PICK op : op = req[r].op
  OBVIOUS
<1>2. /\ op \in Ops /\ op.kind = "move" /\ op.path # op.to /\ req[r].at = "rename"
      /\ req[r] \in Request /\ crashes' = crashes
  BY <1>1 DEF Renames, Place, IInv, Types, Fits, Moving
<1>3. CASE Exists(op.path)
  <2>1. files' = Relocated(files, op.path, op.to) /\ Goes(r, "sources") /\ op.path \in DOMAIN files
    BY <1>1, <1>3 DEF Renames, Exists
  <2>2. PICK q : q = [req[r] EXCEPT !.at = "sources"]
    OBVIOUS
  <2>3. q.op = op /\ q.at = "sources" /\ req' = [req EXCEPT ![r] = q]
    BY <1>1, <1>2, <2>1, <2>2 DEF Goes, IInv, Types, Request
  <2>4. q.at # req[r].at /\ Asks(q) = None /\ Follows(q) = IF op.kind = "move" THEN op ELSE None
    BY <1>2, <2>3 DEF Asks, Follows
  <2>5. Atomic!Taken(r) /\ asked[r] = op /\ op # None
    BY <1>1, <1>2, <2>3, <2>4, StepTakes
  <2>6. CASE r \in overtaken
    <3>1. files' = Atomic!Relocated(files, op.path, op.to)
      BY <2>1, SameRelocated
    <3>2. QED
      BY <1>2, <2>1, <2>5, <2>6, <3>1 DEF Atomic!HandleLate
  <2>7. CASE r \notin overtaken
    <3>1. op.to \notin DOMAIN files
      BY <1>1, <1>2, <2>7 DEF IInv, AllReady, Ready
    <3>2. ~IsWithin(op.to, op.path)
      BY <1>2, ServerAssumption DEF Ops
    <3>3. Accepted(files, op)
      BY <1>2, <2>1, <3>1, <3>2 DEF Accepted
    <3>4. Effect(files, op) = WithParents(Relocated(files, op.path, op.to), op.to)
      BY <1>2, <3>3 DEF Effect, Rename
    <3>5. PICK to, f : to \in NotePath /\ to = op.to /\ f = Relocated(files, op.path, op.to)
      BY <1>2 DEF Ops
    <3>6. DOMAIN f \subseteq NotePath
      BY <1>1, <1>3, <2>1, <3>5, RenamesLeaves
    <3>7. f = [p \in DOMAIN f |-> f[p]]
      BY <3>5 DEF Relocated
    <3>8. SameNotes(WithParents(f, to), f, NotePath)
      BY <3>5, <3>6, NotesAreApart, ParentsAddNoNote
    <3>9. Atomic!NotesOf(WithParents(f, to)) = f
      BY <3>7, <3>8, NotesOfSame
    <3>10. files' = Atomic!NotesOf(Effect(files, op))
      BY <2>1, <3>4, <3>5, <3>9
    <3>11. QED
      BY <1>2, <2>5, <3>3, <3>10, StepHandles
  <2>8. QED
    BY <2>6, <2>7
<1>4. CASE ~Exists(op.path)
  <2>1. UNCHANGED <<files, crashes>> /\ Ends(r) /\ ~Accepted(files, op)
    BY <1>1, <1>2, <1>4 DEF Renames, Accepted, Exists
  <2>2. QED
    BY <1>1, <1>2, <2>1, EndsRefuses
<1>5. QED
  BY <1>3, <1>4

LEMMA ArriveAsks ==
  ASSUME IInv, Overtakes, NEW r \in Req, NEW op \in Asked, Arrive(r, op)
  PROVE  Atomic!Ask(r)
<1>1. PICK q : q = [Off EXCEPT !.at = FirstStep(op), !.op = op]
  OBVIOUS
<1>2. op \in Ops /\ made < MaxRequests
  BY AskedInOps DEF Arrive
<1>3. q.op = op /\ q.at \in {"from", "exists"}
  BY <1>1 DEF Off, FirstStep
<1>4. req' = [req EXCEPT ![r] = q] /\ UNCHANGED <<files, crashes>> /\ req[r].at = "off"
  BY <1>1 DEF Arrive, Place
<1>5. asked[r] = None /\ moved[r] = None
  BY <1>4 DEF asked, moved
<1>6. Asks(q) = op /\ Follows(q) = None
  BY <1>3 DEF Asks, Follows
<1>7. asked' = [asked EXCEPT ![r] = op]
  <2>1. asked' = [asked EXCEPT ![r] = Asks(q)]
    BY <1>4, OneAsks
  <2> QED
    BY ONLY <1>6, <2>1
<1>8. moved' = [moved EXCEPT ![r] = None]
  <2>1. moved' = [moved EXCEPT ![r] = Follows(q)]
    BY <1>4, OneAsks
  <2> QED
    BY ONLY <1>6, <2>1
<1>9. asked'[r] = op /\ moved' = moved
  <2>1. asked \in [Req -> Range(asked)] /\ moved = [s \in Req |-> moved[s]]
    BY DEF asked, moved, Range
  <2> HIDE DEF asked, moved
  <2> QED
    BY <1>5, <1>7, <1>8, <2>1
<1>10. overtaken' = overtaken
  <2>1. overtaken' = overtaken \ {r}
    BY <1>3, <1>4, StepOvertakes DEF Following
  <2>2. r \notin overtaken
    BY <1>4 DEF IInv, OvertakenLooked
  <2>3. QED
    BY <2>1, <2>2
<1>11. QED
  BY <1>2, <1>4, <1>5, <1>7, <1>9, <1>10 DEF Atomic!Ask

\* A move that goes on following links has changed nothing, or is answered when none that
\* nothing overtook is left.
LEMMA SourcesMaps ==
  ASSUME IInv, Overtakes, NEW r \in Req, FindsSources(r) \/ ReadsSource(r)
  PROVE  Atomic!Answer(r) \/ UNCHANGED <<files, asked, moved, overtaken, crashes>>
<1>1. PICK op : op = req[r].op
  OBVIOUS
<1>2. /\ UNCHANGED <<files, crashes>> /\ req[r].at \in {"sources", "next"} /\ req[r] \in Request
      /\ op \in Ops /\ op # None
  BY <1>1, ServerAssumption DEF FindsSources, ReadsSource, Place, IInv, Types, Fits
<1>3. CASE Ends(r)
  <2>1. req[r].at = "next" /\ req[r].todo = {}
    <3>1. req'[r].at = "off" /\ req \in [Req -> Request]
      BY <1>3 DEF Ends, Off, IInv, Types
    <3>2. ~FindsSources(r)
      BY <3>1 DEF FindsSources, Request
    <3>3. req[r].at = "next"
      BY <3>2 DEF ReadsSource, Place
    <3>4. ASSUME NEW n, req' = [req EXCEPT ![r].at = "relink", ![r].todo = @ \ {n},
                                           ![r].seen = [path |-> n, text |-> files[n]]]
          PROVE  FALSE
      BY <3>1, <3>4 DEF Request
    <3>5. ASSUME NEW n, req' = [req EXCEPT ![r].todo = @ \ {n}] PROVE FALSE
      BY <3>1, <3>3, <3>5 DEF Request
    <3>6. QED
      BY <3>2, <3>3, <3>4, <3>5 DEF ReadsSource
  <2>2. Atomic!Links(files, op.path) = {} \/ r \in overtaken
    <3>1. Atomic!Links(files, op.path) = LinkingTo(op.path)
      BY DEF LinkingTo, Atomic!Links
    <3>2. QED
      BY <1>1, <2>1, <3>1 DEF IInv, AllReady, Ready
  <2>3. Asks(Off) = None /\ Follows(Off) = None /\ ~Following(Off) /\ Off.at = "off"
    BY DEF Asks, Follows, Following, Off
  <2>4. req' = [req EXCEPT ![r] = Off] /\ Off # req[r]
    BY <1>2, <1>3, <2>3 DEF Ends
  <2>5. asked[r] = None /\ moved[r] = op
    BY <1>1, <2>1, Place2 DEF Asks, Follows
  <2>6. asked' = [asked EXCEPT ![r] = None] /\ moved' = [moved EXCEPT ![r] = None]
    BY <2>3, <2>4, OneAsks
  <2>7. asked' = asked
    BY <2>5, <2>6 DEF asked
  <2>8. overtaken' = overtaken \ {r}
    BY <1>2, <2>3, <2>4, StepOvertakes
  <2>9. QED
    BY <1>2, <2>2, <2>5, <2>6, <2>7, <2>8 DEF Atomic!Answer
<1>4. CASE ~Ends(r)
  <2>1. PICK q : q = req'[r]
    OBVIOUS
  <2>2. req' = [req EXCEPT ![r] = q]
    BY <1>4, <2>1 DEF FindsSources, ReadsSource, IInv, Types, Request
  <2>3. q.op = op /\ q.at \in {"next", "relink"} /\ q # req[r]
    <3>1. req \in [Req -> Request]
      BY DEF IInv, Types
    <3>2. ASSUME req' = [req EXCEPT ![r].at = "next", ![r].todo = LinkingTo(req[r].op.path)],
                 req[r].at = "sources"
          PROVE  q.op = op /\ q.at \in {"next", "relink"} /\ q # req[r]
      BY <1>1, <2>1, <3>1, <3>2 DEF Request
    <3>3. ASSUME NEW n, req' = [req EXCEPT ![r].at = "relink", ![r].todo = @ \ {n},
                                           ![r].seen = [path |-> n, text |-> files[n]]]
          PROVE  q.op = op /\ q.at \in {"next", "relink"} /\ q # req[r]
      BY <1>1, <1>2, <2>1, <3>1, <3>3 DEF Request
    <3>4. ASSUME NEW n \in req[r].todo, req' = [req EXCEPT ![r].todo = @ \ {n}], req[r].at = "next"
          PROVE  q.op = op /\ q.at \in {"next", "relink"} /\ q # req[r]
      BY <1>1, <2>1, <3>1, <3>4 DEF Request
    <3>5. QED
      BY <1>4, <3>2, <3>3, <3>4 DEF FindsSources, ReadsSource, Place
  <2>4. Asks(q) = Asks(req[r]) /\ Follows(q) = Follows(req[r])
    BY <1>1, <1>2, <2>3 DEF Asks, Follows
  <2>5. UNCHANGED <<asked, moved>>
    BY <2>2, <2>4, StepKeeps
  <2>6. overtaken' = overtaken
    <3>1. CASE req[r].at = "next"
      BY <1>2, <2>2, <2>3, <3>1, StepOvertakes DEF Following
    <3>2. CASE req[r].at = "sources"
      <4>1. r \notin overtaken
        BY <3>2 DEF IInv, OvertakenLooked
      <4>2. overtaken' = overtaken \ {r}
        BY <1>2, <2>2, <2>3, <3>2, StepOvertakes DEF Following
      <4>3. QED
        BY <4>1, <4>2
    <3>3. QED
      BY <1>2, <3>1, <3>2
  <2>7. QED
    BY <1>2, <2>5, <2>6
<1>5. QED
  BY <1>3, <1>4

LEMMA WritesSourceMaps ==
  ASSUME IInv, Overtakes, NEW r \in Req, WritesSource(r)
  PROVE  \E n \in NotePath : Atomic!FollowLate(r, n) \/ (n \in DOMAIN files /\ Atomic!Follow(r, n))
<1>1. PICK op, n, t : /\ op = req[r].op /\ n = req[r].seen.path
                      /\ t = [req[r].seen.text EXCEPT !.link = op.to]
  OBVIOUS
<1>2. /\ t \in Text /\ t.link = op.to /\ op \in Ops /\ op # None /\ n \in NotePath
      /\ req[r].seen.text \in Text /\ req[r].seen.text.link = op.path
      /\ files' = Written(files, n, t)
  BY <1>1, WritesSourceLeaves, ServerAssumption
<1>3. req[r].at = "relink" /\ req[r] \in Request /\ crashes' = crashes
  BY DEF WritesSource, Place, IInv, Types
<1>4. PICK q : q = [req[r] EXCEPT !.at = "next"]
  OBVIOUS
<1>5. q.op = op /\ q.at = "next" /\ req' = [req EXCEPT ![r] = q] /\ q # req[r]
  BY <1>1, <1>3, <1>4 DEF WritesSource, Goes, IInv, Types, Request
<1>6. Asks(q) = Asks(req[r]) /\ Follows(q) = Follows(req[r])
  BY <1>1, <1>3, <1>5 DEF Asks, Follows
<1>7. UNCHANGED <<asked, moved>>
  BY <1>5, <1>6, StepKeeps
<1>8. moved[r] = op
  BY <1>1, <1>3, Place2 DEF Follows
<1>9. Atomic!Overtaking(r, overtaken)
  BY <1>3, <1>5, StepOvertakes DEF Following
<1>10. files' = Atomic!Written(files, n, t) /\ n \in DOMAIN files' /\ files'[n] = t
  BY <1>2 DEF Written, Atomic!Written
<1>11. CASE r \in overtaken
  <2>1. Atomic!FollowLate(r, n)
    BY <1>2, <1>3, <1>7, <1>8, <1>9, <1>10, <1>11 DEF Atomic!FollowLate
  <2>2. QED
    BY <1>2, <2>1
<1>12. CASE r \notin overtaken
  <2>1. n \in DOMAIN files /\ files[n] = req[r].seen.text
    BY <1>1, <1>3, <1>12 DEF IInv, AllReady, Ready
  <2>2. Atomic!Relinked(files[n], op.path, op.to) = t
    BY <1>1, <1>2, <2>1 DEF Atomic!Relinked, Text
  <2>3. Atomic!Follow(r, n)
    BY <1>2, <1>3, <1>7, <1>8, <1>9, <1>10, <2>1, <2>2 DEF Atomic!Follow
  <2>4. QED
    BY <1>2, <2>1, <2>3
<1>13. QED
  BY <1>11, <1>12

LEMMA CrashCutsOff ==
  ASSUME IInv, Overtakes, Crash
  PROVE  Atomic!CutOff
<1>1. \A r \in Req : req'[r].at = "off"
  BY DEF Crash, Off
<1>2. files' = files /\ crashes' = crashes + 1
  BY DEF Crash
<1>3. asked' = [r \in Req |-> None] /\ moved' = [r \in Req |-> None]
  BY <1>1 DEF asked, moved
<1>4. overtaken' = {}
  BY CrashStep
<1>5. QED
  BY <1>2, <1>3, <1>4 DEF Atomic!CutOff, Atomic!Idle

\* Each step of a request is a step of AtomicVault, or none of it.
LEMMA StepMaps ==
  ASSUME IInv, [Next]_vars
  PROVE  Atomic!Next \/ UNCHANGED <<files, asked, moved, overtaken, crashes>>
<1>1. ASSUME Overtakes, NEW r \in Req, NEW op \in Asked, Arrive(r, op) PROVE Atomic!Next
  BY <1>1, ArriveAsks DEF Atomic!Next
<1>2. ASSUME Overtakes, NEW r \in Req, Looks(r) \/ Compares(r) PROVE Atomic!Next
  BY <1>2, LooksMaps, ComparesMaps DEF Atomic!Next
<1>3. ASSUME Overtakes, NEW r \in Req, Writes(r) \/ ToTrash(r) \/ Renames(r) PROVE Atomic!Next
  BY <1>3, WritesMaps, ToTrashMaps, RenamesMaps DEF Atomic!Next
<1>4. ASSUME Overtakes, NEW r \in Req, WritesSource(r) PROVE Atomic!Next
  BY <1>4, WritesSourceMaps DEF Atomic!Next
<1>5. ASSUME Overtakes, NEW r \in Req, FindsSources(r) \/ ReadsSource(r)
      PROVE  Atomic!Next \/ UNCHANGED <<files, asked, moved, overtaken, crashes>>
  BY <1>5, SourcesMaps DEF Atomic!Next
<1>6. ASSUME Overtakes, Crash PROVE Atomic!Next
  BY <1>6, CrashCutsOff DEF Atomic!Next
<1>7. CASE UNCHANGED vars
  BY <1>7 DEF vars, asked, moved
<1>8. QED
  BY <1>1, <1>2, <1>3, <1>4, <1>5, <1>6, <1>7 DEF Next, Step

\* However requests on one note overlap, each is handled at once on the notes as they are
\* then, or refused; a move is answered when no link to the old path is left; a crash
\* alone cuts them off.  One that another has overtaken since it looked, and no other, may
\* write regardless: the awaits of routes/notes.rs are observable in no other way.
THEOREM RequestsAreAtomic == Spec => IsAtomic
<1>1. Init => Atomic!Init
  BY DEF Init, Off, Atomic!Init, Atomic!Idle, asked, moved
<1>2. IInv /\ [Next]_vars => [Atomic!Next]_<<files, asked, moved, overtaken, crashes>>
  BY StepMaps
<1>3. Spec => []IInv
  BY Invariance
<1>4. QED
  BY <1>1, <1>2, <1>3, PTL DEF Spec, IsAtomic, Atomic!Spec
=============================================================================
