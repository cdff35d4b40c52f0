---------------------------- MODULE AtomicVault ----------------------------
(***************************************************************************)
(* What a client may take the note requests for: each is asked, handled at *)
(* once on the files as they are, and answered.  A move then updates the   *)
(* notes that link to the note it moved, one at a time, each as it is, and *)
(* is answered when none is left.  Two things are less than that.  A crash *)
(* cuts off whatever is under way; and a request whose notes another one   *)
(* changes may, from then on, be carried out without regard to it.         *)
(***************************************************************************)
EXTENDS VaultFiles

CONSTANTS
  NotePath,   \* the paths of notes
  Req,    \* the requests that can be under way at once
  Ops,    \* what they can ask for
  None    \* no request
VARIABLES
  files,   \* the notes: path -> text
  asked,   \* what each request asks for and has not got
  moved,   \* the move each request is following the links of
  overtaken, crashes

\* Of what a handler leaves, the notes: the folders that come with a path are not.
NotesOf(v) == Restrict(v, DOMAIN v \cap NotePath)

\* A text is [id, link]: the note it links to, or Nothing.
Relinked(text, from, to) == [text EXCEPT !.link = IF @ = from THEN to ELSE @]
Links(f, path) == {n \in DOMAIN f : f[n].link = path}

\* The requests under way, but r, that a change of the files is about.
Disturbed(r) ==
  {q \in Req \ {r} :
     \/ asked[q] # None /\ {asked[q].path, asked[q].to} \cap Changed(files, files') # {}
     \/ moved[q] # None /\ Changed(files, files') \cap
                             (Links(files, moved[q].path) \cup Links(files', moved[q].path)) # {}}
Overtaking(r, then) == \E S \in SUBSET Disturbed(r) : overtaken' = then \cup S

Ask(r) ==
  /\ asked[r] = None /\ moved[r] = None
  /\ asked'[r] \in Ops /\ asked' = [asked EXCEPT ![r] = asked'[r]]
  /\ UNCHANGED <<files, moved, overtaken, crashes>>
LooksAgain(r) ==
  /\ asked[r] # None /\ overtaken' = overtaken \ {r}
  /\ UNCHANGED <<files, asked, moved, crashes>>
Taken(r) ==
  /\ asked' = [asked EXCEPT ![r] = None]
  /\ moved' = IF asked[r].kind = "move" THEN [moved EXCEPT ![r] = asked[r]] ELSE moved
  /\ Overtaking(r, overtaken \ {r}) /\ UNCHANGED crashes
Handle(r) ==
  /\ asked[r] # None /\ Accepted(files, asked[r])
  /\ files' = NotesOf(Effect(files, asked[r])) /\ Taken(r)
\* Over whatever is there by now.
HandleLate(r) ==
  /\ asked[r] # None /\ r \in overtaken
  /\ LET op == asked[r]
     IN  \/ op.kind \in {"save", "create"} /\ files' = Written(files, op.path, op.text)
         \/ /\ op.kind = "move" /\ op.path \in DOMAIN files
            /\ files' = Relocated(files, op.path, op.to)
  /\ Taken(r)
Follow(r, n) ==
  /\ moved[r] # None
  /\ files[n].link = moved[r].path
  /\ files' = Written(files, n, Relinked(files[n], moved[r].path, moved[r].to))
  /\ Overtaking(r, overtaken) /\ UNCHANGED <<asked, moved, crashes>>
\* With a text the note had.
FollowLate(r, n) ==
  /\ moved[r] # None /\ r \in overtaken
  /\ n \in DOMAIN files' /\ files'[n].link = moved[r].to
  /\ files' = Written(files, n, files'[n])
  /\ Overtaking(r, overtaken) /\ UNCHANGED <<asked, moved, crashes>>
Refuse(r) ==
  /\ asked[r] # None /\ (~Accepted(files, asked[r]) \/ r \in overtaken)
  /\ asked' = [asked EXCEPT ![r] = None] /\ overtaken' = overtaken \ {r}
  /\ UNCHANGED <<files, moved, crashes>>
Answer(r) ==
  /\ moved[r] # None /\ (Links(files, moved[r].path) = {} \/ r \in overtaken)
  /\ moved' = [moved EXCEPT ![r] = None] /\ overtaken' = overtaken \ {r}
  /\ UNCHANGED <<files, asked, crashes>>
Idle == [r \in Req |-> None]
CutOff ==
  /\ crashes' = crashes + 1
  /\ asked' = Idle /\ moved' = Idle /\ overtaken' = {} /\ UNCHANGED files
Init == asked = Idle /\ moved = Idle /\ overtaken = {} /\ crashes = 0
Next ==
  \/ \E r \in Req : \/ Ask(r) \/ LooksAgain(r) \/ Handle(r) \/ HandleLate(r)
                    \/ Refuse(r) \/ Answer(r)
  \/ \E r \in Req, n \in NotePath : FollowLate(r, n) \/ (n \in DOMAIN files /\ Follow(r, n))
  \/ CutOff
Spec == Init /\ [][Next]_<<files, asked, moved, overtaken, crashes>>
=============================================================================
