----------------------------- MODULE Workspace -----------------------------
(***************************************************************************)
(* The open tabs, the one editor they share and what leaves it:            *)
(* ui/src/state.rs (the tab list), components/editor_pane.rs (the effect   *)
(* that loads the active note, the autosave timer, the re-read), the tree, *)
(* palette and link handlers that create, move and delete notes, and the   *)
(* saves of save.rs, one run per path.  SaveSlot models one path's saves   *)
(* in full; here they are reduced to what several notes can tell apart.    *)
(*                                                                         *)
(* A text is the note it was written in and the edits it holds; a content  *)
(* hash is the text it is the hash of.  Effects and closures that Leptos   *)
(* runs in the microtask after a signal is set are part of the step that   *)
(* sets it (Settles).                                                      *)
(***************************************************************************)
EXTENDS Integers, Sequences, SequencesExt, FiniteSets

CONSTANTS
  Paths,       \* the names a note can have
  Birth,       \* the paths that hold a note at first; such a note is named by its path
  Fresh,       \* the notes that can be created
  None,        \* no path, no text, no timer, no request
  Hasty,       \* what the user does without waiting, see Patient
  MaxEdits,    \* keystrokes
  MaxOps,      \* notes created, moved or deleted
  MaxRereads,  \* times a sync asks for the open note again
  MaxSaves,    \* presses of Ctrl+S
  MaxLoads     \* reads under way when the user turns to another tab

Notes == Birth \cup Fresh
Text == [note : Notes, edits : SUBSET (1 .. MaxEdits)]
MaybeText == Text \cup {None}
Operation == [kind : {"create", "move", "delete"}, from : Paths \cup {None},
              to : Paths \cup {None}, note : MaybeText, stage : {"asked", "done", "failed"}]

ASSUME WorkspaceAssumption ==
  /\ Birth \subseteq Paths /\ Birth \cap Fresh = {} /\ None \notin Paths \cup Fresh
  /\ Hasty \subseteq {"loading", "saving", "leaving", "moving"}
  /\ {MaxEdits, MaxOps, MaxRereads, MaxSaves, MaxLoads} \subseteq Nat
  /\ None \notin Text \cup Operation

VARIABLES
  files,    \* what the server has under each path
  home,     \* history: the note whose file each path is
  tabs,     \* state.tabs: path, content_hash and dirty of each
  active,   \* state.active, 0 for none
  view,     \* state.main_view
  pane,     \* the cells of the EditorPane: up, loaded, screen, pending, timer
  loads,    \* reads the pane has started, in the order it did
  slots,    \* save.rs SLOTS: queued, base, blocked, and the run of each path
  op,       \* the create, move or delete under way
  typed,    \* history: the note each edit was typed in
  left      \* what is left of the bounds

ui == <<tabs, active, view>>
vars == <<files, home, tabs, active, view, pane, loads, slots, op, typed, left>>

Blank == [up |-> FALSE, loaded |-> None, screen |-> None, pending |-> None, timer |-> None]

-----------------------------------------------------------------------------
(* state.rs: the tab list. *)

TabAt(t, p) == IF \E i \in DOMAIN t : t[i].path = p
               THEN CHOOSE i \in DOMAIN t : t[i].path = p /\ \A j \in 1 .. i - 1 : t[j].path # p
               ELSE 0

\* hash_for: empty for a note that has no tab.
HashFor(t, p) == IF TabAt(t, p) = 0 THEN None ELSE t[TabAt(t, p)].hash

\* The list is not searched first.
OpenTab_Again(t, p) == Append(t, [path |-> p, hash |-> None, dirty |-> FALSE])

OpenTab(t, p) == IF TabAt(t, p) # 0 THEN t
                 ELSE Append(t, [path |-> p, hash |-> None, dirty |-> FALSE])

CloseTab(t, i) == RemoveAt(t, i)

\* The active index after tab i of n has gone.
ActiveAfterClose(a, i, n) == CASE n = 1 -> 0
                               [] n # 1 /\ a > i -> a - 1
                               [] n # 1 /\ a = i -> IF i <= n - 1 THEN i ELSE n - 1
                               [] OTHER -> a

RenameTab(t, from, to) ==
  [i \in DOMAIN t |-> IF t[i].path = from THEN [t[i] EXCEPT !.path = to] ELSE t[i]]

\* No two tabs hold one note, so no more than one goes.
CloseTabsUnder(t, p) == IF TabAt(t, p) = 0 THEN t ELSE CloseTab(t, TabAt(t, p))

Marked(t, p, d) == [i \in DOMAIN t |-> IF t[i].path = p THEN [t[i] EXCEPT !.dirty = d] ELSE t[i]]

Hashed(t, p, h) == [i \in DOMAIN t |-> IF t[i].path = p THEN [t[i] EXCEPT !.hash = h] ELSE t[i]]

\* mark_dirty and set_hash leave the list alone, and so wake nobody, when a tab
\* of that path already says so.
Wakes(t, u, p) == TabAt(t, p) = 0 \/ t # u

-----------------------------------------------------------------------------
(* save.rs: one run per path, the newest text waiting behind it. *)

Idle(p) == slots[p].stage = "idle" /\ slots[p].queued = None

\* resolve_hash: the tab's token, or a read when it has none.
Started(s, t, p, text) ==
  [s EXCEPT ![p].text = text, ![p].token = HashFor(t, p),
            ![p].stage = IF HashFor(t, p) = None THEN "resolve" ELSE "send"]

Request(s, t, p, text) == IF s[p].blocked \/ s[p].stage # "idle"
                          THEN [s EXCEPT ![p].queued = text]
                          ELSE Started(s, t, p, text)

Opened(s, p, text) == [s EXCEPT ![p].base = text, ![p].blocked = FALSE]

-----------------------------------------------------------------------------
(* The load effect of the pane, and the closure that shows the pane. *)

\* The text in hand goes with its timer.
Flush_Drops(s, t, pn) == s

\* Switching away from a note sends the text its timer was holding.
Flush(s, t, pn) == IF pn.pending = None \/ pn.loaded = None THEN s
                   ELSE Request(s, t, pn.loaded, pn.pending)

Load(p, again) == [path |-> p, again |-> again, ours |-> TRUE]

\* The pane is built when the first tab opens in the editor view and taken down
\* with the last one or by the graph; the reads of a pane that is gone still end.
Orphaned(l) == [i \in DOMAIN l |-> [l[i] EXCEPT !.ours = FALSE]]

Settles(t, a, v, pn, s, l) ==
  LET up == v = "Editor" /\ t # <<>>
      now == IF ~up THEN Blank ELSE IF pn.up THEN pn ELSE [Blank EXCEPT !.up = TRUE]
      past == IF up /\ pn.up THEN l ELSE Orphaned(l)
      loading == up /\ t[a].path # now.loaded
  IN /\ tabs' = t /\ active' = a /\ view' = v
     /\ pane' = IF loading THEN [now EXCEPT !.pending = None, !.timer = None] ELSE now
     /\ slots' = IF loading THEN Flush(s, t, now) ELSE s
     /\ loads' = IF loading THEN Append(past, Load(t[a].path, FALSE)) ELSE past

-----------------------------------------------------------------------------
(* The user. *)

Waiting == \E i \in DOMAIN loads : loads[i].ours
Unsaved(p) == ~Idle(p) \/ (pane.loaded = p /\ (pane.pending # None \/ pane.timer # None))

\* What a user who is not hasty waits for before another tab, or none, comes to
\* the front: what was asked has been answered, the notes left behind have been
\* saved, and a pane that goes has nothing in hand.
Patient(t, v) ==
  LET up == v = "Editor" /\ t # <<>> IN
     /\ Len(loads) < MaxLoads
     /\ "loading" \notin Hasty => (~Waiting /\ op = None)
     /\ "saving" \notin Hasty => \A p \in Paths : p = pane.loaded \/ Idle(p)
     /\ "leaving" \notin Hasty => (up \/ pane.pending = None)

InMotion == IF op = None THEN {} ELSE {op.from, op.to}

Spend(what) == left[what] > 0 /\ left' = [left EXCEPT ![what] = @ - 1]

\* The tree, the palette, a panel, a link or the graph opens a note, which may
\* be gone by then or, off line, never have been on this device.
Opens(p) ==
  LET t == OpenTab(tabs, p) IN
  /\ Patient(t, "Editor")
  /\ Settles(t, TabAt(t, p), "Editor", pane, slots, loads)
  /\ UNCHANGED <<files, home, op, typed, left>>

ClicksTab(i) ==
  /\ i # active /\ Patient(tabs, view)
  /\ Settles(tabs, i, view, pane, slots, loads)
  /\ UNCHANGED <<files, home, op, typed, left>>

Closes(i) ==
  LET t == CloseTab(tabs, i)
      a == ActiveAfterClose(active, i, Len(tabs))
  IN /\ Patient(t, view)
     /\ Settles(t, a, view, pane, slots, loads)
     /\ UNCHANGED <<files, home, op, typed, left>>

ShowsGraph(v) ==
  /\ v # view /\ Patient(tabs, v)
  /\ Settles(tabs, active, v, pane, slots, loads)
  /\ UNCHANGED <<files, home, op, typed, left>>

\* on_change: the text belongs to the path the editor was last loaded for.
Types ==
  LET n == Len(typed) + 1
      text == [pane.screen EXCEPT !.edits = @ \cup {n}]
      held == [pane EXCEPT !.screen = text, !.pending = text,
                           !.timer = [path |-> pane.loaded, text |-> text]]
      t == Marked(tabs, pane.loaded, TRUE)
  IN /\ pane.up /\ pane.loaded # None /\ n <= MaxEdits
     /\ "loading" \notin Hasty => ~Waiting
     /\ "moving" \notin Hasty => pane.loaded \notin InMotion
     /\ typed' = Append(typed, home[tabs[active].path])
     /\ IF Wakes(tabs, t, pane.loaded)
        THEN Settles(t, active, view, held, slots, loads)
        ELSE pane' = held /\ UNCHANGED <<ui, slots, loads>>
     /\ UNCHANGED <<files, home, op, left>>

\* The autosave timer, for the path and the text it was set with.
TimerFires ==
  /\ pane.timer # None
  /\ slots' = Request(slots, tabs, pane.timer.path, pane.timer.text)
  /\ pane' = [pane EXCEPT !.pending = None, !.timer = None]
  /\ UNCHANGED <<files, home, ui, loads, op, typed, left>>

\* Ctrl+S takes the text in hand but leaves the timer.
PressesSave ==
  /\ Spend("saves") /\ pane.up /\ pane.loaded # None
  /\ "loading" \notin Hasty => ~Waiting
  /\ "moving" \notin Hasty => pane.loaded \notin InMotion
  /\ slots' = Request(slots, tabs, pane.loaded, pane.screen)
  /\ pane' = [pane EXCEPT !.pending = None]
  /\ UNCHANGED <<files, home, ui, loads, op, typed>>

-----------------------------------------------------------------------------
(* Answers to the reads of the pane. *)

Without(k) == RemoveAt(loads, k)

\* The answer becomes the document, whichever note is in front by then: a load
\* also names it the note the editor holds, a re-read does not.
LoadAnswered(k) ==
  LET p == loads[k].path
      text == files[p]
      t == Marked(Hashed(tabs, p, text), p, FALSE)
      pn == IF ~loads[k].ours THEN pane
            ELSE [pane EXCEPT !.screen = text,
                              !.loaded = IF loads[k].again THEN @ ELSE p]
      s == Opened(slots, p, text)
  IN /\ text # None
     /\ IF Wakes(tabs, t, p)
        THEN Settles(t, active, view, pn, s, Without(k))
        ELSE pane' = pn /\ slots' = s /\ loads' = Without(k) /\ UNCHANGED ui
     /\ UNCHANGED <<files, home, op, typed, left>>

\* The tab of a note that could not be read stays.
LoadFails_KeepsTab(k) ==
  /\ files[loads[k].path] = None /\ loads' = Without(k)
  /\ UNCHANGED <<ui, pane, slots, files, home, op, typed, left>>

\* A note that could not be read takes its tab with it; a re-read says nothing.
CloseTabWithPath(p, l) ==
  LET i == TabAt(tabs, p) IN
  IF i = 0 THEN loads' = l /\ UNCHANGED <<ui, pane, slots>>
  ELSE Settles(CloseTab(tabs, i), ActiveAfterClose(active, i, Len(tabs)), view, pane, slots, l)
LoadFails(k) ==
  /\ files[loads[k].path] = None
  /\ IF loads[k].again THEN loads' = Without(k) /\ UNCHANGED <<ui, pane, slots>>
     ELSE CloseTabWithPath(loads[k].path, Without(k))
  /\ UNCHANGED <<files, home, op, typed, left>>

\* reload_requested, after a sync or a conflict answered for the server.
Rereads ==
  /\ Spend("rereads") /\ pane.up /\ pane.loaded # None
  /\ "loading" \notin Hasty => (~Waiting /\ op = None)
  /\ "saving" \notin Hasty => ~Unsaved(pane.loaded)
  /\ loads' = Append(loads, Load(pane.loaded, TRUE))
  /\ UNCHANGED <<files, home, ui, pane, slots, op, typed>>

-----------------------------------------------------------------------------
(* The runs of save.rs and the server's save handler. *)

Resolves(p) ==
  /\ slots[p].stage = "resolve"
  /\ slots' = [slots EXCEPT ![p].token = files[p], ![p].stage = "send"]
  /\ UNCHANGED <<files, home, ui, pane, loads, op, typed, left>>

\* A missing file is written whatever the token says.
ServerSaves(p) ==
  LET taken == files[p] \in {None, slots[p].token} IN
  /\ slots[p].stage = "send"
  /\ slots' = [slots EXCEPT ![p].stage = IF taken THEN "saved" ELSE "refused",
                            ![p].token = IF taken THEN slots[p].text ELSE files[p]]
  /\ files' = IF taken THEN [files EXCEPT ![p] = slots[p].text] ELSE files
  /\ UNCHANGED <<home, ui, pane, loads, op, typed, left>>

\* The run goes on with the text that has been waiting, if any.
Onward(s, t, p) ==
  IF s[p].queued = None THEN [s EXCEPT ![p].stage = "idle", ![p].text = None, ![p].token = None]
  ELSE [s EXCEPT ![p].text = s[p].queued, ![p].queued = None,
                 ![p].token = HashFor(t, p), ![p].stage = "send"]

Saved(p) ==
  LET t == Marked(Hashed(tabs, p, slots[p].token), p, FALSE)
      s == Onward([slots EXCEPT ![p].base = slots[p].text], t, p)
  IN /\ \/ slots[p].stage = "saved"
        \/ slots[p].stage = "refused" /\ slots[p].token = slots[p].text
     /\ IF Wakes(tabs, t, p)
        THEN Settles(t, active, view, pane, s, loads)
        ELSE slots' = s /\ UNCHANGED <<ui, pane, loads>>
     /\ UNCHANGED <<files, home, op, typed, left>>

\* The server's text is the one this text was written from: send it again.
\* Any other text is left to the merge and the dialog, which SaveSlot models.
Refused(p) ==
  /\ slots[p].stage = "refused" /\ slots[p].token # slots[p].text
  /\ slots' = IF slots[p].base = slots[p].token THEN [slots EXCEPT ![p].stage = "send"]
              ELSE [slots EXCEPT ![p].blocked = TRUE, ![p].stage = "idle",
                                 ![p].text = None, ![p].token = None]
  /\ UNCHANGED <<files, home, ui, pane, loads, op, typed, left>>

-----------------------------------------------------------------------------
(* Creating, moving and deleting notes: asked, done by the server, answered. *)

Asks(kind, from, to) ==
  /\ Spend("ops") /\ op = None
  /\ "loading" \notin Hasty => ~Waiting
  /\ "saving" \notin Hasty => \A p \in Paths : p = pane.loaded \/ Idle(p)
  /\ "moving" \notin Hasty => \A p \in {from, to} \ {None} : ~Unsaved(p)
  /\ op' = [kind |-> kind, from |-> from, to |-> to, note |-> None, stage |-> "asked"]
  /\ UNCHANGED <<files, home, ui, pane, loads, slots, typed>>

AsksCreate(p) == Asks("create", None, p)
\* A link is followed to its note, or to a new one.
FollowsLink(p) == IF files[p] # None THEN Opens(p) ELSE AsksCreate(p)
AsksMove(p, q) == files[p] # None /\ p # q /\ Asks("move", p, q)
AsksDelete(p) == files[p] # None /\ Asks("delete", p, None)

ServerCreates(n) ==
  LET text == [note |-> n, edits |-> {}] IN
  /\ op # None /\ op.kind = "create" /\ op.stage = "asked"
  /\ \A p \in Paths : home[p] # n
  /\ IF files[op.to] # None
     THEN op' = [op EXCEPT !.stage = "failed"] /\ UNCHANGED <<files, home>>
     ELSE /\ files' = [files EXCEPT ![op.to] = text]
          /\ home' = [home EXCEPT ![op.to] = n]
          /\ op' = [op EXCEPT !.stage = "done", !.note = text]
  /\ UNCHANGED <<ui, pane, loads, slots, typed, left>>

ServerMoves ==
  /\ op # None /\ op.kind = "move" /\ op.stage = "asked"
  /\ IF files[op.from] = None \/ files[op.to] # None
     THEN op' = [op EXCEPT !.stage = "failed"] /\ UNCHANGED <<files, home>>
     ELSE /\ files' = [files EXCEPT ![op.to] = files[op.from], ![op.from] = None]
          /\ home' = [home EXCEPT ![op.to] = home[op.from], ![op.from] = None]
          /\ op' = [op EXCEPT !.stage = "done"]
  /\ UNCHANGED <<ui, pane, loads, slots, typed, left>>

ServerDeletes ==
  /\ op # None /\ op.kind = "delete" /\ op.stage = "asked"
  /\ IF files[op.from] = None
     THEN op' = [op EXCEPT !.stage = "failed"] /\ UNCHANGED <<files, home>>
     ELSE /\ files' = [files EXCEPT ![op.from] = None]
          /\ home' = [home EXCEPT ![op.from] = None]
          /\ op' = [op EXCEPT !.stage = "done"]
  /\ UNCHANGED <<ui, pane, loads, slots, typed, left>>

\* The new note's tab has its token before the load effect runs.
CreateAnswered ==
  LET t == Hashed(OpenTab(tabs, op.to), op.to, op.note) IN
  /\ op # None /\ op.kind = "create" /\ op.stage = "done"
  /\ Settles(t, TabAt(t, op.to), "Editor", pane, Opened(slots, op.to, op.note), loads)
  /\ op' = None /\ UNCHANGED <<files, home, typed, left>>

MoveAnswered ==
  /\ op # None /\ op.kind = "move" /\ op.stage = "done"
  /\ Settles(RenameTab(tabs, op.from, op.to), active, view, pane, slots, loads)
  /\ op' = None /\ UNCHANGED <<files, home, typed, left>>

\* Whatever tab was in front, the last of those that stay is now.
DeleteAnswered ==
  LET t == CloseTabsUnder(tabs, op.from) IN
  /\ op # None /\ op.kind = "delete" /\ op.stage = "done"
  /\ Settles(t, Len(t), view, pane, slots, loads)
  /\ op' = None /\ UNCHANGED <<files, home, typed, left>>

OpFails ==
  /\ op # None /\ op.stage = "failed" /\ op' = None
  /\ UNCHANGED <<files, home, ui, pane, loads, slots, typed, left>>

-----------------------------------------------------------------------------
Init ==
  /\ files = [p \in Paths |-> IF p \in Birth THEN [note |-> p, edits |-> {}] ELSE None]
  /\ home = [p \in Paths |-> IF p \in Birth THEN p ELSE None]
  /\ tabs = <<>> /\ active = 0 /\ view = "Editor" /\ pane = Blank /\ loads = <<>>
  /\ slots = [p \in Paths |-> [queued |-> None, base |-> None, blocked |-> FALSE,
                                stage |-> "idle", text |-> None, token |-> None]]
  /\ op = None /\ typed = <<>>
  /\ left = [ops |-> MaxOps, rereads |-> MaxRereads, saves |-> MaxSaves]

User ==
  \/ \E p \in Paths : Opens(p) \/ FollowsLink(p) \/ AsksCreate(p) \/ AsksDelete(p)
  \/ \E p, q \in Paths : AsksMove(p, q)
  \/ \E i \in DOMAIN tabs : ClicksTab(i) \/ Closes(i)
  \/ \E v \in {"Editor", "Graph"} : ShowsGraph(v)
  \/ Types \/ PressesSave

Answers == \E k \in DOMAIN loads : LoadAnswered(k) \/ LoadFails(k)
Saves(p) == Resolves(p) \/ ServerSaves(p) \/ Saved(p) \/ Refused(p)
OpRuns == \/ \E n \in Fresh : ServerCreates(n)
          \/ ServerMoves \/ ServerDeletes
          \/ CreateAnswered \/ MoveAnswered \/ DeleteAnswered \/ OpFails

Next == \/ User \/ TimerFires \/ Rereads \/ Answers \/ OpRuns
        \/ \E p \in Paths : Saves(p)

\* The timer fires, and every request is answered.
Spec == /\ Init /\ [][Next]_vars
        /\ WF_vars(TimerFires) /\ WF_vars(Answers) /\ WF_vars(OpRuns)
        /\ \A p \in Paths : WF_vars(Saves(p))

-----------------------------------------------------------------------------
Stages == {"idle", "resolve", "send", "saved", "refused"}

\* Every value has its shape, the active index names a tab whenever there is
\* one, and no two tabs hold the same note (state.rs, open_tab and close_tab).
TypeOK ==
  /\ files \in [Paths -> MaybeText] /\ home \in [Paths -> Notes \cup {None}]
  /\ tabs \in Seq([path : Paths, hash : MaybeText, dirty : BOOLEAN])
  /\ active \in 0 .. Len(tabs) /\ (active = 0 <=> tabs = <<>>)
  /\ \A i, j \in DOMAIN tabs : tabs[i].path = tabs[j].path => i = j
  /\ view \in {"Editor", "Graph"} /\ pane.up \in BOOLEAN
  /\ pane.loaded \in Paths \cup {None} /\ {pane.screen, pane.pending} \subseteq MaybeText
  /\ pane.timer = None \/ pane.timer \in [path : Paths, text : Text]
  /\ loads \in Seq([path : Paths, again : BOOLEAN, ours : BOOLEAN])
  /\ slots \in [Paths -> [queued : MaybeText, base : MaybeText, blocked : BOOLEAN,
                          stage : Stages, text : MaybeText, token : MaybeText]]
  /\ op \in Operation \cup {None}
  /\ typed \in Seq(Notes \cup {None})

\* No note's text is written over another's, and once its reads are answered
\* the editor holds the note of the tab in front: otherwise what is typed under
\* one name is saved under another (editor_pane.rs, the load effect and the
\* comment on a load that fails).
NotesKeptApart ==
  /\ \A p \in Paths : files[p] # None => files[p].note = home[p]
  /\ pane.up /\ ~Waiting /\ op = None =>
       /\ pane.loaded = tabs[active].path
       /\ pane.screen.note = home[pane.loaded]

InPlace(n) == n \in DOMAIN typed =>
  \A p \in Paths : home[p] = typed[n] => files[p] # None /\ n \in files[p].edits

\* Every edit ends in the file of the note it was typed in, and stays there,
\* whatever the user turns to before the timer has fired (editor_pane.rs, the
\* load effect's flush; save.rs, one run per path), unless the note is deleted.
EditsAreSaved == \A n \in 1 .. MaxEdits : <>[]InPlace(n)
=============================================================================
