# A verification development for go-notes

TLA+ modules, TLC configurations and TLAPS proofs about go-notes: what happens
to somebody's writing between the keyboard and the vault, on line and off; what
the server and its index make of it; and who is let in. Paths below are
relative to the repository; `ui` is `crates/ui/src`, `server` is
`crates/server/src`.

    cd tla
    tlc -workers 2 -config SaveSlot.cfg SaveSlot.tla           # a run
    tlc -workers 2 -config OfflineSync.cfg MCOfflineSync.tla   # a run with an MC module
    tlapm SaveSlot_proof.tla                                   # the proofs

## The system

A browser application (Rust compiled to WebAssembly, one thread, tasks that give
way at each `await`) talks over HTTP to a server (Rust, axum, one task per
request) that keeps each user's notes as Markdown files in a directory, the
vault, and an index of them in PostgreSQL. Notes may also be edited over SSH.

| Part | State it keeps | Operations | Hard because | What makes it correct |
| --- | --- | --- | --- | --- |
| Save path of an open note (`ui/save.rs`, `offline/merge.rs`, `components/editor_pane.rs`, `refresh.rs`) | the slot (in flight, queued, base, blocked), the tab's hash and unsaved marker, the editor's timer, the dialog | type, autosave, Ctrl+S, the run loop, 409 classification, three-way merge, three dialog answers, background re-read | every step awaits; each writer of the hash can fall between two others; requests and acknowledgements are lost | saves run one at a time; no edit made elsewhere is overwritten unheard of; nothing typed is left unsaved; no note is held off for good |
| Tabs and the one editor (`ui/state.rs`, `components/editor_pane.rs`, `tree.rs`, `tabs.rs`, `palette.rs`) | tabs, the active one, the view; the pane's cells | open, click, close, follow a link, rename, delete, show the graph | slot, tab and editor are keyed by path, loads answer late, the timer outlives what it was started for | no note's text is written under another's name; an edit ends in its own note |
| Offline outbox (`ui/offline/queue.rs`, `cache.rs`, `tree.rs`, `vault.rs`) | the queue, the cached notes, the cached tree | save, create, delete and move notes and folders; compaction; pruning | compaction across renames; folder operations over notes; pruning against a tree that does not know the queue | replaying the queue gives the server what the device shows, without a conflict with itself |
| Replay and connection (`ui/offline/sync.rs`, `net.rs`) | the phase, the stored queue, conflicts on screen, online, the probe | start, replay, drop, mark failed, answer a conflict, discard, probe, reload the page | two replays; the stored queue is read and then written; lost acknowledgements; the page may close at any point | no text is lost; the vault ends as the person left it; the queue drains |
| Note requests (`server/routes/notes.rs`, `vault/store.rs`, `vault/index.rs`) | the files, the trash, index rows | save, create, delete, move with link rewriting | check and write are separate awaits with no lock; a crash between them | a request does all or nothing, on the files as they are; no text is destroyed but by a save that saw it |
| Folder requests (`server/routes/tree.rs`) | files, index rows | create, move, delete | many rows and files per request | as above; every link follows what it names |
| Index, watcher and reconcile (`server/vault/index.rs`, `watch.rs`) | rows, links, chunks | index a note, apply a batch of file events, reconcile at startup | rows follow files through three concurrent writers | the index agrees with the files once all is quiet |
| Reading a note (`server/markdown.rs`, `chunk.rs`, `ui/offline/index.rs`) | none between notes | split front matter, walk the parser's events, scan for links and tags, cut into passages; the same links and tags read by the device | three readings of one text; masks and byte ranges; sections and sizes | nothing shown as code is a link; server and device agree; passages are faithful and complete |
| Embedding worker (`server/embed/`) | vectors, suggested links, a fingerprint | embed what is missing, relink a user | saves, deletes, failures and restarts during a pass | the suggestions are the ones the passages call for, once all is quiet |
| Graph (`server/routes/graph.rs`, `ui/components/graph.rs`) | a scene, the pointer's hold | read, scope to a neighbourhood, draw, drag, click | three reads with no transaction, beside moves; a scene replaced during a gesture | what is drawn is a graph and the neighbourhood asked for; nothing stays pinned |
| Sessions, throttle, users file, OIDC (`server/auth/`, `routes/auth.rs`, `db.rs`) | session and user rows, a table of failures, a copy of the users file, flow rows, cookies | log in and out, extend, back off, prune, reload, call back | check and use are separate awaits; expiry, pruning and file edits race requests | nobody is signed in as another; a session lives by use; a held-back key stays held back |
| Search, themes, uploads, rendering, deployment | | | | left out, see below |

The browser's parts meet in `vault.rs`: every operation is sent at once and, if
the server is not reached, is put in the outbox; `net.rs` turns the failure into
the offline state and a probe; the probe, a minute's tick, a settled conflict or
a button starts the replay in `sync.rs`; a 409, live or replayed, puts a
conflict in the state, and its answer goes back through `save.rs` and `sync.rs`.
The server sees requests only. Within it a request writes a file, then its row,
then looks up links; the worker reads what rows have been left and the graph
reads rows and suggestions together.

## The modules

| Module | Models | Checked by |
| --- | --- | --- |
| `SaveSlot` | one open note: editor, slot, run loop, dialog, re-read; the server by its If-Match contract | itself |
| `SaveSlot_proof` | theorems about `SaveSlot` | TLAPS |
| `Workspace` | the tabs and the one editor they share, several notes' slots, and opening, closing, renaming and deleting around them | `MCWorkspace` |
| `Workspace_proof` | theorems about `Workspace`, for a user who waits for answers | TLAPS |
| `OutboxQueue` | the operations, compaction, ids and pruning rule, as operators | through the two below |
| `VaultFiles` | what the server's note and folder requests accept and leave, each at once | through the ones below |
| `OfflineSession` | an afternoon off line: the offline arms of `vault.rs`, and the replay of its queue as a fold | `MCOfflineSession` |
| `OfflineSync` | the replay against the person's work, another device, faults and reloads | `MCOfflineSync` |
| `OfflineSync_proof` | theorems about `OfflineSync`, through the operations of `OutboxQueue` | TLAPS |
| `NoteServer` | note requests as sequences of file steps, with a crash | `MCNoteServer` |
| `AtomicVault` | what a client may take those requests for: handled at once | as `IsAtomic` of `NoteServer` |
| `NoteServer_proof` | theorems about `NoteServer`, with its refinement of `AtomicVault` | TLAPS |
| `VaultIndex` | the rows and link targets in the database against the files | `MCVaultIndex` |
| `VaultIndex_proof` | theorems about `VaultIndex` | TLAPS |
| `LinkRewrite` | the move of a note or a folder, row by row, and the rewriting of the links that named it | `MCGraphView` |
| `GraphView` | `LinkRewrite` with a graph request beside it, and the pointer on what was drawn | `MCGraphView` |
| `GraphView_proof` | theorems about `GraphView`, through the moves of `LinkRewrite` | TLAPS |
| `NoteDocument` | a note as blocks, as text and as the parser's events | through `NoteText` |
| `NoteText` | the server's reading of a note, its passages, and the device's reading | `MCNoteText` |
| `Suggestions` | saves, the worker's pass, the fingerprint and the suggested links | `MCSuggestions` |
| `Suggestions_proof` | a theorem about `Suggestions` | TLAPS |
| `SignIn` | throttle, users file and its copy, OIDC flow, users, sessions and cookies | `MCSignIn` |
| `SignIn_proof` | theorems about `SignIn` | TLAPS |

`OutboxQueue` is the base of `VaultFiles`, which the five composing modules
extend: `OfflineSession` and `OfflineSync` put the client's queue on top of the
server's requests taken as atomic, `NoteServer` shows how far they are,
`VaultIndex` follows their files with the index, and `LinkRewrite` follows a
folder's move through the files and rows of the notes in it.

### SaveSlot

A text is a function from the note's regions to versions: 0 as opened, positive
for edits typed here, negative for edits made elsewhere. Regions stand for runs
of lines that do not touch, so `three_way` is a choice per region and a conflict
is a region changed on both sides. A hash is the text it is the hash of.

The slot's fields and the locals of `run` are variables of the same names; `pc`
is where `run` is: `start` (resolving a hash), `sending`, `answered`. Each await
is a step boundary: the request is handled in `Deliver` (or lost, or handled
with its answer lost, or refused), and what `run` does with the answer, up to
its next await, is one action per arm of its `match`. `answer` and `reload` are
the tasks a dialog and `refresh_now` spawn. The ghosts `kept`, `untold` and
`unseen` record which versions reached a safe place, which were never carried to
this device, and which were never shown on it. A request that is refused may be
the read of the hash before a save (the save then goes out with an empty token), and
"keep both" may have made its copy when its acknowledgement is lost. `gaveUp` records
that a request was refused, an answer failed, retries ran out, or a re-read lifted a block.

Ctrl+S is pressed with something unsaved only, a bound: the code saves whatever the
state, and a save of what is saved already changes no text.

Not in it: switching to another note (which flushes the timer) and renaming the
open note, which are in `Workspace`; more than one answer or re-read in progress
at a time; the copy a dialog's third answer makes, which is a tab of its own.

### Workspace

A text is the note it was written in and the edits it holds, so that a text
under the wrong name can be told. `tabs`, `active` and `view` are the signals of
`state.rs`; `pane` holds the cells of the one `EditorPane` (the path it has
loaded, what is on screen, the pending text and its timer); `loads` are the reads
the pane has started and not heard of; a slot keeps what of `save.rs` several
notes can tell apart (queued, base, blocked and where its run is). A conflict
ends a run with the slot blocked; its dialog is `SaveSlot`'s.

Leptos runs effects in a microtask after a signal is set, so `Settles` (the pane
shown or dropped, the flush and the load) is part of the step that sets one. The
pane is taken to be built once while tabs stay open and the view is unchanged
(`app.rs:374-383`).

`Hasty` names what the user does without waiting: turn to another note while one
loads (`"loading"`), come back to a note whose save is under way (`"saving"`),
leave the editor for the graph or close a tab with text in hand (`"leaving"`),
rename or delete a note with text in hand (`"moving"`). The passing run is the
patient user, `Hasty = {}`; see "Known disagreements" for the others.

Not in it: moves and deletes of folders, off line, merges, and the signals that
only other panels listen to.

### OutboxQueue, VaultFiles, OfflineSession

A path is the sequence of its names, so "inside this folder" is "has this
prefix". A vault is a function from the paths that exist to a text or `Folder`.
`Coalesce` is a left fold, as in the code. `OfflineSession` performs any
sequence of operations off line. `Replayed` folds the server's handlers over
the queue, with each conflict answered by "keep mine". A name the person picks
is free in the tree shown, a bound the interface does not enforce off line.

### OfflineSync

Each task (a replay, the dialog's answer, the discard button) has a place and a
snapshot of the queue, and each change to the stored queue is the read
(`ReadToChange`, or the start of `EditQueued`) and the write (`WriteBack`,
`Enqueue`) that `cache.rs` makes of it. A request is handled and answered in one
step, or is lost, or is handled and its answer lost. A closed page loses
everything but the stored queue and the cache. One pair of requests is taken as one: a
replayed create that finds a note there reads it to see whether it is its own
(`sync.rs:190`, `212`), and the model has the answer of both at once, so neither a note
that goes between the two nor a read that is lost after the refusal is in it.

`Overlap` FALSE keeps apart what the code does not: the person's operations wait
for a replay and for a question to be over, and live operations for the queue to
be empty. With it FALSE the properties hold; what happens otherwise is under
"Known disagreements".

Two things no bound keeps out, and `CaughtUp` excepts them by the ghost `astray`: a
replay that starts (a tick, the probe) while another task has a change of the queue
in hand, and a move that the server refused, behind which the rest of the queue is
sent all the same. Both make the vault end otherwise than the person left it (see
"Known disagreements"); nothing else was found to, which `CaughtUp` says.

### NoteServer and AtomicVault

A request is at one of the places between its awaits: `exists`, `compare`,
`write`; `from`, `to`, `rename`; `sources`, `next`, `relink`; `trash`. A file is
written by a temporary file and a rename, so a write is one step. A note holds
one link, enough for the rewriting that follows a move. The `links` table that
says which notes link to the moved one is taken to agree with the files; how it
comes to is `VaultIndex`. Requests on one note overlap in every way: the code has
no lock, and the model has none.

The ghost `overtaken` is computed from the steps and guards none of them: a request
is in it when another one has changed a note since it looked at it, until it looks
again. What a client may rely on is then said of every interleaving. In `AtomicVault`
a request is asked (`Ask`), handled at once on the files as they are (`Handle`) or
refused (`Refuse`), and a move follows the links to the note it moved one at a time
(`Follow`) and is answered when none is left (`Answer`). A request that has been
overtaken, and no other, may go by what it saw (`HandleLate`, `FollowLate`, and `Refuse`
or `Answer` too early), and a crash cuts off what is under way (`CutOff`). The
refinement hides the place of a request: it still asks for its operation until the step
that writes, renames or removes (each look in between is a stutter or `LooksAgain`), and
is following links after a rename.

### VaultIndex

Three kinds of task write the index, each a sequence of database steps with
awaits between: requests (one save, create, read, delete or move at a time
each), the watcher, and the reconcile a start spawns beside both. A row is the
transaction of `index_note_content`; that note's own links, and then the links
that name it, are looked up in two steps after the commit. A text carries the
number of the write it came by, which is also its file's modification time; all
texts are distinct, so a size says nothing more. The watcher is told of paths,
never of what happened to them, and asks whether the file is there. It compares
hashes; the reconcile compares times; a request does neither.

`Timely` is a bound: with TRUE the watcher takes a batch only when nothing else
is under way. The debounce of half a second (`watch.rs:38-43`) makes that the
usual case and does not guarantee it: with FALSE a request that stops for longer
between its file and its row puts back the row of a note that was removed
meanwhile, after the watcher has looked, and the row stays until the next start.

Not in it: folder and attachment rows, tags, chunks (see `Suggestions`), the
rewriting of links after a move (see `LinkRewrite`; here each rewritten note is a
save), the reconcile the watcher runs when a folder changes, and a second
reconcile at a time.

### LinkRewrite and GraphView

A file is a note's identity and its sequence of links; a row holds the document
as indexed and the note each link leads to. `job` is the place and the locals of
the one move under way: the file or directory is renamed, then each row is moved
(what is left of a folder's notes is a set, of which the first path is next), then the links whose key
is either of its names are looked up again, then every note whose indexed links have a key of the old
name is read, rewritten and indexed. Each of those is a step, because each is an
await. A link has a key, a label, and an alias, an anchor or a title, which a
rewriting must leave as they were. `Namesakes = FALSE` is a bound: no two notes
ever have one stem. A rewriting that fails to write or to index a note ends the move
there (the `?` of `vault/index.rs:690-692`); only a read that fails, which the code passes over,
is in the model.

`GraphView` puts beside it one graph request at a time (`ReadsNotes`,
`ReadsLinks`, `ReadsSuggested`, with nothing that holds the three together),
its scope by breadth-first search to the depth asked for, the drawing of the
answer, and the pointer's gesture on what is drawn: down, moves of a length in
`Steps`, up or away. Suggestions are read with the tests of the code in its order:
both ends drawn, not one note, no link between them, the best of its pair; of
several that are equally good the query returns any one. `past` is a ghost that remembers how far a gesture has come
and what it opened.

Not in it: positions, camera, drawing, and the layout, which is a floating-point
simulation; two pointers at once (`graph.rs:310-328` does not keep a second one out);
answers drawn out of their order, since a second question is not asked before the first
is answered (`graph.rs:151-195` lets it be); the path of a phantom, which in the code is
what the link says and could be the focus that is asked for.

### NoteDocument and NoteText

A document is front matter and blocks; `Source` is its text as a sequence of
tokens and `Events` what a CommonMark parser makes of the body, with ranges. A
token counts as one character, so lengths are of tokens. `NoteText` walks the
events (`WalkText`, `WalkCode`, ...: text kept, code masked), scans what is left
character by character for `[[`, tags and `]]`, and walks the events again into
passages. One action is one event or character, so that every prefix of a walk is
a state; the walk computes, and its fairness says only that it goes on. What the
device reads (`LinksIn`, `TagsIn` and the lines they are folded over) is a
function of the source, compared in the last state, links and tags both. A cut follows
text that was just put in and nothing else (`Pushed`, `chunk.rs:383-395`).

Left out: titles, byte offsets inside a character, context lines around a link,
and the topic-drift split, which needs a model's vectors.

### Suggestions

A passage is its hash and its vector is the passage it is of, so a vector stored
for the wrong passage shows. A save's transaction takes ids for its rows as it
inserts them and commits later (`SaveBegins`, `SaveCommits`). The worker's pass
goes from `Ticks` through `Picks`, `Embeds` and `Stores` until nothing is missing,
then `TakesFingerprint`, `LoadsPassages` and `Relinks`. A fault of the model gives
up the batch and the pass goes on with the vectors there are; a note deleted
meanwhile makes the relinking fail, and the fingerprint is not kept; a restart
forgets it. The
arithmetic of similarity is a constant; which neighbours are kept is modelled.

`MaxWriting = 1` is a bound: one save at a time. With two, "Known disagreements".

### SignIn

Time is told by what is left of each delay, and `Tick` takes one from each. A
request is at one of the places between its awaits: `stat`, `load`, `store`,
`verify` for the users file and its copy; `right` or `wrong` when the password has
been compared and the throttle has not been told (`Records`); `exchange` for the
provider; `find`, `insert` and `again` for the user's row, where `again` is the second
look after a name was found taken; `session` for the session's row; `answer` when that is
written, before the login is recorded and the answer sent. The answer and its cookie may
be lost (`Answers`, `Logout`): the session is then in the table and in no browser, or
gone from it and still in one. The throttle's calls are made whole, under its lock. `editor` is what a `go-notes user`
command has loaded and not written yet.

Any browser may bring any answer of the provider (`Callback`), its own or another's,
once or again. The callback takes the flow row of the browser's flow cookie, and goes on
only if the state it brings is that row's; a code is exchanged for the identity it was
given for. Two requests may insert one user; the row that is second meets a
unique constraint, of the name, the directory or the identity, in that order.

Taken as one step: finding a session and sliding it, which is one SQL statement
(`session.rs:81-97`), and signing out, where the look-up before the delete decides only
where the browser goes next.

Not in it: hashing (a comparison), cookie attributes, what the library checks of
a token, discovery.

## The runs

| Run | What it asks | Bounds |
| --- | --- | --- |
| `SaveSlot` | all the correctness of the save path | two regions, typing into one; 2 edits here, 1 elsewhere, 2 faults, 1 re-read, 1 retry |
| `Workspace` | does each note keep its own text, and every edit reach its note? | 2 notes, a free name, 1 new note; 3 edits, 1 create, move or delete, 1 re-read, 1 Ctrl+S, 3 loads; a patient user |
| `WorkspaceCrossed` | and for a user who clicks a second note before the first has loaded? No | 1 edit, 2 loads |
| `OfflineSession` | does the compacted queue do what the operations did? | any 5 operations on 4 note paths and 2 folders |
| `OfflineSync` | is nothing lost, and does the queue drain? | 2 paths, 3 edits, 1 elsewhere, 2 faults, 1 replay |
| `NoteServer` | does each request do what it would do at once, and is no text destroyed, but where one overtakes another? | 3 paths, any 3 requests, all at a time, 1 crash |
| `VaultIndex` | do rows and links agree with the files once all is quiet? | 3 paths, two of one name; 2 requests at a time, 2 writes, 1 crash |
| `GraphView` | do links follow a move, and is what is drawn beside it a graph and a neighbourhood? | 3 notes in and out of a folder, 1 move of a note or folder, 1 request, 1 fault, depth 2, moves of 4 |
| `LinkRewriteFolder` | do links within a moved folder follow it too? Not an earlier note's | the same, no graph |
| `NoteText` | are code, links, tags and passages told apart, on both sides? | every note of up to 3 of 13 blocks, four front matters; passages of 3 to 5 characters, relations of 2 |
| `Suggestions` | are suggestions of the right passages, and right in the end? | 3 notes, 2 passages, 3 edits, 1 fault, 1 restart, 1 save at a time, 1 neighbour, batches of 2 |
| `SignIn` | is a session its prover's, begun where its flow was, alive by use and then over; do the tables keep their keys; is the copy of the users file the file; is a key that is held back ever let go early? | 2 browsers, 1 account, 1 identity that may claim its name; 2 requests at a time, 3 in all, or fewer with edits of the file (2) and restarts (1), 4 events in all (`FewEvents`); 1 free attempt, lockouts of 2 and then 3, a table of 1, keys forgotten after 4; sessions of 4, flows of 1 |

Why the bounds are enough to be interesting.

- `SaveSlot`: an edit elsewhere may fall in the region being typed into (a
  dispute) or in the other (a merge), and one retry already separates resending
  from running out.
- `Workspace`: two notes, a rename to a free name and back to the first's, and
  three edits are one in each note and one more while the first is being saved.
- `OfflineSession`: five operations contain save, rename, save with a create and a
  delete around them, and a folder moved over cached notes.
- `OfflineSync`: two faults cover a lost answer followed by a reload, and three
  edits a create, a save that merges into it and a delete. Moves that follow each
  other over one name take more: `CaughtUp` was also checked with nothing written
  elsewhere and 3 faults, with 5 edits on 2 paths and with 4 edits on 3 paths.
- `NoteServer`: a third request changes a note between two that race for it; and a move
  rewrites one note's link while two other requests, or a crash, fall anywhere in it.
- `VaultIndex`: a link by name can mean either of two notes, so the removal or move
  of one has another to fall back to, and two writes are a change that the first
  one's request has not indexed yet.
- `GraphView`: a folder of two notes that name each other and one outside, by
  whole path and by name, with an anchor and with a label, under a move of
  either kind; a move of the pointer of 4 passes the threshold at once.
- `NoteText`: three blocks put a heading, a text too long and one too short in
  every order, a link over a code span and over a line's end, and a cap of five
  cuts a paragraph several times.
- `Suggestions`: with three notes and one neighbour each, a note is displaced by
  another and comes back when that one is deleted; two passages in a note and a
  batch of two make a pass that embeds twice.
- `SignIn`: two requests at once are a password and a provider for one name, or
  two of one identity; the file changes once between its time being read and its text,
  and once more after. The file's time is a version, so two writes are never of one time.
  Three requests are two flows and an answer brought to the browser of the other, or
  three failures of one browser, which double the lockout, or two of one and one of
  the other, for which a table of one must make room. Half of a session of 4 is 2, so
  there is a time before it, at it and after. With one browser and sessions of 1, three
  requests were also checked beside two edits and a restart.

In `VaultIndex`, `NoteServer` and `SignIn` the requests are interchangeable, and in
`SignIn` the browsers too, which their symmetry sets use. Each property of a
passing run is checked to fail under a small mutation of the modelled code; the mutated
operators stand beside their originals, named `Original_WhatIsWrong`.

`CHECK_DEADLOCK FALSE` is set where every edit, fault and request is bounded and
the system comes to rest. It is not set in the run of `SignIn`, where time always
goes on.

### Fairness

The person is never fair: typing, saving, answering and discarding may stop for
good. In `SaveSlot` a step of `run`, of an answer's task or of a re-read that is
possible is eventually taken: requests are answered or fail, and the browser
runs what is ready. `SavesSettle` excepts Ctrl+S pressed for ever. `Workspace`
assumes the same of the timer, the reads, the saves and the operations under way.
In `OfflineSync` a started change to the queue completes, the probe (which polls
until the server answers, `ui/offline/net.rs:98-121`) eventually succeeds, and a
replay that can start is started: the tick of `ui/refresh.rs:61-68` does so every
minute while the page is visible and on line. Faults are bounded, so the server
is reachable in the end; that is what "the queue drains" is conditional on. In
`Suggestions` the worker goes on (it wakes by a timer, `worker.rs`) and a
transaction that was begun is committed; the model's faults are bounded. `NoteText`
is one computation that runs to its end. The other modules state safety only.

## Known disagreements

Two are runs. Each of the others is reproduced by checking the named definition
with the constants given, in place of those of the module's configuration.

- **A load crosses into another note** (`NotesKeptApart`, run `WorkspaceCrossed`).
  The answer to a read becomes the document whichever tab is in front, so a note
  clicked while another loads can be shown, and saved, under the other's name.
- **A folder's own links do not all follow** (`LinksFollow`, run
  `LinkRewriteFolder`). Rows follow a moved folder one at a time, and a note whose
  row has not moved yet is looked for where it no longer is, so its link by the
  whole path to a note moved before it is left as it was.
In `SaveSlot`:

- **A merge is not shown**: `NoUnseenOverwritten`, with `OpenedFromServer`, no
  faults, no re-read. After a clean automatic merge the editor still holds the
  text without the other edit, but the tab holds the merged text's hash
  (`save.rs:257`), so the next keystroke's save reverts that edit.
- **A block outlives its dialog**: `BlockedMeansOnScreen`, `Faults = {"lost"}`.
  "Keep mine" that fails (`sync.rs:357`) leaves the slot blocked and nothing on
  screen.

In `Workspace`, other values of `Hasty`: with `"leaving"` the timer is dropped with
its text and `EditsAreSaved` fails; with `"saving"` a note returned to during its
save shows the older text, and the next keystroke saves over the newer; with
`"moving"` the text in hand is saved to the old path and makes a second file.

Off line:

- **A device conflicts with itself**: `OwnWorkReplaysClean` of `OfflineSession`,
  same constants. Save, rename, save (`queue.rs:219`).
- **A queued change is lost**: `TextNeverLost` of `OfflineSync`, `Overlap = TRUE`,
  2 edits, none elsewhere, 1 fault. `enqueue` and `drop_op` each read and write
  the whole queue (`cache.rs:228`).
- **Two at the queue**: `CaughtUp` without `~astray`, `Runs = {r1, r2}`, 2 edits, none
  elsewhere, 2 faults. The guard and the flag are on either side of an await
  (`sync.rs:43`, `74`). With one replay too, 4 edits and 3 faults: it may start while an
  answer's `drop_op` (`sync.rs:444`) is between its read and its write-back, which puts
  back what the replay has sent and dropped meanwhile. It is sent again, and a note the
  person moved and moved back is moved once more.
- **Behind a refused move**: `CaughtUp` without `~astray`, one replay, 5 edits, 3
  faults. A refused move is marked and the replay goes on (`sync.rs:115`): a write to the
  name it should have freed, or a move of the note it should have brought, is then of
  another note.
- **A replayed move renames what it finds**: `apply` renames the device's copy from the
  old name (`sync.rs:285`, `cache.rs:88`), as it did when the move was queued. A note made
  at that name since is taken for the one that moved, and its copy replaces the other's
  until the tree is read again.

On the server:

- **Two saves with one token**: `SavesAreOptimistic` of `NoteServer`,
  `NotePath <- TwoNotes`, 2 requests, no crash. The comparison and the write are
  separate steps with no lock (`routes/notes.rs:60-84`), so two saves that carry the
  token of what is there are both accepted, and the second replaces the first's text,
  against what `routes/notes.rs:56-59` has the header for. `NothingDestroyed` says that
  no text is lost otherwise.
- **The reconcile trusts times**: `CorrectAfterReconcile` of `VaultIndex`, same
  constants. A row is committed before its links are looked up; a crash between
  leaves them broken, and the next start sees a note whose time has not changed
  (`vault/index.rs:486`).
- **Ids are not in the order of commits**: `CatchesUp` of `Suggestions`, notes 1 and
  2, `Contents <- OnePassage`, `MaxWriting = 2`, 4 edits, no fault, no restart. A
  save that took lower ids and commits after the fingerprint can leave count and
  highest id as they were (`worker.rs:75-76`).
- **Namesakes**: `LinksFollow` with `Namesakes = TRUE`. Rewriting goes by the key, so
  a bare link to a namesake is repointed.
- **A slow drag opens a note**: `DragOpensNothing` of `GraphView`, `Steps = {2}`;
  distance is measured from the last event and not from where the pointer went
  down (`graph.rs:54-60`), and a scene drawn meanwhile begins it anew.

The passing counterparts of those off line about overlap hold with the overlap taken
away, which is what a lock, or a flag set before the await, would do.

Met while modelling, with no property: the title of a `[text](target "title")` is
dropped when its target is rewritten, and `[text (x)][ref]` is taken for one;
white space around an alias is trimmed; a graph read between a row's commit and the
lookup of its links shows a phantom for a note that exists; graph requests are not
numbered, so an older answer may be drawn last; the degrees of a local graph are of
the whole one; a rewriting that fails part of the way is not resumed; a cookie's
age is not renewed with its session (`session.rs:77-79`); `main.rs:451-454` has it that
`user remove` ends the sessions of the one removed, and `destroy_all_for_user`, which
would, is called by nothing; `db.rs:169-175` has it that a new user who claims an old
user's name "gets their own" vault, and such a sign-in is refused, for the name is unique
(`db.rs:224-232`); the users file is read before its time
at the start (`local.rs:211-221`), which `CopyFollowsFile` excepts; the device
splits front-matter tags at commas only, keeps a `./` before a target, does not know raw
HTML or indented code, and takes no tag right after `(` or `[` and keeps a `-`, `_` or
`/` at a tag's end, where the server does otherwise (`DeviceAgrees` compares links and
tags on notes without these); a diagram's passage is not held to the cap; an
empty corpus leaves the old suggestions (`worker.rs:256-258`), and a corpus that
changes after its fingerprint and changes back before the next leaves what was
drawn in between (`Slipped`), which `CatchesUp` excepts.

## The proofs

Each theorem is about the specification a run checks, for every value of the
constants that its module's `ASSUME` allows; theorems of four modules
(`Workspace`, `OfflineSync`, `VaultIndex`, `GraphView`) have a hypothesis more, which the
run satisfies and which is said there. Every
inductive invariant below was checked by TLC on the run's instance before it was
proved. A proof has one lemma or step per action; the `_proof` modules are laid
out as types, then what each part of the invariant needs, then the step, then
the theorems.

| Module | Theorem | States |
| --- | --- | --- |
| `SaveSlot` | `TypeCorrect`, `FlagMeansRun`, `RunsAreSerial`, `NoBlindWrites`, `NothingUnsaved`, `BlockIsForADialog` | `TypeOK`, `SingleFlight`, `OneRunAtATime`, `NoBlindOverwrite`, `CleanMeansSaved`, `HeldOffOnlyForADialog` |
| `Workspace` | `TypeCorrect`, `EachNoteKeepsItsText` | `TypeOK`, `NotesKeptApart` |
| `OfflineSync` | `ProbedWhileOffline`, `TypeCorrect`, `NothingWrittenIsLost`, `VaultCatchesUp` | `OfflineIsProbed`, `TypeOK`, `TextNeverLost`, `CaughtUp` |
| `NoteServer` | `NeverDestroyed`, `RequestsAreAtomic` | `NothingDestroyed`, `IsAtomic` |
| `VaultIndex` | `TypeCorrect`, `LinksPointWhereTheySay`, `CatchesUp`, `ReconcileIsComplete` | `TypeOK`, `LinksHeal`, `IndexCatchesUp`, `ReconcileFindsAll` |
| `GraphView` | `TypeCorrect`, `SuggestionsOnlyAdd`, `WalkIsTheNeighbourhood`, `LinksLeadWhereTheyLed` | `TypeOK`, `SuggestionsAddOnly`, `LocalIsNear`, `LinksFollow` |
| `Suggestions` | `SuggestedAtMostOnce` | `SuggestedOnce` |
| `SignIn` | `TypeCorrect`, `SignedInOnlyAsProved`, `SignsInWhereBegun`, `SessionsLiveByUse`, `NothingRevived`, `CopyIsOfFile`, `StaysHeldBack` | `TypeOK`, `SignedInAsProved`, `SignedInWhereBegun`, `LivesByUse`, `OverStaysOver`, `CopyFollowsFile`, `HeldBack` |

### SaveSlot_proof

For any set of regions, number of retries, choice of faults and bound on edits.

- `TypeCorrect`, `FlagMeansRun`: `TypeOK` and `SingleFlight` are inductive by
  themselves: each action moves `pc` to or from `idle` exactly when it lowers or
  raises the flag. `RunsAreSerial` follows from the second and the guards.
- `NoBlindWrites` is not inductive. The invariant `IInv` adds `HoldsOnlyTold`, that
  every text and token anywhere on the device (editor, timer, slot, cache, dialog, a
  reply on its way, an answer, a re-read) is made of versions that are not `untold`,
  and `Issued`, that versions elsewhere are numbered in order so that a new one is
  new to every text. An accepted save carries the file's own text as its token, the
  token holds nothing untold, hence neither does the file it replaces. Each action
  moves known texts about, or takes in a text and takes its versions out of
  `untold` in the same step.
- `NothingUnsaved` and `BlockIsForADialog` are about a state in which nothing is
  going on, so the invariant `SavedInv` says where a typed version is until then.
  `Traced`: what the editor shows of a region has landed, or is held by the timer,
  the queue, the run, the dialog or its answer, or is about to be replaced.
  `ServerLanded` and `AnswersLanded`: what the server holds and has answered with
  has landed. `BlockedByOne`: a blocked slot has one dialog or one answer, and
  then nothing is sent. `TimerIsFresh`: the timer holds what is shown. All of it
  holds until `gaveUp`, which never falls again.

### Workspace_proof

`TypeCorrect` and `EachNoteKeepsItsText` have the hypothesis `Hasty \subseteq
{"leaving"}`: for any notes, tabs, edits and operations, of a user who waits for a
note to load before turning to another, for a save to end before coming back, and
does not rename or delete what is being written. It is the run's patience and a
little less; with `"loading"` the second is false (`WorkspaceCrossed`), and with
`"moving"` text goes to a path that is no longer its note's.

- `IInv` says what the patience comes to. A read or an operation is under way, never
  both (`ReadsInPlace`); the notes of an operation have nothing on its way
  (`OpInPlace`), so the file it moves or deletes is the newest text; a tab is of a note
  that is there, but for one being read or whose note has just gone (`TabsInPlace`);
  what the editor shows, holds back or has sent is of the note whose file it will
  replace (`ScreenInPlace`, `HeldInPlace`, `SlotsInPlace`).
- `NotAlone` is the conjunct one would not think of: a note that cannot be read takes
  its tab with it, and if that was the last tab the pane goes too. No read may then be
  left behind, whose answer would come to the next pane.
- Leptos's effects run inside the step that sets a signal, so most actions end in
  `Settles`. `Ready` is what a change must leave true for the effects to restore
  `IInv`, and `EffectsInPlace` shows that they do, whichever of the three they are
  (`PaneGoes`, `PaneReads`, `NothingIsRead`); each action then has `Ready` to show.

### NoteServer_proof

For any vault, any requests, in any overlap, and any crashes, with no hypothesis.

- `IInv` is `Types`, `OvertakenLooked` (only a request that has looked at something can
  have been overtaken) and `AllReady`: what a request has looked at is still so when it
  acts on it, unless it was overtaken. `OthersReady` is why: a step that changes a note
  another request has looked at puts that request in `overtaken`, and one that changes
  no such note leaves what it looked at as it was. For a move that includes every
  note that links to what it moved, before the step or after, since a link written
  meanwhile must be followed as well.
- `NeverDestroyed`: each action keeps the names of texts in files and trash, except
  a write that carries the token of what it replaces, or the write or rename of a request
  that was overtaken, at the note it writes.
- `RequestsAreAtomic` is the refinement of `AtomicVault`: the initial states map, and
  each step maps to one of its actions (`Ask` where a request begins, `LooksAgain` where
  it looks, `Handle` for a write, a trashing or a renaming, `Follow` for a link rewritten,
  `HandleLate` and `FollowLate` for those of a request that was overtaken, `Refuse` and
  `Answer` where it ends, `CutOff` for a crash) or to a stutter. `AllReady` is what makes the
  deciding step of any other request the whole of `Effect`: its `Accepted` was evaluated
  some awaits ago. `OthersDisturbed` shows that whom a step overtakes, computed from places, is within
  whom it disturbs, computed from the files alone.
- The lemmas at its head say what the vault's operations do where no note lies
  within another: `MovedNote`, `RemovedNote`, `ParentsAddNoNote`.

### VaultIndex_proof

- `TypesKept`, from which `TypeCorrect`: rows' ids are distinct and issued, targets are
  ids of rows, and each task has what its place needs.
- `LinksPointWhereTheySay` needs nothing more of the constants. `Healing`: as long as
  nothing has crashed, each row's link leads where a lookup of its key leads, or a
  task is on its way to that very lookup (`Due`). It is why the code looks up the
  links that name a path after every change to that path's row: the lookup of a key
  changes only when a row that answers to the key comes or goes (`LookupKept`).
- `CatchesUp` and `ReconcileIsComplete` have the hypothesis `Timely`, the bound the
  run has; without it the first is false, as said above. `Following` says that every path's row
  matches its file, or the watcher will be told of the path, or the watcher or the
  reconcile has yet to look at it (`AllNoticed`); what a task is about to write is
  what the note holds, or the watcher will be told (`AllCurrent`); and the same of
  what the reconcile walked and of what it passed over (`Walked`, `Compared`).

### GraphView_proof

For any vault, moves, table of suggestions, depth and pointer, with any step of a
move between any two reads of the request.

- `IInv` has the tables (ids of files and of rows stay distinct through the renaming
  of a folder row by row), the request at each of its places (what it has read so
  far is a graph), the walk, the scene and the hand.
- `RebasedBack` (moving a folder's paths there and back gives them back, so two notes
  never meet) and `MovedFolder` are what the tables need of a move.
- `WalkIsTheNeighbourhood`: a breadth-first walk at `d` hops has kept what is within
  `d`, has looked from all that is nearer, and queues what is at `d` and then what is
  at `d + 1` (`Walking`). `WithinInLayers` shows that what is within `d` edges, defined
  by paths, is what layers of neighbours give; `WalkLooks`, `WalkGoesFurther` and
  `WalkEnds` are the three things a step can do. Induction is on the
  number of hops only: a path of one more edge is a path and an edge.
- `LinksLeadWhereTheyLed` is of any number of moves, of notes and of folders, under
  the hypotheses `Unambiguous`, that no two notes have one stem and no link a title,
  and `FoldersLookAhead` of every step: no folder is moved while a note of it has a
  link by the whole path to one of it that is taken before it. The run satisfies all
  of it, and none can be left out (see the disagreements; the last is the run
  `LinkRewriteFolder`). `FollowInv` is added to `IInv`. Of a folder under way it says
  which notes are `Waiting`, their files moved and their rows not, and that those have
  nothing to lose by it: what leads to a note by its stem leads there before and
  after. For the note that is being seen to, a link leads where it led (`Leads`) or
  has a key of the old name and is `Owed` to the note that moved, and once the sources
  have been found only a source's may be. What is indexed is right for the links that
  lead, so it is enough that rewriting pays what is owed (`RewrittenFollows`) and that
  no two stems meet (`LeadsResolves`: then a key resolves to the one note it can mean).
- `SuggestionsOnlyAdd`, of a property no run checks: the links are all read before the
  suggestions, and of each pair one suggestion is kept.

### Suggestions_proof

`SuggestedAtMostOnce`: an edge is stored under the lower of its two notes and one per
pair (`EdgesInv`), and its ends are present, since the transaction that stores the
edges fails if a note has gone. That a vector is of its passage (`VectorInv`) needs
`AnswerInv`: the answers left over are those of the last passages of the batch, in its
order, which `PlacedInOrder` proves for answers that come in any order.

### SignIn_proof

`IInv`: what a request has proved stays true until it uses it (`TasksOK`: identity of
the row it found), names and identities are unique (`TypeOK`), tokens were handed
out once (`TablesOK`), and what a request loaded under the time the file has now is
what the file has now (`FileOK`). `SignsInWhereBegun` needs `FlowsOK`: a flow's number is
handed out once and stays in the browser it was handed to, so an answer whose flow is the
one a browser has is an answer to the flow that browser began. `NothingRevived` is an
action property: a session is new only under a number above all that were handed out,
and `Resolve` gives time to none that has run out. `StaysHeldBack` is one too, from
`ThrottleOK`: a key that is held back has been quiet for less than what makes the
table forget it, because a lockout is shorter than `ForgetAfter` and a flood forgets
only what is not held back.

### OfflineSync_proof

For any paths, number of replays, faults and edits.

- `ProbedWhileOffline`: whatever took the device off line, and in any overlap, a probe
  is running.
- `TypeCorrect`, in any overlap too: no two queued changes have one id, though tasks
  write back copies of the queue they read some steps ago. The invariant `Types` says
  that every queue, and every copy of one, is in the order of its ids; compaction and
  removal keep that order (`CoalesceIs` and the lemmas before it), and a new id is
  above all of the queue it joins.
- `NothingWrittenIsLost` has the hypothesis `~Overlap`, as the run has, and without it
  is false (see the disagreements): a task's write-back of the queue removes what was
  queued since it was read. A text is `Wanted` when it is the last the person wrote of
  its note and the server has not held it. That every wanted text is in the queue is
  not inductive: what keeps compaction, a discard or a refused move from taking it
  along is `Sound`, of the stored queue and of each copy about to be written back. A
  wanted text no later move takes along stands at the path where it is wanted
  (`InPlace`), is held by one change (`OfOne`), has a move between itself and the next
  write or delete at its path, so that neither merges into it nor cancels it
  (`Parted`), and is not behind a move the server refused (`NoneBehind`), the only kind
  of change that stays in the queue after an answer (`OnlyMovesFail`).
- `Safe` adds what ties the tasks to that: a replay still has every wanted change to
  send, in the order of the ids (`RunFits`), what a task is about to drop is not wanted
  and nothing wanted depends on it (`ChangeFits`), and changes of one id are one change
  wherever a copy of them is (`Agree`). `CoalesceIs` is the lemma all of it rests
  on: compaction of a sound queue is sound, for any wanted texts.
- `VaultCatchesUp` has the same hypothesis. Why it holds: the queue as it stands,
  replayed from the server's notes as they stand, ends at every text the person stands
  by where it was last put, whatever has been sent and dropped so far. `Replay` says
  that on the notes as a function of the paths, one id at a time and with no move
  refused, and `Leads(m, Q, L)` is that every replay of the set `Q` from the notes `m`
  ends as `L` says. An operation that is sent takes the first step, with or without its
  answer (`LeadsSent`: sent again, a write or a delete changes nothing more, and a move
  is refused, which is astray); one that is done already has none to take
  (`ShowsEffect`, which ties it to `VaultFiles`); the person's next operation makes the
  queue longer at its end (`LeadsMore`).
- Compaction is the hard part. `Beside` gives for a replay of the compacted queue one
  of the queue before it, step by step within a set `G[i]` of notes that are alike but
  for what the difference can be: the note at one path between a write and the later
  one that it was merged with (`LeadsMerged`) or the delete that cancelled it
  (`LeadsCancelled`). No move lets that difference go elsewhere, which is what the
  segment rule of `queue.rs:189-204` is for, and the person no longer stands by a note
  at a deleted path. Compaction runs on the whole queue each time; that it changes no
  more than the last operation calls for takes that the queue is `Compact` already
  (`CoalesceLast`). When a conflict ends with the server's text the write it was about
  is dropped although it was never sent, and the notes go on as they would have but for
  that text, which is given up wherever it came to stand (`LeadsGivenUp`).
- `Course` adds to `Leading` that one task at most is at work, that what a replay has
  yet to send is the stored queue (`Working`), that an operation is dropped only when
  the rest leads there without it, and that the question on screen is of the first
  operation or nothing is queued (`Asking`). It holds until something goes astray or is
  written elsewhere (`OnCourse`), and neither is taken back (`StepAstray`). TLC was
  given `Leads` as the replay itself, not as all its functions.
- The queue's operations are folds, and no induction rule is at hand (it would take an
  operator as a parameter). `Reaches` replaces it: if a fact about a fold's first `k`
  steps failed for some `k`, there would be a least such (`Least`).

### What the proofs assume

The named assumptions of the modules and no more. Among them: the sentinels are not
values they stand beside, bounds are naturals, tasks are distinct; a note's path lies
within no other note's (a file is not a directory; in `OfflineSync` as elsewhere) and a folder's notes are notes
wherever it goes; the vaults at first are typed and finite, with distinct ids; a rank is an integer;
lockouts are shorter than the time that forgets (`throttle.rs:20-27`).

### Only model-checked

- Liveness (`SavesSettle`, `EditsAreSaved`, `SyncEnds`, `QueueDrains`, `CatchesUp` of
  `Suggestions`): liveness under fairness is out of the prover's reach.
- What a fold computes of the whole of its input, to the last text:
  `QueueReachesView`, `UnmovedReplaysClean` and `NothingOfOursPruned` of
  `OfflineSession` compare the replay of a compacted queue with that of the person's
  operations on folders as well as notes, and `NoteText` reads of a text. For notes
  alone, what a compacted queue makes of the vault is proved (`LeadsCompacted`).

## Not modelled

Ranking of search hits and the arithmetic of similarity are number processing, and
the graph's layout is a floating-point simulation. Rendering, themes, the diff a
dialog shows, the editor's TypeScript, the service worker's cache, configuration
and deployment carry no protocol of their own. Search and file routes only read,
or store an upload under its content's hash. Start-up is wiring, but for the
reconcile (`VaultIndex`) and the copy of the users file (`SignIn`). Which folders
are collapsed, and the rows of tags, folders and attachments, follow the same
writes as notes' rows and decide nothing about them.

## Plan

1. Proofs: `OfflineSession`, where a folder takes its notes along: `LeadsCompacted`
   for operations that touch more than one path.
2. `VaultIndex`: folder requests and their rows, and the reconcile the watcher runs.
3. `Workspace`: moves and deletes of folders, and working off line.
4. `GraphView`: several requests at a time, and two pointers.
