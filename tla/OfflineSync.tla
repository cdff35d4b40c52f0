---------------------------- MODULE OfflineSync ----------------------------
(***************************************************************************)
(* Replaying the outbox (crates/ui/src/offline/sync.rs) while the person   *)
(* works on, the server is lost and found again (offline/net.rs) and       *)
(* another device writes to the vault.                                     *)
(*                                                                         *)
(* The browser runs one task at a time, and a task gives way at each       *)
(* await.  A replay holds a snapshot of the stored queue from its first    *)
(* await on; and each change of the stored queue is a read and a write     *)
(* (offline/cache.rs), so another task's change can fall between the two.  *)
(* A request is handled and answered in one step, or lost, or handled and  *)
(* its answer lost.                                                        *)
(***************************************************************************)
EXTENDS VaultFiles, FiniteSets

CONSTANTS
  NotePath,     \* the paths of notes
  OnServer,     \* the notes the vault has, with text 0
  Runs,         \* the replays that can be under way at once
  Dialog, Popover,   \* the tasks answering a conflict and discarding a change
  Overlap,      \* bound: FALSE keeps the person's operations apart from a replay and a
                \* question, behind what is queued, and the note asked about closed
  MaxEdits, MaxForeign, MaxFaults   \* bounds: edits here, edits elsewhere, faults

\* A note is a file, so no note lies within another.
ASSUME SyncAssumption ==
  /\ OnServer \subseteq NotePath /\ Overlap \in BOOLEAN
  /\ NotePath \subseteq Seq(STRING) /\ \A p, q \in NotePath : ~IsWithin(p, q)
  /\ MaxEdits \in Nat /\ Nothing \notin Nat
  /\ Dialog \notin Runs /\ Popover \notin Runs /\ Dialog # Popover

Task == Runs \cup {Dialog, Popover}

VARIABLES
  files,     \* the server's notes: path -> text
  outbox,    \* the stored queue
  cache,     \* the notes this device holds: path -> [text, hash]
  online, probing,   \* AppState.online; PROBING
  phase,     \* AppState.sync: idle, syncing, blocked
  dialogs,   \* the conflicts on screen: [op, hash, queued], queued if a replay met it
  task,      \* each task's place: [at, todo, queue]
  edit,      \* the person's operation on its way to the queue: [at, op, queue]
  made, foreign, faults,   \* edits and faults so far; texts are numbered by them
  latest,    \* ghost: path -> the last text the person wrote there and stands by
  reached,   \* ghost: the texts the server has held
  astray     \* ghost: the server has refused a move, or a replay has started while
             \* another task had a change of the queue in hand

vars == <<files, outbox, cache, online, probing, phase, dialogs, task, edit,
          made, foreign, faults, latest, reached, astray>>
ghosts == <<latest, reached, astray>>
counts == <<made, foreign, faults>>

Off == [at |-> "off", todo |-> <<>>, queue |-> <<>>]
NoEdit == [at |-> "none", op |-> DeleteNote(<<>>), queue |-> <<>>]

Init ==
  /\ files = [p \in OnServer |-> 0] /\ cache = [p \in OnServer |-> [text |-> 0, hash |-> 0]]
  /\ outbox = <<>> /\ online = TRUE /\ probing = FALSE /\ phase = "idle"
  /\ dialogs = {} /\ task = [t \in Task |-> Off] /\ edit = NoEdit
  /\ made = 0 /\ foreign = 0 /\ faults = 0
  /\ latest = <<>> /\ reached = {0} /\ astray = FALSE

-----------------------------------------------------------------------------
(***************************************************************************)
(* Parts of the actions.                                                   *)
(***************************************************************************)
Busy(t) == task[t].at # "off"
Quiet   == \A t \in Task : ~Busy(t)

Fault == faults < MaxFaults /\ faults' = faults + 1

\* Mutant: the probe is left as it is.
Unreachable_NoProbe == online' = FALSE /\ UNCHANGED probing
\* report_unreachable: offline, and the probe started unless it is running.
Unreachable == online' = FALSE /\ probing' = TRUE

\* A request the server handles, or does not.
Handled(op) ==
  /\ files' = Effect(files, op)
  /\ reached' = reached \cup (IF Accepted(files, op) /\ op.text # Nothing THEN {op.text} ELSE {})
NotHandled == UNCHANGED <<files, reached>>
\* Refused, and not because it is done already.
Refused(op) == ~Accepted(files, op) /\ ~AlreadyDone(files, op)

\* What a replayed operation that is done leaves in the cache.
Settled(op) ==
  cache' = CASE op.kind \in {"save", "create"} ->
                  Written(cache, op.path, [text |-> op.text, hash |-> op.text])
             [] op.kind = "delete" -> Removed(cache, op.path)
             [] op.kind = "move"   -> Relocated(cache, op.path, op.to)

Raised(op, queued) ==
  {d \in dialogs : d.op.path # op.path}
  \cup {[op |-> op, hash |-> files[op.path], queued |-> queued]}

At(t, at) == task' = [task EXCEPT ![t].at = at]
Onward(t) == task' = [task EXCEPT ![t].at = "sending", ![t].todo = Tail(@)]
Ended(t)  == task' = [task EXCEPT ![t] = Off]

-----------------------------------------------------------------------------
(***************************************************************************)
(* The person's operations (crates/ui/src/vault.rs): sent at once, and     *)
(* queued if the server is not reached.                                    *)
(***************************************************************************)
Operations ==
  {SaveNote(p, made + 1, cache[p].hash) : p \in DOMAIN cache}
  \cup {CreateNote(p, made + 1) : p \in NotePath \ DOMAIN cache}
  \cup {DeleteNote(p) : p \in DOMAIN cache}
  \cup {MoveNote(p, q) : p \in DOMAIN cache, q \in NotePath \ DOMAIN cache}

Kept(op) ==
  latest' = CASE op.kind \in {"save", "create"} -> Written(latest, op.path, op.text)
              [] op.kind = "delete" -> Removed(latest, op.path)
              [] op.kind = "move"   -> Relocated(latest, op.path, op.to)

Edits == edit.at = "none" /\ made < MaxEdits /\ made' = made + 1

EditLive(op) ==
  /\ Edits /\ (Overlap \/ (Quiet /\ dialogs = {} /\ outbox = <<>>))
  /\ Handled(op) /\ online' = TRUE
  /\ IF Accepted(files, op) THEN Settled(op) /\ Kept(op) /\ UNCHANGED dialogs
     ELSE /\ UNCHANGED <<cache, latest>>
          /\ dialogs' = IF op.kind = "save" THEN Raised(op, FALSE) ELSE dialogs
  /\ UNCHANGED <<outbox, probing, phase, task, edit, foreign, faults, astray>>

\* The device's copy changes, and the queue is read to be written back longer.
EditQueued(op) ==
  /\ Edits /\ (Overlap \/ (Quiet /\ dialogs = {}))
  /\ IF online THEN Fault ELSE UNCHANGED faults
  /\ ((Overlap \/ outbox = <<>>) /\ Handled(op)) \/ NotHandled
  /\ Unreachable /\ Kept(op)
  /\ cache' = CASE op.kind = "save" ->
                     Written(cache, op.path, [text |-> op.text, hash |-> op.base])
                [] op.kind = "create" ->
                     Written(cache, op.path, [text |-> op.text, hash |-> Nothing])
                [] op.kind = "delete" -> Removed(cache, op.path)
                [] op.kind = "move"   -> Relocated(cache, op.path, op.to)
  /\ edit' = [at |-> "queueing", op |-> op, queue |-> outbox]
  /\ UNCHANGED <<outbox, phase, dialogs, task, foreign, astray>>

Enqueue ==
  /\ edit.at = "queueing"
  /\ outbox' = Enqueued(edit.queue, edit.op) /\ edit' = NoEdit
  /\ UNCHANGED <<files, cache, online, probing, phase, dialogs, task, counts, ghosts>>

\* Opening a note, and refetching the tree, with the server there.
Open(path) ==
  /\ online /\ path \in DOMAIN files /\ edit.at = "none" /\ (Overlap \/ outbox = <<>>)
  /\ cache' = Written(cache, path, [text |-> files[path], hash |-> files[path]])
  /\ UNCHANGED <<files, outbox, online, probing, phase, dialogs, task, edit, counts, ghosts>>
Prune ==
  /\ online
  /\ cache' = Restrict(cache, {p \in DOMAIN cache : p \in DOMAIN files \/ IsProtected(p, outbox)})
  /\ UNCHANGED <<files, outbox, online, probing, phase, dialogs, task, edit, counts, ghosts>>

Elsewhere(path) ==
  /\ foreign < MaxForeign /\ foreign' = foreign + 1
  /\ files' = Written(files, path, MaxEdits + foreign + 1)
  /\ UNCHANGED <<outbox, cache, online, probing, phase, dialogs, task, edit, made, faults, ghosts>>

-----------------------------------------------------------------------------
(***************************************************************************)
(* The replay.  It is started by a minute's tick, by the probe, by a       *)
(* button, by a settled conflict: whenever the guards let it.              *)
(***************************************************************************)
Start(t) ==
  /\ ~Busy(t) /\ phase # "syncing" /\ online
  /\ Overlap \/ (edit.at = "none" /\ ~Busy(Popover))
  /\ IF dialogs # {} THEN phase' = "blocked" /\ UNCHANGED <<task, astray>>
     ELSE At(t, "reading") /\ astray' = (astray \/ ~Quiet) /\ UNCHANGED phase
  /\ UNCHANGED <<files, outbox, cache, online, probing, dialogs, edit, counts, latest, reached>>

\* Mutant: the latest change goes first.
ReadQueue_LastFirst(t) ==
  /\ task[t].at = "reading"
  /\ IF outbox = <<>> THEN phase' = "idle" /\ Ended(t)
     ELSE /\ phase' = "syncing"
          /\ task' = [task EXCEPT ![t].at = "sending", ![t].todo = Reverse(outbox)]
  /\ UNCHANGED <<files, outbox, cache, online, probing, dialogs, edit, counts, ghosts>>
ReadQueue(t) ==
  /\ task[t].at = "reading"
  /\ IF outbox = <<>> THEN phase' = "idle" /\ Ended(t)
     ELSE /\ phase' = "syncing"
          /\ task' = [task EXCEPT ![t].at = "sending", ![t].todo = outbox]
  /\ UNCHANGED <<files, outbox, cache, online, probing, dialogs, edit, counts, ghosts>>

\* What was refused before is skipped.
Sending(t) == task[t].at = "sending" /\ task[t].todo # <<>>
\* Mutant: the replay stops at a change refused before.
Skip_Stops(t) ==
  /\ Sending(t) /\ Head(task[t].todo).failed /\ Ended(t) /\ phase' = "blocked"
  /\ UNCHANGED <<files, outbox, cache, online, probing, dialogs, edit, counts, ghosts>>
Skip(t) ==
  /\ Sending(t) /\ Head(task[t].todo).failed /\ Onward(t)
  /\ UNCHANGED <<files, outbox, cache, online, probing, phase, dialogs, edit, counts, ghosts>>

Answered(t) ==
  /\ Sending(t) /\ ~Head(task[t].todo).failed
  /\ LET op == Head(task[t].todo)
     IN  /\ Handled(op)
         /\ \/ /\ ~Refused(op) /\ Settled(op) /\ At(t, "drop")
               /\ UNCHANGED <<dialogs, phase, astray>>
            \/ /\ Refused(op) /\ op.kind \in {"save", "create"}
               /\ dialogs' = Raised(op, TRUE) /\ phase' = "blocked" /\ Ended(t)
               /\ UNCHANGED <<cache, astray>>
            \/ /\ Refused(op) /\ op.kind = "move"
               /\ At(t, "mark") /\ astray' = TRUE /\ UNCHANGED <<dialogs, phase, cache>>
  /\ UNCHANGED <<outbox, online, probing, edit, counts, latest>>

\* Mutant: the phase is not reset.
Unanswered_StillSyncing(t) ==
  /\ Sending(t) /\ ~Head(task[t].todo).failed /\ Fault
  /\ Handled(Head(task[t].todo)) \/ NotHandled
  /\ Unreachable /\ Ended(t)
  /\ UNCHANGED <<outbox, cache, phase, dialogs, edit, made, foreign, latest, astray>>
Unanswered(t) ==
  /\ Sending(t) /\ ~Head(task[t].todo).failed /\ Fault
  /\ Handled(Head(task[t].todo)) \/ NotHandled
  /\ Unreachable /\ Ended(t) /\ phase' = "idle"
  /\ UNCHANGED <<outbox, cache, dialogs, edit, made, foreign, latest, astray>>

SignInNeeded(t) ==
  /\ Sending(t) /\ ~Head(task[t].todo).failed /\ Fault
  /\ Ended(t) /\ phase' = "blocked"
  /\ UNCHANGED <<files, outbox, cache, online, probing, dialogs, edit, made, foreign, ghosts>>

Finish(t) ==
  /\ t \in Runs /\ task[t].at = "sending" /\ task[t].todo = <<>> /\ Ended(t)
  /\ phase' = IF \E n \in DOMAIN outbox : outbox[n].failed THEN "blocked" ELSE "idle"
  /\ UNCHANGED <<files, outbox, cache, online, probing, dialogs, edit, counts, ghosts>>

\* drop_op and mark_failed: the stored queue is read, then written back.
ReadToChange(t) ==
  /\ task[t].at \in {"drop", "mark"}
  /\ task' = [task EXCEPT ![t].at = IF @ = "drop" THEN "dropping" ELSE "marking",
                          ![t].queue = outbox]
  /\ UNCHANGED <<files, outbox, cache, online, probing, phase, dialogs, edit, counts, ghosts>>

WriteBack(t) ==
  LET id == Head(task[t].todo).id
  IN  /\ \/ task[t].at = "dropping" /\ outbox' = Dropped(task[t].queue, id)
         \/ task[t].at = "marking" /\ outbox' = Marked(task[t].queue, id)
      /\ IF t \in Runs THEN Onward(t) ELSE Ended(t)
      \* settle: once no question is left the replay may start again.
      /\ phase' = IF t = Dialog /\ dialogs = {} THEN "idle" ELSE phase
      /\ UNCHANGED <<files, cache, online, probing, dialogs, edit, counts, ghosts>>

-----------------------------------------------------------------------------
(***************************************************************************)
(* The answers to a conflict; each takes it off the screen first.          *)
(***************************************************************************)
AskedAbout(d) == d \in dialogs /\ ~Busy(Dialog) /\ dialogs' = dialogs \ {d}
Settles(d) ==
  IF d.queued THEN task' = [task EXCEPT ![Dialog] = [Off EXCEPT !.at = "drop", !.todo = <<d.op>>]]
                   /\ UNCHANGED phase
  ELSE UNCHANGED task /\ phase' = IF dialogs' = {} THEN "idle" ELSE phase

\* The text sent is the editor's if the note is the one open.
KeepMine(d) ==
  /\ AskedAbout(d) /\ (Overlap \/ edit.at = "none")
  /\ \E text \in {d.op.text} \cup
                 (IF Overlap /\ d.op.path \in DOMAIN latest THEN {latest[d.op.path]} ELSE {}) :
       LET op == SaveNote(d.op.path, text, d.hash)
       IN  \/ /\ Handled(op) /\ UNCHANGED <<online, probing, faults>>
              /\ IF Accepted(files, op)
                 THEN /\ Settled(op) /\ Settles(d)
                      /\ latest' = IF d.queued THEN latest ELSE Written(latest, op.path, text)
                 ELSE UNCHANGED <<cache, phase, task, latest>>
           \/ /\ Fault /\ Unreachable /\ UNCHANGED <<cache, phase, task>>
              /\ \/ NotHandled /\ UNCHANGED latest
                 \/ /\ Handled(op)
                    /\ latest' = IF d.queued \/ ~Accepted(files, op) THEN latest
                                 ELSE Written(latest, op.path, text)
  /\ UNCHANGED <<outbox, edit, made, foreign, astray>>

\* The server's text replaces the device's; "keep both" writes the other to a new
\* note first, which is not one of NotePath.
GivenUp(f, d, gone) == Restrict(f, {p \in DOMAIN f \ gone : f[p] # d.op.text})
Theirs(d) ==
  /\ cache' = Written(cache, d.op.path, [text |-> d.hash, hash |-> d.hash]) /\ Settles(d)
TakeTheirs(d) ==
  /\ AskedAbout(d) /\ (Overlap \/ edit.at = "none") /\ Theirs(d)
  /\ latest' = GivenUp(latest, d, {d.op.path})
  /\ UNCHANGED <<files, outbox, online, probing, edit, counts, reached, astray>>
KeepBoth(d) ==
  /\ AskedAbout(d) /\ (Overlap \/ edit.at = "none")
  /\ \/ /\ Theirs(d) /\ reached' = reached \cup {d.op.text}
        /\ latest' = GivenUp(latest, d, {})
        /\ UNCHANGED <<online, probing, faults>>
     \/ Fault /\ Unreachable /\ UNCHANGED <<cache, phase, task, latest, reached>>
  /\ UNCHANGED <<files, outbox, edit, made, foreign, astray>>

\* A change the server refused is thrown away from the list.
Discard(n) ==
  /\ n \in DOMAIN outbox /\ outbox[n].failed /\ ~Busy(Popover)
  /\ Overlap \/ (Quiet /\ edit.at = "none")
  /\ task' = [task EXCEPT ![Popover] = [Off EXCEPT !.at = "drop", !.todo = <<outbox[n]>>]]
  /\ latest' = Removed(latest, outbox[n].to)
  /\ UNCHANGED <<files, outbox, cache, online, probing, phase, dialogs, edit, counts, reached,
                 astray>>

-----------------------------------------------------------------------------
(***************************************************************************)
(* The connection and the page.                                            *)
(***************************************************************************)
\* The probe's loop ends when a request has succeeded, its own or another.
Probe ==
  /\ probing /\ probing' = FALSE /\ online' = TRUE
  /\ UNCHANGED <<files, outbox, cache, phase, dialogs, task, edit, counts, ghosts>>

\* The browser's own word that the network is gone.
WentOffline ==
  /\ Fault /\ Unreachable
  /\ UNCHANGED <<files, outbox, cache, phase, dialogs, task, edit, made, foreign, ghosts>>

\* The page is closed and opened again, and asks who is signed in before it shows
\* anything: what is stored stays.
Reload ==
  /\ Fault /\ (Overlap \/ edit.at = "none")
  /\ (online' = TRUE /\ probing' = FALSE) \/ Unreachable
  /\ phase' = "idle" /\ dialogs' = {}
  /\ task' = [t \in Task |-> Off] /\ edit' = NoEdit
  /\ UNCHANGED <<files, outbox, cache, made, foreign, ghosts>>

Run(t) ==
  \/ Start(t) \/ ReadQueue(t) \/ Skip(t) \/ Answered(t) \/ Finish(t)
Change(t) == ReadToChange(t) \/ WriteBack(t)

Next ==
  \/ \E op \in Operations : EditLive(op) \/ EditQueued(op)
  \/ Enqueue \/ Prune \/ Probe \/ WentOffline \/ Reload
  \/ \E p \in NotePath : Open(p) \/ Elsewhere(p)
  \/ \E t \in Runs : Run(t) \/ Unanswered(t) \/ SignInNeeded(t)
  \/ \E t \in Task : Change(t)
  \/ \E d \in dialogs : KeepMine(d) \/ TakeTheirs(d) \/ KeepBoth(d)
  \/ \E n \in DOMAIN outbox : Discard(n)

Spec == Init /\ [][Next]_vars
FairSpec ==
  /\ Spec /\ WF_vars(Enqueue) /\ WF_vars(Probe)
  /\ \A t \in Runs : WF_vars(Run(t)) /\ \A s \in Task : WF_vars(Change(s))

-----------------------------------------------------------------------------
(***************************************************************************)
(* Correctness.                                                            *)
(***************************************************************************)
\* Notes are at the paths of notes and folders on the way to them, flags are flags, and
\* what drop_op relies on: no two queued changes have the same id.
Places == NotePath \cup UNION {Parents(p) : p \in NotePath}
TypeOK ==
  /\ DOMAIN files \subseteq Places /\ DOMAIN cache \cup DOMAIN latest \subseteq NotePath
  /\ online \in BOOLEAN /\ probing \in BOOLEAN /\ astray \in BOOLEAN
  /\ phase \in {"idle", "syncing", "blocked"}
  /\ \A t \in Task : task[t].at \in {"off", "reading", "sending", "drop", "dropping",
                                     "mark", "marking"}
  /\ \A i, j \in DOMAIN outbox : i # j => outbox[i].id # outbox[j].id

\* Whatever the person last wrote is somewhere: the server has held it, or it is in
\* the stored queue, or on its way there, or in the question on screen ("recorded
\* here as an operation to replay later", queue.rs:3-4).  It takes Overlap = FALSE.
TextNeverLost ==
  \A p \in DOMAIN latest :
     \/ latest[p] \in reached
     \/ \E n \in DOMAIN outbox : outbox[n].text = latest[p]
     \/ edit.at # "none" /\ edit.op.text = latest[p]
     \/ \E d \in dialogs : d.op.text = latest[p]

\* A device that is offline is being probed for, whichever request, event or replay
\* took it offline and whatever ended the probe before (net.rs start_probing).
OfflineIsProbed == ~online => probing

\* When the queue has drained, no question is left and nobody else has written, the
\* vault holds what the person last wrote, where they put it: replayed "in order and
\* one at a time" (sync.rs:3) through lost answers, restarts and conflicts.  It takes
\* that replays keep apart from each other and from an answer's change of the queue,
\* which the code does not ensure, and that no move was refused: what was queued
\* behind it is sent all the same.
CaughtUp ==
  outbox = <<>> /\ edit.at = "none" /\ Quiet /\ dialogs = {} /\ foreign = 0 /\ ~astray
  => \A p \in DOMAIN latest : p \in DOMAIN files /\ files[p] = latest[p]

\* A replay ends however its requests do, so that another can start (sync.rs start
\* does nothing while one is syncing).
SyncEnds == (phase = "syncing") ~> (phase # "syncing")

\* What is queued is sent: in the end a question is on screen, or nothing is queued
\* but what the server refused (sync.rs run).
QueueDrains ==
  (outbox # <<>>) ~> (dialogs # {} \/ \A n \in DOMAIN outbox : outbox[n].failed)
=============================================================================
