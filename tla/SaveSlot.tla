------------------------------ MODULE SaveSlot ------------------------------
(***************************************************************************)
(* The live save path of one open note, as crates/ui/src/save.rs drives    *)
(* it: the editor's debounce timer, the per-note slot that serialises      *)
(* saves, the run loop that sends them, the classification of a 409, the   *)
(* conflict dialog with its three answers, and the background reload.      *)
(* The server is its If-Match contract alone (NoteServer has the handler). *)
(*                                                                         *)
(* A text is a function from the note's regions (runs of lines that never  *)
(* touch one another) to versions: 0 is the text the note was opened with, *)
(* n > 0 the n-th edit typed on this device, n < 0 the n-th edit made by   *)
(* anybody else.  A content hash is the text it is the hash of.            *)
(***************************************************************************)
EXTENDS Integers

CONSTANTS
  Region,      \* the parts of the note that can be edited independently
  NoText,      \* Option::None, the empty hash, and a file that is missing
  NoDialog,    \* no conflict on screen
  MaxRetries,  \* MAX_AUTO_RETRIES
  Faults,      \* what may go wrong with a request: "lost", "ackLost", "refused"
  Typing,      \* bound: the regions this device's person types into
  MaxTyped,    \* bound: edits typed on this device
  MaxForeign,  \* bound: edits made elsewhere
  MaxFaults,   \* bound: requests that go wrong
  MaxRefresh   \* bound: background re-reads

Text == [Region -> Int]

ASSUME RegionAssumption  == Region # {} /\ Typing \subseteq Region
ASSUME NoTextAssumption  == NoText \notin Text
ASSUME BoundAssumption   == /\ MaxRetries \in Nat /\ MaxTyped \in Nat /\ MaxForeign \in Nat
                            /\ MaxFaults \in Nat /\ MaxRefresh \in Nat
ASSUME FaultsAssumption  == Faults \subseteq {"lost", "ackLost", "refused"}

MaybeText == Text \cup {NoText}
Conflict  == [theirs : Text, hash : Text, mine : Text]
ASSUME NoDialogAssumption == NoDialog \notin Conflict

VARIABLES
  disk,      \* the note's file on the server
  active,    \* state.active_markdown: what the editor shows
  pending,   \* the text captured by the debounce timer, if it is running
  dirty,     \* Tab.dirty
  hash,      \* Tab.content_hash
  cache,     \* the note's entry in the offline cache
  inFlight, queued, base, blocked,             \* the Slot
  pc, current, expected, retries, reply, body, \* the locals of run
  dialog,    \* the conflict on screen
  answer,    \* the dialog's answer being carried out
  reload,    \* the re-read of the open note
  typed, foreign,   \* edits so far, which is also the last version issued
  faults, refreshes, \* requests gone wrong, and background re-reads, so far
  kept,      \* typed versions that reached the server, the outbox or a copy
  untold,    \* foreign versions no response has carried to this device
  unseen,    \* foreign versions neither the editor nor a dialog has shown
  gaveUp     \* a request was refused, an answer failed, the retries ran out, or a
             \* re-read lifted a block

serverVars == <<disk, foreign>>
editorVars == <<active, pending, typed>>
tabVars    == <<dirty, hash, cache>>
slotVars   == <<inFlight, queued, base, blocked>>
runVars    == <<pc, current, expected, retries, reply, body>>
userVars   == <<dialog, answer>>
ghostVars  == <<kept, untold, unseen, gaveUp>>
boundVars  == <<faults, refreshes>>
vars == <<serverVars, editorVars, tabVars, slotVars, runVars, userVars, reload, ghostVars,
          boundVars>>

Opened      == [r \in Region |-> 0]
Versions(t) == {t[r] : r \in Region}
NoAnswer    == [step |-> "none", kind |-> "mine", text |-> Opened, hash |-> Opened, theirs |-> Opened]
NoReload    == [step |-> "none", text |-> Opened, hash |-> NoText]

\* The texts, hashes and records of texts; the flags; the control state; ghosts.
TextTypes ==
  /\ disk \in MaybeText /\ active \in Text /\ pending \in MaybeText
  /\ hash \in MaybeText /\ cache \in [text : Text, hash : MaybeText]
  /\ queued \in MaybeText /\ base \in Text
  /\ current \in Text /\ expected \in MaybeText /\ body \in Text
  /\ dialog \in Conflict \cup {NoDialog}
  /\ answer \in [step : {"none", "sending", "ok", "failed"}, kind : {"mine", "both"},
                 text : Text, hash : Text, theirs : Text]
  /\ reload \in [step : {"none", "reading", "ready"}, text : Text, hash : MaybeText]
FlagTypes ==
  dirty \in BOOLEAN /\ inFlight \in BOOLEAN /\ blocked \in BOOLEAN /\ gaveUp \in BOOLEAN
ControlTypes ==
  /\ pc \in {"idle", "start", "sending", "answered"}
  /\ retries \in 0..MaxRetries
  /\ reply \in {"none", "ok", "conflict", "offline", "refused"}
  /\ typed \in 0..MaxTyped /\ foreign \in 0..MaxForeign
  /\ faults \in 0..MaxFaults /\ refreshes \in 0..MaxRefresh
GhostTypes == kept \subseteq Int /\ untold \subseteq Int /\ unseen \subseteq Int

TypeOK == TextTypes /\ FlagTypes /\ ControlTypes /\ GhostTypes

(***************************************************************************)
(* The note has just been opened, with the text the server holds.  A note  *)
(* created offline is open with no hash; its file does not exist yet, or   *)
(* it does when it was the acknowledgement of its creation that was lost.  *)
(***************************************************************************)
Init ==
  /\ active = Opened /\ pending = NoText /\ dirty = FALSE
  /\ disk \in {Opened, NoText}
  /\ hash \in {disk, NoText}
  /\ cache = [text |-> Opened, hash |-> hash]
  /\ inFlight = FALSE /\ queued = NoText /\ base = Opened /\ blocked = FALSE
  /\ pc = "idle" /\ current = Opened /\ expected = NoText /\ retries = 0
  /\ reply = "none" /\ body = Opened
  /\ dialog = NoDialog /\ answer = NoAnswer /\ reload = NoReload
  /\ typed = 0 /\ foreign = 0 /\ faults = 0 /\ refreshes = 0
  /\ kept = {} /\ untold = {} /\ unseen = {} /\ gaveUp = FALSE

-----------------------------------------------------------------------------
(***************************************************************************)
(* Everybody else: another device, or an editor over SSH.                  *)
(***************************************************************************)
ForeignEdit(r) ==
  /\ foreign < MaxForeign /\ disk # NoText
  /\ foreign' = foreign + 1
  /\ disk'    = [disk EXCEPT ![r] = -(foreign + 1)]
  /\ untold'  = untold \cup {-(foreign + 1)}
  /\ unseen'  = unseen \cup {-(foreign + 1)}
  /\ UNCHANGED <<editorVars, tabVars, slotVars, runVars, userVars, reload, kept, gaveUp, boundVars>>

\* A request goes wrong.
Fault(kind) == kind \in Faults /\ faults < MaxFaults /\ faults' = faults + 1

\* Mutant: an empty If-Match means there is nothing to check.
Accepts_EmptyToken(token) == disk = NoText \/ token = NoText \/ disk = token

(***************************************************************************)
(* What the server does with a save that carries an If-Match token: a file *)
(* that is missing is written whatever the token says.                     *)
(***************************************************************************)
Accepts(token) == disk = NoText \/ disk = token

-----------------------------------------------------------------------------
(***************************************************************************)
(* The editor.  A keystroke marks the tab dirty and restarts the timer.    *)
(***************************************************************************)
Type(r) ==
  /\ typed < MaxTyped
  /\ typed'   = typed + 1
  /\ active'  = [active EXCEPT ![r] = typed + 1]
  /\ pending' = active'
  /\ dirty'   = TRUE
  /\ UNCHANGED <<serverVars, hash, cache, slotVars, runVars, userVars, reload, ghostVars, boundVars>>

\* Mutant: text handed over during a run is not remembered.
Request_Forgets(t) ==
  \/ (blocked \/ inFlight) /\ UNCHANGED <<queued, inFlight, runVars>>
  \/ /\ ~blocked /\ ~inFlight
     /\ inFlight' = TRUE /\ pc' = "start" /\ current' = t /\ retries' = 0
     /\ UNCHANGED <<queued, expected, reply, body>>

\* request: held back while a save is out or a conflict is unanswered, and
\* otherwise the start of a run.
Request(t) ==
  \/ /\ blocked \/ inFlight
     /\ queued' = t
     /\ UNCHANGED <<inFlight, runVars>>
  \/ /\ ~blocked /\ ~inFlight
     /\ inFlight' = TRUE /\ pc' = "start" /\ current' = t /\ retries' = 0
     /\ UNCHANGED <<queued, expected, reply, body>>

Autosave ==
  /\ pending # NoText
  /\ pending' = NoText
  /\ Request(pending)
  /\ UNCHANGED <<serverVars, active, typed, tabVars, base, blocked, userVars, reload, ghostVars, boundVars>>

\* Ctrl+S sends what the editor holds and leaves the timer running.  (A bound:
\* it is pressed only over the unsaved marker.)
SaveNow ==
  /\ dirty
  /\ Request(active)
  /\ UNCHANGED <<serverVars, editorVars, tabVars, base, blocked, userVars, reload, ghostVars, boundVars>>

-----------------------------------------------------------------------------
(***************************************************************************)
(* run: resolve_hash, then one attempt after another.                      *)
(***************************************************************************)
Told(t) == untold' = untold \ Versions(t)

\* A tab that has no hash yet re-reads the note for one; off line, the
\* device's own copy answers, and a note that is missing, or that the server does not
\* let be read, gives none.
RunStart ==
  /\ pc = "start" /\ pc' = "sending"
  /\ \/ hash # NoText /\ expected' = hash /\ UNCHANGED <<cache, untold, faults>>
     \/ /\ hash = NoText /\ disk # NoText
        /\ expected' = disk /\ cache' = [text |-> disk, hash |-> disk] /\ Told(disk)
        /\ UNCHANGED faults
     \/ /\ hash = NoText /\ disk = NoText
        /\ expected' = NoText /\ UNCHANGED <<cache, untold, faults>>
     \/ /\ hash = NoText /\ Fault("lost")
        /\ expected' = cache.hash /\ UNCHANGED <<cache, untold>>
     \/ /\ hash = NoText /\ Fault("refused")
        /\ expected' = NoText /\ UNCHANGED <<cache, untold>>
  /\ UNCHANGED <<serverVars, editorVars, dirty, hash, slotVars, current, retries, reply, body,
                 userVars, reload, refreshes, kept, unseen, gaveUp>>

\* vault::save_note: the request reaches the server, or it is lost and the
\* text goes to the outbox instead.
Deliver ==
  /\ pc = "sending" /\ pc' = "answered"
  /\ \/ /\ Accepts(expected)
        /\ disk' = current /\ kept' = kept \cup Versions(current)
        /\ \/ reply' = "ok" /\ UNCHANGED faults
           \/ reply' = "offline" /\ Fault("ackLost")
        /\ UNCHANGED <<body, untold>>
     \/ /\ ~Accepts(expected)
        /\ reply' = "conflict" /\ body' = disk /\ Told(disk)
        /\ UNCHANGED <<disk, kept, faults>>
     \/ /\ Fault("lost")
        /\ reply' = "offline" /\ kept' = kept \cup Versions(current)
        /\ UNCHANGED <<disk, body, untold>>
     \/ /\ Fault("refused")
        /\ reply' = "refused"
        /\ UNCHANGED <<disk, kept, body, untold>>
  /\ UNCHANGED <<foreign, editorVars, tabVars, slotVars, current, expected, retries,
                 userVars, reload, refreshes, unseen, gaveUp>>

\* The locals of run are gone with it; an attempt's answer, with the next one.
Forget == reply' = "none" /\ body' = Opened

\* Mutant: the loop is left without lowering the flag.
Stop_FlagUp == /\ pc' = "idle" /\ UNCHANGED inFlight
               /\ current' = Opened /\ expected' = NoText /\ retries' = 0 /\ Forget

Stop   == /\ pc' = "idle" /\ inFlight' = FALSE
          /\ current' = Opened /\ expected' = NoText /\ retries' = 0 /\ Forget

\* Mutant: the queued text is copied and not taken.
NextOrStop_Copies ==
  \/ /\ queued # NoText
     /\ current' = queued
     /\ expected' = hash' /\ retries' = 0 /\ pc' = "sending" /\ Forget
     /\ UNCHANGED <<inFlight, queued>>
  \/ queued = NoText /\ Stop /\ UNCHANGED queued

\* The end of an iteration that settled: the queued text goes next, with the
\* hash just adopted, and without one the run is over.
NextOrStop ==
  \/ /\ queued # NoText
     /\ current' = queued /\ queued' = NoText
     /\ expected' = hash' /\ retries' = 0 /\ pc' = "sending" /\ Forget
     /\ UNCHANGED inFlight
  \/ /\ queued = NoText
     /\ Stop
     /\ UNCHANGED queued

Saved ==
  /\ pc = "answered" /\ reply \in {"ok", "offline"}
  /\ hash'  = IF reply = "ok" THEN current ELSE expected
  /\ base'  = current
  /\ cache' = [text |-> current, hash |-> hash']
  /\ dirty' = FALSE
  /\ NextOrStop
  /\ UNCHANGED <<serverVars, editorVars, blocked, userVars, reload, ghostVars, boundVars>>

\* The three ways a 409 settles itself.  An echo: the server holds this text.
SettledEcho ==
  /\ pc = "answered" /\ reply = "conflict" /\ body = current
  /\ hash' = body /\ base' = current /\ dirty' = FALSE
  /\ NextOrStop
  /\ UNCHANGED <<serverVars, editorVars, cache, blocked, userVars, reload, ghostVars, boundVars>>

\* three_way: a region changed on one side only takes that side's version.
Disputed(b, m, t) == \E r \in Region : b[r] # m[r] /\ b[r] # t[r] /\ m[r] # t[r]
ThreeWay(b, m, t) == [r \in Region |-> IF m[r] = b[r] THEN t[r] ELSE m[r]]

\* A stale token over text that has not moved, or an edit to another region:
\* the same text, or the merge of the two, is sent again with the new hash.
Resendable == body = base \/ ~Disputed(base, current, body)
Resend     == IF body = base THEN current ELSE ThreeWay(base, current, body)

\* Mutant: the retry that should be the last allows one more.
SettledResend_OneMore ==
  /\ pc = "answered" /\ reply = "conflict" /\ body # current /\ Resendable
  /\ retries <= MaxRetries
  /\ retries' = retries + 1 /\ expected' = body /\ current' = Resend
  /\ pc' = "sending" /\ Forget
  /\ UNCHANGED <<serverVars, editorVars, tabVars, slotVars, userVars, reload, ghostVars, boundVars>>

SettledResend ==
  /\ pc = "answered" /\ reply = "conflict" /\ body # current /\ Resendable
  /\ retries < MaxRetries
  /\ retries' = retries + 1 /\ expected' = body /\ current' = Resend
  /\ pc' = "sending" /\ Forget
  /\ UNCHANGED <<serverVars, editorVars, tabVars, slotVars, userVars, reload, ghostVars, boundVars>>

\* push_conflict, with the slot blocked until it is answered.
Raise(theirs) ==
  /\ dialog'  = [theirs |-> theirs, hash |-> body, mine |-> current]
  /\ blocked' = TRUE
  /\ unseen'  = unseen \ Versions(theirs)
  /\ Stop
  /\ UNCHANGED <<serverVars, editorVars, tabVars, queued, base, answer, reload, kept, untold, boundVars>>

\* Out of retries, the dialog is raised with the text it would have sent as
\* theirs, which the server never held, beside the hash of what it does hold.
RetriesSpent ==
  /\ pc = "answered" /\ reply = "conflict" /\ body # current /\ Resendable
  /\ retries = MaxRetries
  /\ Raise(Resend) /\ gaveUp' = TRUE

Disagree ==
  /\ pc = "answered" /\ reply = "conflict" /\ body # current /\ ~Resendable
  /\ Raise(body) /\ UNCHANGED gaveUp

\* Text queued behind a save that is refused stays in the slot.
Failed ==
  /\ pc = "answered" /\ reply = "refused"
  /\ Stop /\ gaveUp' = TRUE
  /\ UNCHANGED <<serverVars, editorVars, tabVars, queued, base, blocked, userVars, reload,
                 kept, untold, unseen, boundVars>>

-----------------------------------------------------------------------------
(***************************************************************************)
(* The dialog's three answers.  Each takes the dialog down first.  One     *)
(* answer and one re-read are in progress at a time (a bound).             *)
(***************************************************************************)
Answerable == dialog # NoDialog /\ answer.step = "none"

Answer(kind, text) ==
  /\ dialog' = NoDialog
  /\ answer' = [step |-> "sending", kind |-> kind, text |-> text,
                hash |-> dialog.hash, theirs |-> dialog.theirs]
  /\ UNCHANGED <<serverVars, editorVars, tabVars, slotVars, runVars, reload, ghostVars, boundVars>>

\* keep_mine saves what the editor shows, or the text the conflict was raised
\* with when its tab is not the active one.
KeepMine == Answerable /\ \E text \in {active, dialog.mine} : Answer("mine", text)

\* keep_both saves the text of the conflict as a note of its own.
KeepBoth == Answerable /\ reload.step = "none" /\ Answer("both", dialog.mine)

AnswerDelivered ==
  /\ answer.step = "sending"
  /\ \/ /\ answer.kind = "mine" /\ Accepts(answer.hash)
        /\ disk' = answer.text /\ kept' = kept \cup Versions(answer.text)
        /\ \/ answer' = [answer EXCEPT !.step = "ok"] /\ UNCHANGED faults
           \/ answer' = [NoAnswer EXCEPT !.step = "failed"] /\ Fault("ackLost")
        /\ UNCHANGED untold
     \/ /\ answer.kind = "mine" /\ ~Accepts(answer.hash)
        /\ answer' = [NoAnswer EXCEPT !.step = "failed"] /\ Told(disk)
        /\ UNCHANGED <<disk, kept, faults>>
     \/ /\ answer.kind = "both"
        /\ kept' = kept \cup Versions(answer.text)
        /\ \/ answer' = [answer EXCEPT !.step = "ok"] /\ UNCHANGED faults
           \/ answer' = [NoAnswer EXCEPT !.step = "failed"] /\ Fault("ackLost")
        /\ UNCHANGED <<disk, untold>>
     \/ /\ Fault("lost") \/ Fault("refused")
        /\ answer' = [NoAnswer EXCEPT !.step = "failed"]
        /\ UNCHANGED <<disk, kept, untold>>
  /\ UNCHANGED <<foreign, editorVars, tabVars, slotVars, runVars, dialog, reload, refreshes,
                 unseen, gaveUp>>

\* resolved_kept: the save was accepted; text queued meanwhile goes next.
ResolvedKept ==
  /\ answer.step = "ok" /\ answer.kind = "mine"
  /\ hash' = answer.text /\ base' = answer.text /\ dirty' = FALSE /\ blocked' = FALSE
  /\ cache' = [text |-> answer.text, hash |-> answer.text]
  /\ answer' = NoAnswer
  /\ \/ queued = NoText /\ UNCHANGED <<queued, inFlight, runVars>>
     \/ /\ queued # NoText /\ inFlight
        /\ UNCHANGED <<queued, inFlight, runVars>>
     \/ /\ queued # NoText /\ ~inFlight
        /\ queued' = NoText
        /\ inFlight' = TRUE /\ pc' = "start" /\ current' = queued /\ retries' = 0
        /\ UNCHANGED <<expected, reply, body>>
  /\ UNCHANGED <<serverVars, editorVars, dialog, reload, ghostVars, boundVars>>

\* Mutant: the block is not lifted.
Replaced_StillBlocked(theirs, token) ==
  /\ hash' = token /\ base' = theirs /\ dirty' = FALSE /\ UNCHANGED blocked
  /\ queued' = NoText
  /\ cache' = [text |-> theirs, hash |-> token]
  /\ reload' = [NoReload EXCEPT !.step = "reading"]
  /\ UNCHANGED <<serverVars, editorVars, inFlight, runVars, ghostVars, boundVars>>

\* resolved_replaced, and the re-read that shows the server's version.
Replaced(theirs, token) ==
  /\ hash' = token /\ base' = theirs /\ dirty' = FALSE /\ blocked' = FALSE
  /\ queued' = NoText
  /\ cache' = [text |-> theirs, hash |-> token]
  /\ reload' = [NoReload EXCEPT !.step = "reading"]
  /\ UNCHANGED <<serverVars, editorVars, inFlight, runVars, ghostVars, boundVars>>

TakeTheirs ==
  /\ Answerable /\ reload.step = "none"
  /\ Replaced(dialog.theirs, dialog.hash)
  /\ dialog' = NoDialog /\ UNCHANGED answer

ResolvedBoth ==
  /\ answer.step = "ok" /\ answer.kind = "both" /\ reload.step = "none"
  /\ Replaced(answer.theirs, answer.hash)
  /\ answer' = NoAnswer /\ UNCHANGED dialog

\* fail: an error is shown; the dialog is gone and the slot stays blocked.
AnswerFailed ==
  /\ answer.step = "failed"
  /\ answer' = NoAnswer /\ gaveUp' = TRUE
  /\ UNCHANGED <<serverVars, editorVars, tabVars, slotVars, runVars, dialog, reload,
                 kept, untold, unseen, boundVars>>

-----------------------------------------------------------------------------
(***************************************************************************)
(* The re-read of the open note: refresh_now asks for it when nothing is   *)
(* unsaved, and the editor pane applies whatever it brings.                *)
(***************************************************************************)
RefreshTick ==
  /\ ~dirty /\ dialog = NoDialog
  /\ reload.step = "none" /\ refreshes < MaxRefresh
  /\ reload' = [NoReload EXCEPT !.step = "reading"]
  /\ refreshes' = refreshes + 1
  /\ UNCHANGED <<serverVars, editorVars, tabVars, slotVars, runVars, userVars, ghostVars, faults>>

\* Off line the device's own copy answers; a read that is refused changes nothing.
ReloadRead ==
  /\ reload.step = "reading"
  /\ \/ /\ disk # NoText
        /\ reload' = [step |-> "ready", text |-> disk, hash |-> disk]
        /\ cache' = [text |-> disk, hash |-> disk] /\ Told(disk)
        /\ UNCHANGED <<gaveUp, faults>>
     \/ /\ disk = NoText
        /\ reload' = NoReload
        /\ UNCHANGED <<cache, untold, gaveUp, faults>>
     \/ /\ Fault("lost")
        /\ reload' = [step |-> "ready", text |-> cache.text, hash |-> cache.hash]
        /\ UNCHANGED <<cache, untold, gaveUp>>
     \/ /\ Fault("refused")
        /\ reload' = NoReload /\ gaveUp' = TRUE
        /\ UNCHANGED <<cache, untold>>
  /\ UNCHANGED <<serverVars, editorVars, dirty, hash, slotVars, runVars, userVars, refreshes,
                 kept, unseen>>

\* opened, and the text pushed into the editor.  The timer is not touched,
\* and a block that a conflict raised meanwhile put up is lifted.
ReloadApply ==
  /\ reload.step = "ready"
  /\ hash' = reload.hash /\ base' = reload.text /\ blocked' = FALSE
  /\ dirty' = FALSE /\ active' = reload.text
  /\ unseen' = unseen \ Versions(reload.text)
  /\ reload' = NoReload
  /\ gaveUp' = (gaveUp \/ blocked)
  /\ UNCHANGED <<serverVars, pending, typed, cache, inFlight, queued, runVars, userVars,
                 kept, untold, boundVars>>

-----------------------------------------------------------------------------
Attempted == Saved \/ SettledEcho \/ SettledResend \/ RetriesSpent \/ Disagree \/ Failed
Answered  == ResolvedKept \/ ResolvedBoth \/ AnswerFailed

Next ==
  \/ \E r \in Region : ForeignEdit(r)
  \/ \E r \in Typing : Type(r)
  \/ Autosave \/ SaveNow
  \/ RunStart \/ Deliver \/ Attempted
  \/ KeepMine \/ KeepBoth \/ TakeTheirs \/ AnswerDelivered \/ Answered
  \/ RefreshTick \/ ReloadRead \/ ReloadApply

\* A request is answered or fails, and the browser runs what is ready; nobody
\* has to type, press Ctrl+S or answer a dialog.
Fairness ==
  /\ WF_vars(RunStart \/ Deliver \/ Attempted)
  /\ WF_vars(AnswerDelivered) /\ WF_vars(Answered)
  /\ WF_vars(ReloadRead) /\ WF_vars(ReloadApply)

Spec     == Init /\ [][Next]_vars
FairSpec == Spec /\ Fairness

\* The ordinary case on its own: the note was opened from the server.
OpenedFromServer == Init /\ hash # NoText /\ [][Next]_vars

-----------------------------------------------------------------------------
(***************************************************************************)
(* Correctness.                                                            *)
(***************************************************************************)

\* The flag that says a save of the note is under way is up exactly while one is: no
\* end of a run, by success, dialog or refusal, leaves it up (save.rs:80-91, 280).
SingleFlight == inFlight <=> pc # "idle"
\* The slot serialises the saves of a note (save.rs:1-15): a run begins only when
\* none is under way, whichever of the timer, Ctrl+S and a dialog's answer asks.
OneRunAtATime == [][pc' = "start" /\ pc # "start" => pc = "idle"]_vars

\* No write of this device replaces an edit made elsewhere that no response had
\* carried here: the If-Match tokens it holds (the tab's hash, the cache's, the
\* one a 409 returned, the dialog's) only ever name texts it was told.
NoBlindOverwrite ==
  [][\A r \in Region : disk # NoText /\ disk' # disk /\ disk[r] \in untold
                        => disk'[r] = disk[r] \/ disk'[r] \in untold']_vars

\* Once nothing is outstanding, a tab without the unsaved marker shows no text
\* that has reached neither the server, nor the outbox, nor a copy, as long as
\* no save was refused and no answer to a dialog failed.
Quiet == /\ pc = "idle" /\ pending = NoText /\ dialog = NoDialog
         /\ answer.step = "none" /\ reload.step = "none"
CleanMeansSaved ==
  Quiet /\ ~dirty /\ ~gaveUp => \A r \in Region : active[r] <= 0 \/ active[r] \in kept

\* Autosave is held off only while a conflict is on screen or its answer is on
\* its way (the comment of Slot::blocked), unless an answer failed.
HeldOffOnlyForADialog == blocked /\ ~gaveUp => dialog # NoDialog \/ answer.step # "none"

\* The same claim without the exception, as the comment makes it.
BlockedMeansOnScreen == blocked => dialog # NoDialog \/ answer.step # "none"

\* An edit made elsewhere is not replaced by this device before the editor or a
\* dialog has shown it to the person ("a conflict you resolve rather than silent
\* data loss", README.md:243-245).
NoUnseenOverwritten ==
  [][\A r \in Region : disk # NoText /\ disk' # disk /\ disk[r] \in unseen
                        => disk'[r] = disk[r] \/ disk'[r] \in unseen']_vars

\* A save in flight is eventually over, however often it loses the race and is
\* sent again, unless Ctrl+S is pressed for ever.
SavesSettle == []<>~inFlight \/ []<><<SaveNow>>_vars
=============================================================================
