--------------------------- MODULE SaveSlot_proof ---------------------------
(***************************************************************************)
(* Theorems about SaveSlot, for every set of regions, number of retries,   *)
(* choice of faults and bound on the edits.                                *)
(***************************************************************************)
EXTENDS SaveSlot, TLAPS

\* A text whose versions have all been issued and told to this device.
Known(t, told, issued) ==
  t # NoText => \A r \in Region : t[r] \notin told /\ t[r] >= -issued

\* Every text and token this device holds is made of what it was told: the
\* reason why a token that matches the file cannot hide an edit from it.
HoldsOnlyTold ==
  LET K(t) == Known(t, untold, foreign)
  IN  /\ K(active) /\ K(pending) /\ K(queued) /\ K(base)
      /\ K(hash) /\ K(cache.text) /\ K(cache.hash)
      /\ K(current) /\ K(expected) /\ K(body)
      /\ K(reload.text) /\ K(reload.hash)
      /\ K(answer.text) /\ K(answer.hash) /\ K(answer.theirs)
      /\ dialog # NoDialog => K(dialog.theirs) /\ K(dialog.hash) /\ K(dialog.mine)

\* Versions are issued in order, so the next edit made elsewhere is new to all.
Issued == /\ \A v \in untold : -foreign <= v /\ v < 0
          /\ disk # NoText => \A r \in Region : disk[r] >= -foreign

IInv == TypeOK /\ Issued /\ HoldsOnlyTold

LEMMA OpenedIsText == Opened \in Text
  BY DEF Opened, Text

-----------------------------------------------------------------------------
\* The note has just been opened: its text is one text, and nothing is under way.
LEMMA InitType == Init => TypeOK
<1> SUFFICES ASSUME Init PROVE TypeOK
  OBVIOUS
<1>1. TextTypes
  BY OpenedIsText DEF Init, TextTypes, MaybeText, NoAnswer, NoReload
<1>2. FlagTypes /\ ControlTypes /\ GhostTypes
  <2>1. FlagTypes
    BY DEF Init, FlagTypes
  <2>2. ControlTypes
    BY BoundAssumption DEF Init, ControlTypes
  <2>3. GhostTypes
    BY DEF Init, GhostTypes
  <2>4. QED
    BY <2>1, <2>2, <2>3
<1>3. QED
  BY <1>1, <1>2 DEF TypeOK

LEMMA VersionsAreInt == \A t \in Text : Versions(t) \subseteq Int
  BY DEF Versions, Text

\* No action leaves the types; the retries stay below MaxRetries because a resend is
\* taken only while they are (save.rs:245-246).
LEMMA StepType == TypeOK /\ [Next]_vars => TypeOK'
<1> SUFFICES ASSUME TextTypes, FlagTypes, ControlTypes, GhostTypes, [Next]_vars PROVE TypeOK'
  BY DEF TypeOK
<1> USE OpenedIsText, BoundAssumption
<1>1. ASSUME NEW r \in Region, ForeignEdit(r) PROVE TypeOK'
  <2>1. disk' \in Text
    BY <1>1 DEF ForeignEdit, TextTypes, ControlTypes, MaybeText, Text
  <2>2. TextTypes'
    BY <1>1, <2>1 DEF ForeignEdit, TextTypes, MaybeText, editorVars, tabVars, slotVars,
                      runVars, userVars
  <2>3. FlagTypes' /\ ControlTypes' /\ GhostTypes'
    BY <1>1 DEF ForeignEdit, FlagTypes, ControlTypes, GhostTypes, editorVars, tabVars, slotVars,
                runVars, userVars, boundVars
  <2>4. QED
    BY <2>2, <2>3 DEF TypeOK
<1>2. ASSUME NEW r \in Typing, Type(r) PROVE TypeOK'
  <2>1. TextTypes'
    BY <1>2, RegionAssumption DEF Type, Text, TextTypes, MaybeText, serverVars, editorVars, tabVars, slotVars, runVars, userVars, ghostVars, boundVars
  <2>2. FlagTypes'
    BY <1>2 DEF Type, Text, FlagTypes, serverVars, editorVars, tabVars, slotVars, runVars, userVars, ghostVars, boundVars
  <2>3. ControlTypes'
    BY <1>2 DEF Type, Text, ControlTypes, serverVars, editorVars, tabVars, slotVars, runVars, userVars, ghostVars, boundVars
  <2>4. GhostTypes'
    BY <1>2, VersionsAreInt DEF Type, Text, TextTypes, GhostTypes, MaybeText, serverVars, editorVars, tabVars, slotVars, runVars, userVars, ghostVars, boundVars
  <2>5. QED
    BY <2>1, <2>2, <2>3, <2>4 DEF TypeOK
<1>3. CASE Autosave
  <2>1. TextTypes'
    BY <1>3 DEF Autosave, Request, TextTypes, MaybeText, serverVars, editorVars, tabVars, slotVars, runVars, userVars, ghostVars, boundVars
  <2>2. FlagTypes'
    BY <1>3 DEF Autosave, Request, FlagTypes, serverVars, editorVars, tabVars, slotVars, runVars, userVars, ghostVars, boundVars
  <2>3. ControlTypes'
    BY <1>3 DEF Autosave, Request, ControlTypes, serverVars, editorVars, tabVars, slotVars, runVars, userVars, ghostVars, boundVars
  <2>4. GhostTypes'
    BY <1>3, VersionsAreInt DEF Autosave, Request, TextTypes, GhostTypes, MaybeText, serverVars, editorVars, tabVars, slotVars, runVars, userVars, ghostVars, boundVars
  <2>5. QED
    BY <2>1, <2>2, <2>3, <2>4 DEF TypeOK
<1>4. CASE SaveNow
  <2>1. TextTypes'
    BY <1>4 DEF SaveNow, Request, TextTypes, MaybeText, serverVars, editorVars, tabVars, slotVars, runVars, userVars, ghostVars, boundVars
  <2>2. FlagTypes'
    BY <1>4 DEF SaveNow, Request, FlagTypes, serverVars, editorVars, tabVars, slotVars, runVars, userVars, ghostVars, boundVars
  <2>3. ControlTypes'
    BY <1>4 DEF SaveNow, Request, ControlTypes, serverVars, editorVars, tabVars, slotVars, runVars, userVars, ghostVars, boundVars
  <2>4. GhostTypes'
    BY <1>4, VersionsAreInt DEF SaveNow, Request, TextTypes, GhostTypes, MaybeText, serverVars, editorVars, tabVars, slotVars, runVars, userVars, ghostVars, boundVars
  <2>5. QED
    BY <2>1, <2>2, <2>3, <2>4 DEF TypeOK
<1>5. CASE RunStart
  <2>1. TextTypes'
    BY <1>5 DEF RunStart, Told, Fault, TextTypes, MaybeText, serverVars, editorVars, tabVars, slotVars, runVars, userVars, ghostVars, boundVars
  <2>2. FlagTypes'
    BY <1>5 DEF RunStart, Told, Fault, FlagTypes, serverVars, editorVars, tabVars, slotVars, runVars, userVars, ghostVars, boundVars
  <2>3. ControlTypes'
    BY <1>5 DEF RunStart, Told, Fault, ControlTypes, serverVars, editorVars, tabVars, slotVars, runVars, userVars, ghostVars, boundVars
  <2>4. GhostTypes'
    BY <1>5, VersionsAreInt DEF RunStart, Told, Fault, TextTypes, GhostTypes, MaybeText, serverVars, editorVars, tabVars, slotVars, runVars, userVars, ghostVars, boundVars
  <2>5. QED
    BY <2>1, <2>2, <2>3, <2>4 DEF TypeOK
<1>6. CASE Deliver
  <2>1. TextTypes'
    BY <1>6 DEF Deliver, Told, Fault, Accepts, TextTypes, MaybeText, serverVars, editorVars, tabVars, slotVars, runVars, userVars, ghostVars, boundVars
  <2>2. FlagTypes'
    BY <1>6 DEF Deliver, Told, Fault, Accepts, FlagTypes, serverVars, editorVars, tabVars, slotVars, runVars, userVars, ghostVars, boundVars
  <2>3. ControlTypes'
    BY <1>6 DEF Deliver, Told, Fault, Accepts, ControlTypes, serverVars, editorVars, tabVars, slotVars, runVars, userVars, ghostVars, boundVars
  <2>4. GhostTypes'
    BY <1>6, VersionsAreInt DEF Deliver, Told, Fault, Accepts, TextTypes, GhostTypes, MaybeText, serverVars, editorVars, tabVars, slotVars, runVars, userVars, ghostVars, boundVars
  <2>5. QED
    BY <2>1, <2>2, <2>3, <2>4 DEF TypeOK
<1>7. CASE Saved
  <2>1. TextTypes'
    BY <1>7 DEF Saved, NextOrStop, Stop, Forget, TextTypes, MaybeText, serverVars, editorVars, tabVars, slotVars, runVars, userVars, ghostVars, boundVars
  <2>2. FlagTypes'
    BY <1>7 DEF Saved, NextOrStop, Stop, Forget, FlagTypes, serverVars, editorVars, tabVars, slotVars, runVars, userVars, ghostVars, boundVars
  <2>3. ControlTypes'
    BY <1>7 DEF Saved, NextOrStop, Stop, Forget, ControlTypes, serverVars, editorVars, tabVars, slotVars, runVars, userVars, ghostVars, boundVars
  <2>4. GhostTypes'
    BY <1>7, VersionsAreInt DEF Saved, NextOrStop, Stop, Forget, TextTypes, GhostTypes, MaybeText, serverVars, editorVars, tabVars, slotVars, runVars, userVars, ghostVars, boundVars
  <2>5. QED
    BY <2>1, <2>2, <2>3, <2>4 DEF TypeOK
<1>8. CASE SettledEcho
  <2>1. TextTypes'
    BY <1>8 DEF SettledEcho, NextOrStop, Stop, Forget, TextTypes, MaybeText, serverVars, editorVars, tabVars, slotVars, runVars, userVars, ghostVars, boundVars
  <2>2. FlagTypes'
    BY <1>8 DEF SettledEcho, NextOrStop, Stop, Forget, FlagTypes, serverVars, editorVars, tabVars, slotVars, runVars, userVars, ghostVars, boundVars
  <2>3. ControlTypes'
    BY <1>8 DEF SettledEcho, NextOrStop, Stop, Forget, ControlTypes, serverVars, editorVars, tabVars, slotVars, runVars, userVars, ghostVars, boundVars
  <2>4. GhostTypes'
    BY <1>8, VersionsAreInt DEF SettledEcho, NextOrStop, Stop, Forget, TextTypes, GhostTypes, MaybeText, serverVars, editorVars, tabVars, slotVars, runVars, userVars, ghostVars, boundVars
  <2>5. QED
    BY <2>1, <2>2, <2>3, <2>4 DEF TypeOK
<1>9. CASE SettledResend
  <2>1. TextTypes'
    BY <1>9 DEF SettledResend, Resend, ThreeWay, Forget, Text, TextTypes, MaybeText, serverVars, editorVars, tabVars, slotVars, runVars, userVars, ghostVars, boundVars
  <2>2. FlagTypes'
    BY <1>9 DEF SettledResend, Resend, ThreeWay, Forget, Text, FlagTypes, serverVars, editorVars, tabVars, slotVars, runVars, userVars, ghostVars, boundVars
  <2>3. ControlTypes'
    BY <1>9 DEF SettledResend, Resend, ThreeWay, Forget, Text, ControlTypes, serverVars, editorVars, tabVars, slotVars, runVars, userVars, ghostVars, boundVars
  <2>4. GhostTypes'
    BY <1>9, VersionsAreInt DEF SettledResend, Resend, ThreeWay, Forget, Text, TextTypes, GhostTypes, MaybeText, serverVars, editorVars, tabVars, slotVars, runVars, userVars, ghostVars, boundVars
  <2>5. QED
    BY <2>1, <2>2, <2>3, <2>4 DEF TypeOK
<1>10. CASE RetriesSpent
  <2>1. TextTypes'
    BY <1>10 DEF RetriesSpent, Resend, ThreeWay, Raise, Stop, Forget, Conflict, Text, TextTypes, MaybeText, serverVars, editorVars, tabVars, slotVars, runVars, userVars, ghostVars, boundVars
  <2>2. FlagTypes'
    BY <1>10 DEF RetriesSpent, Resend, ThreeWay, Raise, Stop, Forget, Conflict, Text, FlagTypes, serverVars, editorVars, tabVars, slotVars, runVars, userVars, ghostVars, boundVars
  <2>3. ControlTypes'
    BY <1>10 DEF RetriesSpent, Resend, ThreeWay, Raise, Stop, Forget, Conflict, Text, ControlTypes, serverVars, editorVars, tabVars, slotVars, runVars, userVars, ghostVars, boundVars
  <2>4. GhostTypes'
    BY <1>10, VersionsAreInt DEF RetriesSpent, Resend, ThreeWay, Raise, Stop, Forget, Conflict, Text, TextTypes, GhostTypes, MaybeText, serverVars, editorVars, tabVars, slotVars, runVars, userVars, ghostVars, boundVars
  <2>5. QED
    BY <2>1, <2>2, <2>3, <2>4 DEF TypeOK
<1>11. CASE Disagree
  <2>1. TextTypes'
    BY <1>11 DEF Disagree, Raise, Stop, Forget, Conflict, TextTypes, MaybeText, serverVars, editorVars, tabVars, slotVars, runVars, userVars, ghostVars, boundVars
  <2>2. FlagTypes'
    BY <1>11 DEF Disagree, Raise, Stop, Forget, Conflict, FlagTypes, serverVars, editorVars, tabVars, slotVars, runVars, userVars, ghostVars, boundVars
  <2>3. ControlTypes'
    BY <1>11 DEF Disagree, Raise, Stop, Forget, Conflict, ControlTypes, serverVars, editorVars, tabVars, slotVars, runVars, userVars, ghostVars, boundVars
  <2>4. GhostTypes'
    BY <1>11, VersionsAreInt DEF Disagree, Raise, Stop, Forget, Conflict, TextTypes, GhostTypes, MaybeText, serverVars, editorVars, tabVars, slotVars, runVars, userVars, ghostVars, boundVars
  <2>5. QED
    BY <2>1, <2>2, <2>3, <2>4 DEF TypeOK
<1>12. CASE Failed
  <2>1. TextTypes'
    BY <1>12 DEF Failed, Stop, Forget, TextTypes, MaybeText, serverVars, editorVars, tabVars, slotVars, runVars, userVars, ghostVars, boundVars
  <2>2. FlagTypes'
    BY <1>12 DEF Failed, Stop, Forget, FlagTypes, serverVars, editorVars, tabVars, slotVars, runVars, userVars, ghostVars, boundVars
  <2>3. ControlTypes'
    BY <1>12 DEF Failed, Stop, Forget, ControlTypes, serverVars, editorVars, tabVars, slotVars, runVars, userVars, ghostVars, boundVars
  <2>4. GhostTypes'
    BY <1>12, VersionsAreInt DEF Failed, Stop, Forget, TextTypes, GhostTypes, MaybeText, serverVars, editorVars, tabVars, slotVars, runVars, userVars, ghostVars, boundVars
  <2>5. QED
    BY <2>1, <2>2, <2>3, <2>4 DEF TypeOK
<1>13. CASE KeepMine
  <2>1. TextTypes'
    BY <1>13 DEF KeepMine, Answerable, Answer, Conflict, TextTypes, MaybeText, serverVars, editorVars, tabVars, slotVars, runVars, userVars, ghostVars, boundVars
  <2>2. FlagTypes'
    BY <1>13 DEF KeepMine, Answerable, Answer, Conflict, FlagTypes, serverVars, editorVars, tabVars, slotVars, runVars, userVars, ghostVars, boundVars
  <2>3. ControlTypes'
    BY <1>13 DEF KeepMine, Answerable, Answer, Conflict, ControlTypes, serverVars, editorVars, tabVars, slotVars, runVars, userVars, ghostVars, boundVars
  <2>4. GhostTypes'
    BY <1>13, VersionsAreInt DEF KeepMine, Answerable, Answer, Conflict, TextTypes, GhostTypes, MaybeText, serverVars, editorVars, tabVars, slotVars, runVars, userVars, ghostVars, boundVars
  <2>5. QED
    BY <2>1, <2>2, <2>3, <2>4 DEF TypeOK
<1>14. CASE KeepBoth
  <2>1. TextTypes'
    BY <1>14 DEF KeepBoth, Answerable, Answer, Conflict, TextTypes, MaybeText, serverVars, editorVars, tabVars, slotVars, runVars, userVars, ghostVars, boundVars
  <2>2. FlagTypes'
    BY <1>14 DEF KeepBoth, Answerable, Answer, Conflict, FlagTypes, serverVars, editorVars, tabVars, slotVars, runVars, userVars, ghostVars, boundVars
  <2>3. ControlTypes'
    BY <1>14 DEF KeepBoth, Answerable, Answer, Conflict, ControlTypes, serverVars, editorVars, tabVars, slotVars, runVars, userVars, ghostVars, boundVars
  <2>4. GhostTypes'
    BY <1>14, VersionsAreInt DEF KeepBoth, Answerable, Answer, Conflict, TextTypes, GhostTypes, MaybeText, serverVars, editorVars, tabVars, slotVars, runVars, userVars, ghostVars, boundVars
  <2>5. QED
    BY <2>1, <2>2, <2>3, <2>4 DEF TypeOK
<1>15. CASE TakeTheirs
  <2>1. TextTypes'
    BY <1>15 DEF TakeTheirs, Answerable, Replaced, NoReload, Conflict, TextTypes, MaybeText, serverVars, editorVars, tabVars, slotVars, runVars, userVars, ghostVars, boundVars
  <2>2. FlagTypes'
    BY <1>15 DEF TakeTheirs, Answerable, Replaced, NoReload, Conflict, FlagTypes, serverVars, editorVars, tabVars, slotVars, runVars, userVars, ghostVars, boundVars
  <2>3. ControlTypes'
    BY <1>15 DEF TakeTheirs, Answerable, Replaced, NoReload, Conflict, ControlTypes, serverVars, editorVars, tabVars, slotVars, runVars, userVars, ghostVars, boundVars
  <2>4. GhostTypes'
    BY <1>15, VersionsAreInt DEF TakeTheirs, Answerable, Replaced, NoReload, Conflict, TextTypes, GhostTypes, MaybeText, serverVars, editorVars, tabVars, slotVars, runVars, userVars, ghostVars, boundVars
  <2>5. QED
    BY <2>1, <2>2, <2>3, <2>4 DEF TypeOK
<1>16. CASE AnswerDelivered
  <2>1. TextTypes'
    BY <1>16 DEF AnswerDelivered, Accepts, Told, Fault, NoAnswer, TextTypes, MaybeText, serverVars, editorVars, tabVars, slotVars, runVars, userVars, ghostVars, boundVars
  <2>2. FlagTypes'
    BY <1>16 DEF AnswerDelivered, Accepts, Told, Fault, NoAnswer, FlagTypes, serverVars, editorVars, tabVars, slotVars, runVars, userVars, ghostVars, boundVars
  <2>3. ControlTypes'
    BY <1>16 DEF AnswerDelivered, Accepts, Told, Fault, NoAnswer, ControlTypes, serverVars, editorVars, tabVars, slotVars, runVars, userVars, ghostVars, boundVars
  <2>4. GhostTypes'
    BY <1>16, VersionsAreInt DEF AnswerDelivered, Accepts, Told, Fault, NoAnswer, TextTypes, GhostTypes, MaybeText, serverVars, editorVars, tabVars, slotVars, runVars, userVars, ghostVars, boundVars
  <2>5. QED
    BY <2>1, <2>2, <2>3, <2>4 DEF TypeOK
<1>17. CASE ResolvedKept
  <2>1. TextTypes'
    BY <1>17 DEF ResolvedKept, NoAnswer, TextTypes, MaybeText, serverVars, editorVars, tabVars, slotVars, runVars, userVars, ghostVars, boundVars
  <2>2. FlagTypes'
    BY <1>17 DEF ResolvedKept, NoAnswer, FlagTypes, serverVars, editorVars, tabVars, slotVars, runVars, userVars, ghostVars, boundVars
  <2>3. ControlTypes'
    BY <1>17 DEF ResolvedKept, NoAnswer, ControlTypes, serverVars, editorVars, tabVars, slotVars, runVars, userVars, ghostVars, boundVars
  <2>4. GhostTypes'
    BY <1>17, VersionsAreInt DEF ResolvedKept, NoAnswer, TextTypes, GhostTypes, MaybeText, serverVars, editorVars, tabVars, slotVars, runVars, userVars, ghostVars, boundVars
  <2>5. QED
    BY <2>1, <2>2, <2>3, <2>4 DEF TypeOK
<1>18. CASE ResolvedBoth
  <2>1. TextTypes'
    BY <1>18 DEF ResolvedBoth, Replaced, NoAnswer, NoReload, TextTypes, MaybeText, serverVars, editorVars, tabVars, slotVars, runVars, userVars, ghostVars, boundVars
  <2>2. FlagTypes'
    BY <1>18 DEF ResolvedBoth, Replaced, NoAnswer, NoReload, FlagTypes, serverVars, editorVars, tabVars, slotVars, runVars, userVars, ghostVars, boundVars
  <2>3. ControlTypes'
    BY <1>18 DEF ResolvedBoth, Replaced, NoAnswer, NoReload, ControlTypes, serverVars, editorVars, tabVars, slotVars, runVars, userVars, ghostVars, boundVars
  <2>4. GhostTypes'
    BY <1>18, VersionsAreInt DEF ResolvedBoth, Replaced, NoAnswer, NoReload, TextTypes, GhostTypes, MaybeText, serverVars, editorVars, tabVars, slotVars, runVars, userVars, ghostVars, boundVars
  <2>5. QED
    BY <2>1, <2>2, <2>3, <2>4 DEF TypeOK
<1>19. CASE AnswerFailed
  <2>1. TextTypes'
    BY <1>19 DEF AnswerFailed, NoAnswer, TextTypes, MaybeText, serverVars, editorVars, tabVars, slotVars, runVars, userVars, ghostVars, boundVars
  <2>2. FlagTypes'
    BY <1>19 DEF AnswerFailed, NoAnswer, FlagTypes, serverVars, editorVars, tabVars, slotVars, runVars, userVars, ghostVars, boundVars
  <2>3. ControlTypes'
    BY <1>19 DEF AnswerFailed, NoAnswer, ControlTypes, serverVars, editorVars, tabVars, slotVars, runVars, userVars, ghostVars, boundVars
  <2>4. GhostTypes'
    BY <1>19, VersionsAreInt DEF AnswerFailed, NoAnswer, TextTypes, GhostTypes, MaybeText, serverVars, editorVars, tabVars, slotVars, runVars, userVars, ghostVars, boundVars
  <2>5. QED
    BY <2>1, <2>2, <2>3, <2>4 DEF TypeOK
<1>20. CASE RefreshTick
  <2>1. TextTypes'
    BY <1>20 DEF RefreshTick, NoReload, TextTypes, MaybeText, serverVars, editorVars, tabVars, slotVars, runVars, userVars, ghostVars, boundVars
  <2>2. FlagTypes'
    BY <1>20 DEF RefreshTick, NoReload, FlagTypes, serverVars, editorVars, tabVars, slotVars, runVars, userVars, ghostVars, boundVars
  <2>3. ControlTypes'
    BY <1>20 DEF RefreshTick, NoReload, ControlTypes, serverVars, editorVars, tabVars, slotVars, runVars, userVars, ghostVars, boundVars
  <2>4. GhostTypes'
    BY <1>20, VersionsAreInt DEF RefreshTick, NoReload, TextTypes, GhostTypes, MaybeText, serverVars, editorVars, tabVars, slotVars, runVars, userVars, ghostVars, boundVars
  <2>5. QED
    BY <2>1, <2>2, <2>3, <2>4 DEF TypeOK
<1>21. CASE ReloadRead
  <2>1. TextTypes'
    BY <1>21 DEF ReloadRead, Told, Fault, NoReload, TextTypes, MaybeText, serverVars, editorVars, tabVars, slotVars, runVars, userVars, ghostVars, boundVars
  <2>2. FlagTypes'
    BY <1>21 DEF ReloadRead, Told, Fault, NoReload, FlagTypes, serverVars, editorVars, tabVars, slotVars, runVars, userVars, ghostVars, boundVars
  <2>3. ControlTypes'
    BY <1>21 DEF ReloadRead, Told, Fault, NoReload, ControlTypes, serverVars, editorVars, tabVars, slotVars, runVars, userVars, ghostVars, boundVars
  <2>4. GhostTypes'
    BY <1>21, VersionsAreInt DEF ReloadRead, Told, Fault, NoReload, TextTypes, GhostTypes, MaybeText, serverVars, editorVars, tabVars, slotVars, runVars, userVars, ghostVars, boundVars
  <2>5. QED
    BY <2>1, <2>2, <2>3, <2>4 DEF TypeOK
<1>22. CASE ReloadApply
  <2>1. TextTypes'
    BY <1>22 DEF ReloadApply, NoReload, TextTypes, MaybeText, serverVars, editorVars, tabVars, slotVars, runVars, userVars, ghostVars, boundVars
  <2>2. FlagTypes'
    BY <1>22 DEF ReloadApply, NoReload, FlagTypes, serverVars, editorVars, tabVars, slotVars, runVars, userVars, ghostVars, boundVars
  <2>3. ControlTypes'
    BY <1>22 DEF ReloadApply, NoReload, ControlTypes, serverVars, editorVars, tabVars, slotVars, runVars, userVars, ghostVars, boundVars
  <2>4. GhostTypes'
    BY <1>22, VersionsAreInt DEF ReloadApply, NoReload, TextTypes, GhostTypes, MaybeText, serverVars, editorVars, tabVars, slotVars, runVars, userVars, ghostVars, boundVars
  <2>5. QED
    BY <2>1, <2>2, <2>3, <2>4 DEF TypeOK
<1>23. CASE UNCHANGED vars
  BY <1>23 DEF vars, TypeOK, TextTypes, FlagTypes, ControlTypes, GhostTypes, serverVars, editorVars, tabVars, slotVars, runVars, userVars, ghostVars, boundVars
<1>24. QED
  BY <1>1, <1>2, <1>3, <1>4, <1>5, <1>6, <1>7, <1>8, <1>9, <1>10, <1>11, <1>12, <1>13, <1>14, <1>15, <1>16, <1>17, <1>18, <1>19, <1>20, <1>21, <1>22, <1>23 DEF Next, Attempted, Answered

\* Every state has the types TypeOK gives: in particular a run never retries
\* more than MaxRetries times (MAX_AUTO_RETRIES, save.rs:36 and 245-246).
THEOREM TypeCorrect == Spec => []TypeOK
<1>1. QED
  BY InitType, StepType, PTL DEF Spec

-----------------------------------------------------------------------------
\* A run that begins raises the flag, and one that stops lowers it (save.rs:80-91, 280).
LEMMA StepFlag == SingleFlight /\ [Next]_vars => SingleFlight'
<1> SUFFICES ASSUME SingleFlight, [Next]_vars PROVE SingleFlight'
  OBVIOUS
<1> USE DEF SingleFlight, slotVars, runVars
<1>1. CASE Autosave \/ SaveNow
  BY <1>1 DEF Autosave, SaveNow, Request
<1>2. CASE RunStart \/ Deliver
  BY <1>2 DEF RunStart, Deliver
<1>3. CASE Saved \/ SettledEcho \/ SettledResend
  BY <1>3 DEF Saved, SettledEcho, SettledResend, NextOrStop, Stop
<1>4. CASE RetriesSpent \/ Disagree \/ Failed
  BY <1>4 DEF RetriesSpent, Disagree, Failed, Raise, Stop
<1>5. CASE KeepMine \/ KeepBoth \/ AnswerDelivered \/ AnswerFailed
  BY <1>5 DEF KeepMine, KeepBoth, Answer, AnswerDelivered, AnswerFailed
<1>6. CASE ResolvedKept \/ ResolvedBoth \/ TakeTheirs
  BY <1>6 DEF ResolvedKept, ResolvedBoth, TakeTheirs, Replaced
<1>7. CASE RefreshTick \/ ReloadRead \/ ReloadApply
  BY <1>7 DEF RefreshTick, ReloadRead, ReloadApply
<1>8. ASSUME NEW r \in Region, ForeignEdit(r) PROVE SingleFlight'
  BY <1>8 DEF ForeignEdit
<1>9. ASSUME NEW r \in Typing, Type(r) PROVE SingleFlight'
  BY <1>9 DEF Type
<1>10. CASE UNCHANGED vars
  BY <1>10 DEF vars
<1>11. QED
  BY <1>1, <1>2, <1>3, <1>4, <1>5, <1>6, <1>7, <1>8, <1>9, <1>10 DEF Next, Attempted, Answered

\* The slot's flag is up exactly while a run is under way (save.rs:80-91, 280).
THEOREM FlagMeansRun == Spec => []SingleFlight
<1>1. Init => SingleFlight
  BY DEF Init, SingleFlight
<1>2. QED
  BY <1>1, StepFlag, PTL DEF Spec

\* No run begins over another one, whichever of the timer, Ctrl+S and the
\* answer to a dialog asks for it.
THEOREM RunsAreSerial == Spec => OneRunAtATime
<1>1. SingleFlight /\ [Next]_vars => [pc' = "start" /\ pc # "start" => pc = "idle"]_vars
  <2> SUFFICES ASSUME SingleFlight, Next, pc' = "start", pc # "start" PROVE pc = "idle"
    OBVIOUS
  <2> USE DEF SingleFlight, slotVars, runVars
  <2>1. CASE Autosave \/ SaveNow
    BY <2>1 DEF Autosave, SaveNow, Request
  <2>2. CASE RunStart \/ Deliver \/ Attempted
    BY <2>2 DEF RunStart, Deliver, Attempted, Saved, SettledEcho, SettledResend, RetriesSpent,
                Disagree, Failed, NextOrStop, Raise, Stop
  <2>3. CASE KeepMine \/ KeepBoth \/ TakeTheirs \/ AnswerDelivered \/ Answered
    BY <2>3 DEF KeepMine, KeepBoth, Answer, TakeTheirs, Replaced, AnswerDelivered, Answered,
                ResolvedKept, ResolvedBoth, AnswerFailed
  <2>4. CASE RefreshTick \/ ReloadRead \/ ReloadApply
    BY <2>4 DEF RefreshTick, ReloadRead, ReloadApply
  <2>5. CASE \E r \in Region : ForeignEdit(r)
    BY <2>5 DEF ForeignEdit
  <2>6. CASE \E r \in Typing : Type(r)
    BY <2>6 DEF Type
  <2>7. QED
    BY <2>1, <2>2, <2>3, <2>4, <2>5, <2>6 DEF Next
<1>2. QED
  BY <1>1, FlagMeansRun, PTL DEF Spec, OneRunAtATime

-----------------------------------------------------------------------------
\* What is known stays known when nothing is issued, and no edit made elsewhere
\* can have the version of a text that is known already.
LEMMA KnownStays ==
  ASSUME NEW t \in MaybeText, NEW u, NEW v, NEW n \in Nat, v \subseteq u, Known(t, u, n)
  PROVE  Known(t, v, n)
  BY DEF Known

LEMMA KnownBeforeIssue ==
  ASSUME NEW t \in MaybeText, NEW u, NEW n \in Nat, Known(t, u, n)
  PROVE  Known(t, u \cup {-(n + 1)}, n + 1)
<1> SUFFICES ASSUME t # NoText, NEW r \in Region
             PROVE  t[r] \notin u \cup {-(n + 1)} /\ t[r] >= -(n + 1)
  BY DEF Known
<1>1. t[r] \in Int
  BY DEF MaybeText, Text
<1>2. t[r] \notin u /\ t[r] >= -n
  BY DEF Known
<1>3. t[r] # -(n + 1) /\ t[r] >= -(n + 1)
  BY <1>1, <1>2
<1>4. QED
  BY <1>2, <1>3

LEMMA OpenedIsKnown ==
  ASSUME NEW u, NEW n \in Nat, \A v \in u : v < 0
  PROVE  Known(Opened, u, n)
<1>1. 0 \notin u /\ 0 >= -n
  OBVIOUS
<1>2. \A r \in Region : Opened[r] = 0
  BY DEF Opened
<1>3. QED
  BY <1>1, <1>2 DEF Known

LEMMA ReadIsKnown ==
  ASSUME NEW t \in Text, NEW u, NEW n \in Nat, \A r \in Region : t[r] >= -n
  PROVE  Known(t, u \ Versions(t), n)
  BY DEF Known, Versions

LEMMA MergeIsKnown ==
  ASSUME NEW b \in Text, NEW m \in Text, NEW t \in Text, NEW u, NEW n \in Nat,
         Known(b, u, n), Known(m, u, n), Known(t, u, n)
  PROVE  Known(ThreeWay(b, m, t), u, n)
  BY NoTextAssumption DEF Known, ThreeWay, MaybeText

LEMMA InitHolds == Init => Issued /\ HoldsOnlyTold
<1> SUFFICES ASSUME Init PROVE Issued /\ HoldsOnlyTold
  OBVIOUS
<1>1. Known(Opened, untold, foreign) /\ Known(NoText, untold, foreign)
  BY OpenedIsKnown DEF Init, Known
<1>2. Issued
  BY DEF Init, Issued, Opened
<1>3. HoldsOnlyTold
  BY <1>1 DEF Init, HoldsOnlyTold, NoAnswer, NoReload
<1>4. QED
  BY <1>2, <1>3

\* An action that tells nothing moves known texts about; one that reads the file,
\* or is refused with it, takes its versions out of untold as it takes the text in.
LEMMA StepHolds == IInv /\ [Next]_vars => Issued' /\ HoldsOnlyTold'
<1> SUFFICES ASSUME TypeOK, Issued, HoldsOnlyTold, [Next]_vars
             PROVE  Issued' /\ HoldsOnlyTold'
  BY DEF IInv
<1>a. TextTypes /\ foreign \in Nat /\ untold \subseteq Int /\ typed \in Nat /\ Opened \in Text
  BY BoundAssumption, OpenedIsText DEF TypeOK, ControlTypes, GhostTypes
<1>n. Known(NoText, untold, foreign) /\ Known(Opened, untold, foreign)
  BY <1>a, OpenedIsKnown DEF Known, Issued
<1>r. ASSUME disk # NoText, Told(disk), foreign' = foreign PROVE Known(disk, untold', foreign')
  <2>1. disk \in Text /\ \A r \in Region : disk[r] >= -foreign
    BY <1>r, <1>a DEF TextTypes, MaybeText, Issued
  <2>2. Known(disk, untold \ Versions(disk), foreign)
    BY <2>1, <1>a, ReadIsKnown
  <2>3. QED
    BY <2>2, <1>r DEF Told
<1>k. ASSUME untold' = untold, foreign' = foreign, disk' = disk \/ Known(disk', untold, foreign)
      PROVE  Issued'
  BY <1>k DEF Issued, Known
<1>1. ASSUME NEW r \in Region, ForeignEdit(r) PROVE Issued' /\ HoldsOnlyTold'
  <2>1. foreign' = foreign + 1 /\ untold' = untold \cup {-(foreign + 1)}
    BY <1>1 DEF ForeignEdit
  <2>2. \A t \in MaybeText : Known(t, untold, foreign) => Known(t, untold', foreign')
    BY <2>1, <1>a, KnownBeforeIssue
  <2>3. HoldsOnlyTold'
    BY <1>1, <2>2, <1>a DEF ForeignEdit, HoldsOnlyTold, TextTypes, MaybeText, Conflict,
       editorVars, tabVars, slotVars, runVars, userVars
  <2>4. \A v \in untold' : -foreign' <= v /\ v < 0
    BY <2>1, <1>a DEF Issued
  <2>5. ASSUME NEW q \in Region PROVE disk'[q] >= -foreign'
    <3>1. disk \in Text /\ disk[q] \in Int /\ disk[q] >= -foreign
      BY <1>1, <1>a DEF ForeignEdit, TextTypes, MaybeText, Text, Issued
    <3>2. disk'[q] = disk[q] \/ disk'[q] = -(foreign + 1)
      BY <1>1, <3>1 DEF ForeignEdit, Text
    <3>3. QED
      BY <2>1, <3>1, <3>2, <1>a
  <2>6. QED
    BY <2>3, <2>4, <2>5 DEF Issued
<1>2. ASSUME NEW r \in Typing, Type(r) PROVE Issued' /\ HoldsOnlyTold'
  <2>1. Known(active', untold, foreign)
    <3>1. ASSUME NEW q \in Region PROVE active'[q] \notin untold /\ active'[q] >= -foreign
      <4>1. active'[q] = active[q] \/ active'[q] = typed + 1
        BY <1>2, <1>a DEF Type, TextTypes, Text
      <4>2. active[q] \notin untold /\ active[q] >= -foreign
        BY <1>a, NoTextAssumption DEF HoldsOnlyTold, Known, TextTypes
      <4>3. typed + 1 \notin untold /\ typed + 1 >= -foreign
        BY <1>a DEF Issued
      <4>4. QED
        BY <4>1, <4>2, <4>3
    <3>2. QED
      BY <3>1 DEF Known
  <2>2. QED
    BY <1>2, <2>1, <1>k DEF Type, HoldsOnlyTold, serverVars, editorVars, tabVars, slotVars, runVars, userVars, boundVars, ghostVars
<1>3. CASE Autosave
  BY <1>3, <1>a, <1>n, <1>k DEF Autosave, Request, HoldsOnlyTold, TextTypes, MaybeText, Conflict,
     serverVars, editorVars, tabVars, slotVars, runVars, userVars, boundVars, ghostVars
<1>4. CASE SaveNow
  BY <1>4, <1>a, <1>n, <1>k DEF SaveNow, Request, HoldsOnlyTold, TextTypes, MaybeText, Conflict,
     serverVars, editorVars, tabVars, slotVars, runVars, userVars, boundVars, ghostVars
<1>5. CASE RunStart
  <2>1. foreign' = foreign /\ untold' \subseteq untold
    BY <1>5 DEF RunStart, Fault, Told, serverVars
  <2>2. \A t \in MaybeText : Known(t, untold, foreign) => Known(t, untold', foreign')
    BY <2>1, <1>a, KnownStays
  <2>3. disk # NoText /\ Told(disk) => Known(disk, untold', foreign')
    BY <2>1, <1>r
  <2>4. HoldsOnlyTold'
    BY <1>5, <2>2, <2>3, <1>a, <1>n DEF RunStart, Fault, HoldsOnlyTold, TextTypes, MaybeText,
       Conflict, serverVars, editorVars, tabVars, slotVars, runVars, userVars, boundVars
  <2>5. disk' = disk \/ disk' = current \/ disk' = answer.text
    BY <1>5 DEF RunStart, Fault, serverVars
  <2>6. QED
    BY <2>1, <2>4, <2>5, <1>a, NoTextAssumption DEF Issued, HoldsOnlyTold, Known, TextTypes
<1>6. CASE Deliver
  <2>1. foreign' = foreign /\ untold' \subseteq untold
    BY <1>6 DEF Deliver, Fault, Accepts, Told, serverVars
  <2>2. \A t \in MaybeText : Known(t, untold, foreign) => Known(t, untold', foreign')
    BY <2>1, <1>a, KnownStays
  <2>3. disk # NoText /\ Told(disk) => Known(disk, untold', foreign')
    BY <2>1, <1>r
  <2>4. HoldsOnlyTold'
    BY <1>6, <2>2, <2>3, <1>a, <1>n DEF Deliver, Fault, Accepts, HoldsOnlyTold, TextTypes, MaybeText,
       Conflict, serverVars, editorVars, tabVars, slotVars, runVars, userVars, boundVars
  <2>5. disk' = disk \/ disk' = current \/ disk' = answer.text
    BY <1>6 DEF Deliver, Fault, Accepts, serverVars
  <2>6. QED
    BY <2>1, <2>4, <2>5, <1>a, NoTextAssumption DEF Issued, HoldsOnlyTold, Known, TextTypes
<1>7. CASE Saved
  BY <1>7, <1>a, <1>n, <1>k DEF Saved, NextOrStop, Stop, Forget, HoldsOnlyTold, TextTypes, MaybeText, Conflict,
     serverVars, editorVars, tabVars, slotVars, runVars, userVars, boundVars, ghostVars
<1>8. CASE SettledEcho
  BY <1>8, <1>a, <1>n, <1>k DEF SettledEcho, NextOrStop, Stop, Forget, HoldsOnlyTold, TextTypes, MaybeText, Conflict,
     serverVars, editorVars, tabVars, slotVars, runVars, userVars, boundVars, ghostVars
<1>9. CASE SettledResend
  <2>1. Known(Resend, untold, foreign)
    BY <1>a, NoTextAssumption, MergeIsKnown DEF Resend, HoldsOnlyTold, TextTypes
  <2>2. QED
    BY <1>9, <1>a, <1>n, <1>k, <2>1 DEF SettledResend, Forget, HoldsOnlyTold, TextTypes, MaybeText, Conflict,
       serverVars, editorVars, tabVars, slotVars, runVars, userVars, boundVars, ghostVars
<1>10. CASE RetriesSpent
  <2>1. Known(Resend, untold, foreign)
    BY <1>a, NoTextAssumption, MergeIsKnown DEF Resend, HoldsOnlyTold, TextTypes
  <2>2. QED
    BY <1>10, <1>a, <1>n, <1>k, <2>1 DEF RetriesSpent, Raise, Stop, Forget, HoldsOnlyTold, TextTypes, MaybeText, Conflict,
       serverVars, editorVars, tabVars, slotVars, runVars, userVars, boundVars, ghostVars
<1>11. CASE Disagree
  BY <1>11, <1>a, <1>n, <1>k DEF Disagree, Raise, Stop, Forget, HoldsOnlyTold, TextTypes, MaybeText, Conflict,
     serverVars, editorVars, tabVars, slotVars, runVars, userVars, boundVars, ghostVars
<1>12. CASE Failed
  BY <1>12, <1>a, <1>n, <1>k DEF Failed, Stop, Forget, HoldsOnlyTold, TextTypes, MaybeText, Conflict,
     serverVars, editorVars, tabVars, slotVars, runVars, userVars, boundVars, ghostVars
<1>13. CASE KeepMine
  BY <1>13, <1>a, <1>n, <1>k DEF KeepMine, Answerable, Answer, HoldsOnlyTold, TextTypes, MaybeText, Conflict,
     serverVars, editorVars, tabVars, slotVars, runVars, userVars, boundVars, ghostVars
<1>14. CASE KeepBoth
  BY <1>14, <1>a, <1>n, <1>k DEF KeepBoth, Answerable, Answer, HoldsOnlyTold, TextTypes, MaybeText, Conflict,
     serverVars, editorVars, tabVars, slotVars, runVars, userVars, boundVars, ghostVars
<1>15. CASE TakeTheirs
  BY <1>15, <1>a, <1>n, <1>k DEF TakeTheirs, Answerable, Replaced, NoReload, HoldsOnlyTold, TextTypes, MaybeText, Conflict,
     serverVars, editorVars, tabVars, slotVars, runVars, userVars, boundVars, ghostVars
<1>16. CASE AnswerDelivered
  <2>1. foreign' = foreign /\ untold' \subseteq untold
    BY <1>16 DEF AnswerDelivered, Fault, Accepts, NoAnswer, Told, serverVars
  <2>2. \A t \in MaybeText : Known(t, untold, foreign) => Known(t, untold', foreign')
    BY <2>1, <1>a, KnownStays
  <2>3. disk # NoText /\ Told(disk) => Known(disk, untold', foreign')
    BY <2>1, <1>r
  <2>4. HoldsOnlyTold'
    BY <1>16, <2>2, <2>3, <1>a, <1>n DEF AnswerDelivered, Fault, Accepts, NoAnswer, HoldsOnlyTold, TextTypes, MaybeText,
       Conflict, serverVars, editorVars, tabVars, slotVars, runVars, userVars, boundVars
  <2>5. disk' = disk \/ disk' = current \/ disk' = answer.text
    BY <1>16 DEF AnswerDelivered, Fault, Accepts, NoAnswer, serverVars
  <2>6. QED
    BY <2>1, <2>4, <2>5, <1>a, NoTextAssumption DEF Issued, HoldsOnlyTold, Known, TextTypes
<1>17. CASE ResolvedKept
  BY <1>17, <1>a, <1>n, <1>k DEF ResolvedKept, NoAnswer, HoldsOnlyTold, TextTypes, MaybeText, Conflict,
     serverVars, editorVars, tabVars, slotVars, runVars, userVars, boundVars, ghostVars
<1>18. CASE ResolvedBoth
  BY <1>18, <1>a, <1>n, <1>k DEF ResolvedBoth, Replaced, NoAnswer, NoReload, HoldsOnlyTold, TextTypes, MaybeText, Conflict,
     serverVars, editorVars, tabVars, slotVars, runVars, userVars, boundVars, ghostVars
<1>19. CASE AnswerFailed
  BY <1>19, <1>a, <1>n, <1>k DEF AnswerFailed, NoAnswer, HoldsOnlyTold, TextTypes, MaybeText, Conflict,
     serverVars, editorVars, tabVars, slotVars, runVars, userVars, boundVars, ghostVars
<1>20. CASE RefreshTick
  BY <1>20, <1>a, <1>n, <1>k DEF RefreshTick, NoReload, HoldsOnlyTold, TextTypes, MaybeText, Conflict,
     serverVars, editorVars, tabVars, slotVars, runVars, userVars, boundVars, ghostVars
<1>21. CASE ReloadRead
  <2>1. foreign' = foreign /\ untold' \subseteq untold
    BY <1>21 DEF ReloadRead, Fault, NoReload, Told, serverVars
  <2>2. \A t \in MaybeText : Known(t, untold, foreign) => Known(t, untold', foreign')
    BY <2>1, <1>a, KnownStays
  <2>3. disk # NoText /\ Told(disk) => Known(disk, untold', foreign')
    BY <2>1, <1>r
  <2>4. HoldsOnlyTold'
    BY <1>21, <2>2, <2>3, <1>a, <1>n DEF ReloadRead, Fault, NoReload, HoldsOnlyTold, TextTypes, MaybeText,
       Conflict, serverVars, editorVars, tabVars, slotVars, runVars, userVars, boundVars
  <2>5. disk' = disk \/ disk' = current \/ disk' = answer.text
    BY <1>21 DEF ReloadRead, Fault, NoReload, serverVars
  <2>6. QED
    BY <2>1, <2>4, <2>5, <1>a, NoTextAssumption DEF Issued, HoldsOnlyTold, Known, TextTypes
<1>22. CASE ReloadApply
  BY <1>22, <1>a, <1>n, <1>k DEF ReloadApply, NoReload, HoldsOnlyTold, TextTypes, MaybeText, Conflict,
     serverVars, editorVars, tabVars, slotVars, runVars, userVars, boundVars, ghostVars
<1>23. CASE UNCHANGED vars
  BY <1>23, <1>k DEF vars, HoldsOnlyTold, serverVars, editorVars, tabVars, slotVars, runVars, userVars, boundVars, ghostVars
<1>24. QED
  BY <1>1, <1>2, <1>3, <1>4, <1>5, <1>6, <1>7, <1>8, <1>9, <1>10, <1>11, <1>12, <1>13, <1>14, <1>15, <1>16, <1>17, <1>18, <1>19, <1>20, <1>21, <1>22, <1>23 DEF Next, Attempted, Answered

\* Every text the device could send as a token, and every text it could save, holds
\* only versions it typed or was told (save.rs:198-206, 227-275; state.rs:390-415).
THEOREM DeviceHoldsOnlyTold == Spec => []IInv
<1>1. Init => IInv
  BY InitType, InitHolds DEF IInv
<1>2. IInv /\ [Next]_vars => IInv'
  BY StepType, StepHolds DEF IInv
<1>3. QED
  BY <1>1, <1>2, PTL DEF Spec

\* No write of this device replaces an edit it was never told of: an accepted
\* save carries the file's own text as its token, and a token holds nothing
\* untold.  This is the promise of If-Match (README.md:243-245) at the device.
THEOREM NoBlindWrites == Spec => NoBlindOverwrite
<1>1. IInv /\ [Next]_vars =>
        [\A r \in Region : disk # NoText /\ disk' # disk /\ disk[r] \in untold
                          => disk'[r] = disk[r] \/ disk'[r] \in untold']_vars
  <2> SUFFICES ASSUME IInv, Next, NEW r \in Region,
                      disk # NoText, disk' # disk, disk[r] \in untold
               PROVE  disk'[r] = disk[r] \/ disk'[r] \in untold'
    OBVIOUS
  <2> USE DEF serverVars
  <2>1. CASE \E q \in Region : ForeignEdit(q)
    BY <2>1 DEF ForeignEdit, IInv, TypeOK, TextTypes, MaybeText, Text
  <2>2. CASE Deliver
    <3>1. disk = expected
      BY <2>2 DEF Deliver, Accepts
    <3>2. QED
      BY <3>1 DEF IInv, HoldsOnlyTold, Known
  <2>3. CASE AnswerDelivered
    <3>1. disk = answer.hash
      BY <2>3 DEF AnswerDelivered, Accepts
    <3>2. QED
      BY <3>1 DEF IInv, HoldsOnlyTold, Known
  <2>4. CASE (\E q \in Typing : Type(q)) \/ Autosave \/ SaveNow \/ RunStart \/ Attempted
    BY <2>4 DEF Type, Autosave, SaveNow, RunStart, Attempted, Saved, SettledEcho,
                SettledResend, RetriesSpent, Disagree, Failed, Raise
  <2>5. CASE KeepMine \/ KeepBoth \/ TakeTheirs \/ Answered
    BY <2>5 DEF KeepMine, KeepBoth, Answer, TakeTheirs, Replaced, Answered, ResolvedKept,
                ResolvedBoth, AnswerFailed
  <2>6. CASE RefreshTick \/ ReloadRead \/ ReloadApply
    BY <2>6 DEF RefreshTick, ReloadRead, ReloadApply
  <2>7. QED
    BY <2>1, <2>2, <2>3, <2>4, <2>5, <2>6 DEF Next
<1>2. QED
  BY <1>1, DeviceHoldsOnlyTold, PTL DEF Spec, NoBlindOverwrite

-----------------------------------------------------------------------------
(***************************************************************************)
(* Where text typed here is until it is saved.                             *)
(***************************************************************************)
\* A text whose typed versions have all reached the server, the outbox or a copy.
Landed(t, saved) == t # NoText => \A r \in Region : t[r] <= 0 \/ t[r] \in saved

\* What the server holds and what it answered with has landed.
ServerLanded ==
  LET L(t) == Landed(t, kept)
  IN  /\ L(disk) /\ L(base) /\ L(cache.text)
      /\ pc = "answered" /\ reply \in {"ok", "offline"} => L(current)
      /\ pc = "answered" /\ reply = "conflict" => L(body) /\ disk # NoText
      /\ reload.step = "ready" => L(reload.text)
AnswersLanded ==
  LET L(t) == Landed(t, kept)
  IN  /\ dialog # NoDialog => L(dialog.theirs) /\ disk # NoText
      /\ answer.step # "none" => disk # NoText
      /\ answer.step \in {"sending", "ok"} => L(answer.theirs)
      /\ answer.step = "ok" => L(answer.text)

\* The slot is blocked exactly by a dialog or its answer, of which there is one, and
\* then nothing is sent; queued text waits for one or the other.
BlockedByOne ==
  /\ blocked => pc = "idle" /\ (dialog # NoDialog \/ answer.step # "none")
  /\ dialog # NoDialog => blocked /\ answer.step = "none"
  /\ answer.step # "none" => blocked
  /\ queued # NoText => blocked \/ pc # "idle"

\* The timer holds what the editor shows, unless a re-read replaced it.
TimerIsFresh == pending # NoText => pending = active \/ Landed(active, kept)

\* The version the editor shows of a region has landed, or is on its way, or what the
\* editor shows is about to be replaced.
Traced(r) ==
  \/ active[r] <= 0 \/ active[r] \in kept
  \/ pending # NoText /\ pending[r] = active[r]
  \/ queued # NoText /\ queued[r] = active[r]
  \/ pc # "idle" /\ current[r] = active[r]
  \/ dialog # NoDialog /\ dialog.mine[r] = active[r]
  \/ answer.step = "sending" /\ answer.text[r] = active[r]
  \/ answer.step = "failed"
  \/ reload.step = "reading" /\ disk # NoText
  \/ reload.step = "ready"
AllTraced == \A r \in Region : Traced(r)

Holding  == ServerLanded /\ AnswersLanded /\ BlockedByOne /\ TimerIsFresh /\ AllTraced
SavedInv == TypeOK /\ SingleFlight /\ (gaveUp \/ Holding)

LEMMA LandedStays ==
  ASSUME NEW k, NEW l, k \subseteq l
  PROVE  \A t : Landed(t, k) => Landed(t, l)
  BY DEF Landed

LEMMA SavedLands ==
  ASSUME NEW t, NEW k
  PROVE  Landed(t, k \cup Versions(t))
  BY DEF Landed, Versions

LEMMA NothingTyped ==
  ASSUME NEW k
  PROVE  Landed(Opened, k) /\ Landed(NoText, k)
  BY DEF Landed, Opened

LEMMA ForeignLands ==
  ASSUME NEW t \in Text, NEW k, Landed(t, k), NEW q \in Region, NEW n \in Nat
  PROVE  Landed([t EXCEPT ![q] = -(n + 1)], k)
<1>1. \A r \in Region : t[r] \in Int /\ (t[r] <= 0 \/ t[r] \in k)
  BY NoTextAssumption DEF Landed, Text
<1>2. \A r \in Region : [t EXCEPT ![q] = -(n + 1)][r] = IF r = q THEN -(n + 1) ELSE t[r]
  BY DEF Text
<1>3. -(n + 1) <= 0
  OBVIOUS
<1>4. QED
  BY <1>1, <1>2, <1>3 DEF Landed

\* Once a request was refused or an answer failed, it stays so.
LEMMA GivenUpStays == TypeOK /\ gaveUp /\ [Next]_vars => gaveUp'
  BY DEF Next, vars, ForeignEdit, Type, Autosave, SaveNow, RunStart, Deliver, Attempted, Saved,
     SettledEcho, SettledResend, RetriesSpent, Disagree, Failed, Raise, KeepMine, KeepBoth, Answer,
     TakeTheirs, Replaced, AnswerDelivered, Answered, ResolvedKept, ResolvedBoth, AnswerFailed,
     RefreshTick, ReloadRead, ReloadApply, ghostVars

\* A block goes up with a dialog and comes down with its answer.
LEMMA StepBlocked ==
  ASSUME TypeOK, SingleFlight, ~gaveUp, Holding, [Next]_vars, ~gaveUp'
  PROVE  BlockedByOne'
<1> USE DEF serverVars, editorVars, tabVars, slotVars, runVars, userVars, ghostVars, boundVars
<1>a. BlockedByOne /\ dialog \in Conflict \cup {NoDialog}
  BY DEF Holding, TypeOK, TextTypes
<1>b. /\ SingleFlight
      /\ answer \in [step : {"none", "sending", "ok", "failed"}, kind : {"mine", "both"},
                     text : Text, hash : Text, theirs : Text]
  BY DEF TypeOK, TextTypes
<1>c. current \in Text /\ body \in Text /\ active \in Text /\ queued \in MaybeText
  BY DEF TypeOK, TextTypes
<1>1. ASSUME NEW r \in Region, ForeignEdit(r) PROVE BlockedByOne'
  BY <1>1, <1>a, <1>b DEF BlockedByOne, ForeignEdit
<1>2. ASSUME NEW r \in Typing, Type(r) PROVE BlockedByOne'
  BY <1>2, <1>a, <1>b DEF BlockedByOne, Type
<1>3. CASE Autosave
  BY <1>3, <1>a, <1>b DEF BlockedByOne, Autosave, Request, SingleFlight
<1>4. CASE SaveNow
  BY <1>4, <1>a, <1>b DEF BlockedByOne, SaveNow, Request, SingleFlight
<1>5. CASE RunStart
  BY <1>5, <1>a, <1>b DEF BlockedByOne, RunStart, Fault
<1>6. CASE Deliver
  BY <1>6, <1>a, <1>b DEF BlockedByOne, Deliver, Fault
<1>7. CASE Saved
  BY <1>7, <1>a, <1>b DEF BlockedByOne, Saved, NextOrStop, Stop, Forget
<1>8. CASE SettledEcho
  BY <1>8, <1>a, <1>b DEF BlockedByOne, SettledEcho, NextOrStop, Stop, Forget
<1>9. CASE SettledResend
  BY <1>9, <1>a, <1>b DEF BlockedByOne, SettledResend, Forget
<1>10. CASE Disagree
  BY <1>10, <1>a, <1>c, NoDialogAssumption DEF BlockedByOne, Disagree, Raise, Stop, Forget, Conflict
<1>11. CASE KeepMine
  BY <1>11, <1>a, <1>b DEF BlockedByOne, KeepMine, Answerable, Answer
<1>12. CASE KeepBoth
  BY <1>12, <1>a, <1>b DEF BlockedByOne, KeepBoth, Answerable, Answer
<1>13. CASE AnswerDelivered
  BY <1>13, <1>a, <1>b DEF BlockedByOne, AnswerDelivered, Fault, NoAnswer
<1>14. CASE ResolvedKept
  BY <1>14, <1>a, <1>b DEF BlockedByOne, ResolvedKept, NoAnswer, SingleFlight
<1>15. CASE TakeTheirs
  BY <1>15, <1>a, <1>b DEF BlockedByOne, TakeTheirs, Answerable, Replaced, NoReload
<1>16. CASE ResolvedBoth
  BY <1>16, <1>a, <1>b DEF BlockedByOne, ResolvedBoth, Replaced, NoAnswer, NoReload
<1>17. CASE RefreshTick
  BY <1>17, <1>a, <1>b DEF BlockedByOne, RefreshTick, NoReload
<1>18. CASE ReloadRead
  BY <1>18, <1>a, <1>b DEF BlockedByOne, ReloadRead, Fault, NoReload
<1>19. CASE ReloadApply
  BY <1>19, <1>a, <1>b DEF BlockedByOne, ReloadApply, NoReload
<1>20. CASE UNCHANGED vars
  BY <1>20, <1>a, <1>b DEF vars, BlockedByOne
<1>21. CASE RetriesSpent \/ Failed \/ AnswerFailed
  BY <1>21 DEF RetriesSpent, Failed, AnswerFailed
<1>22. QED
  BY <1>1, <1>2, <1>3, <1>4, <1>5, <1>6, <1>7, <1>8, <1>9, <1>10, <1>11, <1>12, <1>13, <1>14, <1>15, <1>16, <1>17, <1>18, <1>19, <1>20, <1>21 DEF Next, Attempted, Answered

\* What is read, or written back, has landed.
LEMMA StepServerLanded ==
  ASSUME TypeOK, SingleFlight, ~gaveUp, Holding, [Next]_vars, ~gaveUp'
  PROVE  ServerLanded'
<1> USE DEF serverVars, editorVars, tabVars, slotVars, runVars, userVars, ghostVars, boundVars
<1>a. /\ TextTypes /\ foreign \in Nat /\ ServerLanded /\ AnswersLanded
  BY DEF Holding, TypeOK, ControlTypes
<1>b. kept \subseteq kept'
  BY DEF Next, vars, ForeignEdit, Type, Autosave, SaveNow, RunStart, Deliver, Attempted, Saved,
     SettledEcho, SettledResend, RetriesSpent, Disagree, Failed, Raise, KeepMine, KeepBoth, Answer,
     TakeTheirs, Replaced, AnswerDelivered, Answered, ResolvedKept, ResolvedBoth, AnswerFailed,
     RefreshTick, ReloadRead, ReloadApply
<1>c. \A t : Landed(t, kept) => Landed(t, kept')
  BY <1>b, LandedStays
<1>1. ASSUME NEW r \in Region, ForeignEdit(r) PROVE ServerLanded'
  <2>1. disk \in Text /\ Landed(disk, kept)
    BY <1>1, <1>a DEF ForeignEdit, TextTypes, MaybeText, ServerLanded
  <2>2. Landed([disk EXCEPT ![r] = -(foreign + 1)], kept)
    BY <1>a, <2>1, ForeignLands
  <2>3. QED
    BY <1>1, <1>a, <1>c, <2>2, NoTextAssumption DEF ServerLanded, ForeignEdit, TextTypes, MaybeText, Text
<1>2. ASSUME NEW r \in Typing, Type(r) PROVE ServerLanded'
  BY <1>2, <1>a, <1>c DEF ServerLanded, Type
<1>3. CASE Autosave
  BY <1>3, <1>a, <1>c DEF ServerLanded, Autosave, Request
<1>4. CASE SaveNow
  BY <1>4, <1>a, <1>c DEF ServerLanded, SaveNow, Request
<1>5. CASE RunStart
  BY <1>5, <1>a, <1>c DEF ServerLanded, RunStart, Fault
<1>6. CASE Deliver
  <2>1. Landed(current, kept \cup Versions(current))
    BY SavedLands
  <2>2. QED
    BY <1>6, <1>a, <1>c, <2>1, NoTextAssumption DEF ServerLanded, Deliver, Fault, Accepts, TextTypes
<1>7. CASE Saved
  BY <1>7, <1>a, <1>c DEF ServerLanded, Saved, NextOrStop, Stop, Forget
<1>8. CASE SettledEcho
  BY <1>8, <1>a, <1>c DEF ServerLanded, SettledEcho, NextOrStop, Stop, Forget
<1>9. CASE SettledResend
  BY <1>9, <1>a, <1>c DEF ServerLanded, SettledResend, Forget
<1>10. CASE Disagree
  BY <1>10, <1>a, <1>c DEF ServerLanded, Disagree, Raise, Stop, Forget
<1>11. CASE KeepMine
  BY <1>11, <1>a, <1>c DEF ServerLanded, KeepMine, Answerable, Answer
<1>12. CASE KeepBoth
  BY <1>12, <1>a, <1>c DEF ServerLanded, KeepBoth, Answerable, Answer
<1>13. CASE AnswerDelivered
  <2>1. Landed(answer.text, kept \cup Versions(answer.text))
    BY SavedLands
  <2>2. QED
    BY <1>13, <1>a, <1>c, <2>1, NoTextAssumption DEF ServerLanded, AnswerDelivered, Fault, Accepts, TextTypes
<1>14. CASE ResolvedKept
  BY <1>14, <1>a, <1>c DEF ServerLanded, AnswersLanded, ResolvedKept, NoAnswer
<1>15. CASE TakeTheirs
  BY <1>15, <1>a, <1>c DEF ServerLanded, AnswersLanded, TakeTheirs, Answerable, Replaced, NoReload
<1>16. CASE ResolvedBoth
  BY <1>16, <1>a, <1>c DEF ServerLanded, AnswersLanded, ResolvedBoth, Replaced, NoAnswer, NoReload
<1>17. CASE RefreshTick
  BY <1>17, <1>a, <1>c DEF ServerLanded, RefreshTick, NoReload
<1>18. CASE ReloadRead
  BY <1>18, <1>a, <1>c DEF ServerLanded, ReloadRead, Fault, NoReload
<1>19. CASE ReloadApply
  BY <1>19, <1>a, <1>c DEF ServerLanded, ReloadApply, NoReload
<1>20. CASE UNCHANGED vars
  BY <1>20, <1>a, <1>c DEF vars, ServerLanded
<1>21. CASE RetriesSpent \/ Failed \/ AnswerFailed
  BY <1>21 DEF RetriesSpent, Failed, AnswerFailed
<1>22. QED
  BY <1>1, <1>2, <1>3, <1>4, <1>5, <1>6, <1>7, <1>8, <1>9, <1>10, <1>11, <1>12, <1>13, <1>14, <1>15, <1>16, <1>17, <1>18, <1>19, <1>20, <1>21 DEF Next, Attempted, Answered

\* So has what a dialog shows, and a file that was there stays there.
LEMMA StepAnswersLanded ==
  ASSUME TypeOK, SingleFlight, ~gaveUp, Holding, [Next]_vars, ~gaveUp'
  PROVE  AnswersLanded'
<1> USE DEF serverVars, editorVars, tabVars, slotVars, runVars, userVars, ghostVars, boundVars
<1>a. /\ TextTypes /\ foreign \in Nat /\ ServerLanded /\ AnswersLanded
  BY DEF Holding, TypeOK, ControlTypes
<1>b. kept \subseteq kept'
  BY DEF Next, vars, ForeignEdit, Type, Autosave, SaveNow, RunStart, Deliver, Attempted, Saved,
     SettledEcho, SettledResend, RetriesSpent, Disagree, Failed, Raise, KeepMine, KeepBoth, Answer,
     TakeTheirs, Replaced, AnswerDelivered, Answered, ResolvedKept, ResolvedBoth, AnswerFailed,
     RefreshTick, ReloadRead, ReloadApply
<1>c. \A t : Landed(t, kept) => Landed(t, kept')
  BY <1>b, LandedStays
<1>1. ASSUME NEW r \in Region, ForeignEdit(r) PROVE AnswersLanded'
  BY <1>1, <1>a, <1>c, NoTextAssumption DEF AnswersLanded, ForeignEdit, TextTypes, MaybeText, Text
<1>2. ASSUME NEW r \in Typing, Type(r) PROVE AnswersLanded'
  BY <1>2, <1>a, <1>c DEF AnswersLanded, Type
<1>3. CASE Autosave
  BY <1>3, <1>a, <1>c DEF AnswersLanded, Autosave, Request
<1>4. CASE SaveNow
  BY <1>4, <1>a, <1>c DEF AnswersLanded, SaveNow, Request
<1>5. CASE RunStart
  BY <1>5, <1>a, <1>c DEF AnswersLanded, RunStart, Fault
<1>6. CASE Deliver
  BY <1>6, <1>a, <1>c, NoTextAssumption DEF AnswersLanded, Deliver, Fault, TextTypes
<1>7. CASE Saved
  BY <1>7, <1>a, <1>c DEF AnswersLanded, Saved, NextOrStop, Stop, Forget
<1>8. CASE SettledEcho
  BY <1>8, <1>a, <1>c DEF AnswersLanded, SettledEcho, NextOrStop, Stop, Forget
<1>9. CASE SettledResend
  BY <1>9, <1>a, <1>c DEF AnswersLanded, SettledResend, Forget
<1>10. CASE Disagree
  BY <1>10, <1>a, <1>c DEF ServerLanded, AnswersLanded, TextTypes, Disagree, Raise, Stop, Forget
<1>11. CASE KeepMine
  BY <1>11, <1>a, <1>c DEF AnswersLanded, KeepMine, Answerable, Answer
<1>12. CASE KeepBoth
  BY <1>12, <1>a, <1>c DEF AnswersLanded, KeepBoth, Answerable, Answer
<1>13. CASE AnswerDelivered
  <2>1. Landed(answer.text, kept \cup Versions(answer.text))
    BY SavedLands
  <2>2. QED
    BY <1>13, <1>a, <1>c, <2>1, NoTextAssumption DEF AnswersLanded, AnswerDelivered, Fault, Accepts, NoAnswer, TextTypes
<1>14. CASE ResolvedKept
  BY <1>14, <1>a, <1>c DEF AnswersLanded, ResolvedKept, NoAnswer
<1>15. CASE TakeTheirs
  BY <1>15, <1>a, <1>c DEF AnswersLanded, TakeTheirs, Answerable, Replaced, NoReload
<1>16. CASE ResolvedBoth
  BY <1>16, <1>a, <1>c DEF AnswersLanded, ResolvedBoth, Replaced, NoAnswer, NoReload
<1>17. CASE RefreshTick
  BY <1>17, <1>a, <1>c DEF AnswersLanded, RefreshTick, NoReload
<1>18. CASE ReloadRead
  BY <1>18, <1>a, <1>c DEF AnswersLanded, ReloadRead, Fault, NoReload
<1>19. CASE ReloadApply
  BY <1>19, <1>a, <1>c DEF AnswersLanded, ReloadApply, NoReload
<1>20. CASE UNCHANGED vars
  BY <1>20, <1>a, <1>c DEF vars, AnswersLanded
<1>21. CASE RetriesSpent \/ Failed \/ AnswerFailed
  BY <1>21 DEF RetriesSpent, Failed, AnswerFailed
<1>22. QED
  BY <1>1, <1>2, <1>3, <1>4, <1>5, <1>6, <1>7, <1>8, <1>9, <1>10, <1>11, <1>12, <1>13, <1>14, <1>15, <1>16, <1>17, <1>18, <1>19, <1>20, <1>21 DEF Next, Attempted, Answered

\* Typing restarts the timer with what is typed.
LEMMA StepTimer ==
  ASSUME TypeOK, SingleFlight, ~gaveUp, Holding, [Next]_vars, ~gaveUp'
  PROVE  TimerIsFresh'
<1> USE DEF serverVars, editorVars, tabVars, slotVars, runVars, userVars, ghostVars, boundVars
<1>a. /\ TextTypes /\ foreign \in Nat /\ ServerLanded /\ AnswersLanded
  BY DEF Holding, TypeOK, ControlTypes
<1>b. kept \subseteq kept'
  BY DEF Next, vars, ForeignEdit, Type, Autosave, SaveNow, RunStart, Deliver, Attempted, Saved,
     SettledEcho, SettledResend, RetriesSpent, Disagree, Failed, Raise, KeepMine, KeepBoth, Answer,
     TakeTheirs, Replaced, AnswerDelivered, Answered, ResolvedKept, ResolvedBoth, AnswerFailed,
     RefreshTick, ReloadRead, ReloadApply
<1>c. \A t : Landed(t, kept) => Landed(t, kept')
  BY <1>b, LandedStays
<1>d. TimerIsFresh
  BY DEF Holding
<1>1. ASSUME NEW r \in Region, ForeignEdit(r) PROVE TimerIsFresh'
  BY <1>1, <1>c, <1>d DEF TimerIsFresh, ForeignEdit
<1>2. ASSUME NEW r \in Typing, Type(r) PROVE TimerIsFresh'
  BY <1>2, <1>c, <1>d DEF TimerIsFresh, Type
<1>3. CASE Autosave
  BY <1>3, <1>c, <1>d DEF TimerIsFresh, Autosave, Request
<1>4. CASE SaveNow
  BY <1>4, <1>c, <1>d DEF TimerIsFresh, SaveNow, Request
<1>5. CASE RunStart
  BY <1>5, <1>c, <1>d DEF TimerIsFresh, RunStart, Fault
<1>6. CASE Deliver
  BY <1>6, <1>c, <1>d DEF TimerIsFresh, Deliver, Fault
<1>7. CASE Saved
  BY <1>7, <1>c, <1>d DEF TimerIsFresh, Saved, NextOrStop, Stop, Forget
<1>8. CASE SettledEcho
  BY <1>8, <1>c, <1>d DEF TimerIsFresh, SettledEcho, NextOrStop, Stop, Forget
<1>9. CASE SettledResend
  BY <1>9, <1>c, <1>d DEF TimerIsFresh, SettledResend, Forget
<1>10. CASE Disagree
  BY <1>10, <1>c, <1>d DEF TimerIsFresh, Disagree, Raise, Stop, Forget
<1>11. CASE KeepMine
  BY <1>11, <1>c, <1>d DEF TimerIsFresh, KeepMine, Answerable, Answer
<1>12. CASE KeepBoth
  BY <1>12, <1>c, <1>d DEF TimerIsFresh, KeepBoth, Answerable, Answer
<1>13. CASE AnswerDelivered
  BY <1>13, <1>c, <1>d DEF TimerIsFresh, AnswerDelivered, Fault, NoAnswer
<1>14. CASE ResolvedKept
  BY <1>14, <1>c, <1>d DEF TimerIsFresh, ResolvedKept, NoAnswer
<1>15. CASE TakeTheirs
  BY <1>15, <1>c, <1>d DEF TimerIsFresh, TakeTheirs, Answerable, Replaced, NoReload
<1>16. CASE ResolvedBoth
  BY <1>16, <1>c, <1>d DEF TimerIsFresh, ResolvedBoth, Replaced, NoAnswer, NoReload
<1>17. CASE RefreshTick
  BY <1>17, <1>c, <1>d DEF TimerIsFresh, RefreshTick, NoReload
<1>18. CASE ReloadRead
  BY <1>18, <1>c, <1>d DEF TimerIsFresh, ReloadRead, Fault, NoReload
<1>19. CASE ReloadApply
  BY <1>19, <1>a, <1>c, <1>d DEF TimerIsFresh, ServerLanded, ReloadApply, NoReload
<1>20. CASE UNCHANGED vars
  BY <1>20, <1>c, <1>d DEF vars, TimerIsFresh
<1>21. CASE RetriesSpent \/ Failed \/ AnswerFailed
  BY <1>21 DEF RetriesSpent, Failed, AnswerFailed
<1>22. QED
  BY <1>1, <1>2, <1>3, <1>4, <1>5, <1>6, <1>7, <1>8, <1>9, <1>10, <1>11, <1>12, <1>13, <1>14, <1>15, <1>16, <1>17, <1>18, <1>19, <1>20, <1>21 DEF Next, Attempted, Answered

\* A version leaves a place where it waits only for the next, or when it has landed.
LEMMA StepTraced ==
  ASSUME TypeOK, SingleFlight, ~gaveUp, Holding, [Next]_vars, ~gaveUp', NEW q \in Region
  PROVE  Traced(q)'
<1> USE DEF serverVars, editorVars, tabVars, slotVars, runVars, userVars, ghostVars, boundVars
<1>a. TextTypes /\ SingleFlight /\ ServerLanded /\ AnswersLanded /\ TimerIsFresh
  BY DEF Holding, TypeOK
<1>b. kept \subseteq kept'
  BY DEF Next, vars, ForeignEdit, Type, Autosave, SaveNow, RunStart, Deliver, Attempted, Saved,
     SettledEcho, SettledResend, RetriesSpent, Disagree, Failed, Raise, KeepMine, KeepBoth, Answer,
     TakeTheirs, Replaced, AnswerDelivered, Answered, ResolvedKept, ResolvedBoth, AnswerFailed,
     RefreshTick, ReloadRead, ReloadApply
<1>c. Traced(q)
  BY DEF Holding, AllTraced
<1>1. ASSUME NEW r \in Region, ForeignEdit(r) PROVE Traced(q)'
  BY <1>1, <1>a, <1>b, <1>c, NoTextAssumption DEF Traced, TextTypes, ForeignEdit, MaybeText, Text
<1>2. ASSUME NEW r \in Typing, Type(r) PROVE Traced(q)'
  BY <1>2, <1>a, <1>b, <1>c, NoTextAssumption DEF Traced, TextTypes, Type, MaybeText, Text
<1>3. CASE Autosave
  BY <1>3, <1>a, <1>b, <1>c, NoTextAssumption DEF Traced, TextTypes, Autosave, Request, TimerIsFresh, Landed, SingleFlight, MaybeText
<1>4. CASE SaveNow
  BY <1>4, <1>a, <1>b, <1>c, NoTextAssumption DEF Traced, TextTypes, SaveNow, Request, SingleFlight
<1>5. CASE RunStart
  BY <1>5, <1>a, <1>b, <1>c, NoTextAssumption DEF Traced, TextTypes, RunStart, Fault
<1>6. CASE Deliver
  BY <1>6, <1>a, <1>b, <1>c, NoTextAssumption DEF Traced, TextTypes, Deliver, Fault, Accepts
<1>7. CASE Saved
  BY <1>7, <1>a, <1>b, <1>c, NoTextAssumption DEF Traced, TextTypes, Saved, NextOrStop, Stop, Forget, ServerLanded, Landed
<1>8. CASE SettledEcho
  BY <1>8, <1>a, <1>b, <1>c, NoTextAssumption DEF Traced, TextTypes, SettledEcho, NextOrStop, Stop, Forget, ServerLanded, Landed
<1>9. CASE SettledResend
  <2>1. Resend[q] = current[q] \/ current[q] = base[q]
    BY DEF Resend, ThreeWay
  <2>2. base[q] <= 0 \/ base[q] \in kept
    BY <1>a, NoTextAssumption DEF ServerLanded, Landed, TextTypes
  <2>3. QED
    BY <1>9, <1>a, <1>b, <1>c, <2>1, <2>2 DEF Traced, SettledResend, Forget
<1>10. CASE Disagree
  <2>1. dialog' # NoDialog /\ dialog'.mine = current
    BY <1>10, <1>a, NoDialogAssumption DEF Disagree, Raise, Conflict, TextTypes
  <2>2. UNCHANGED <<active, pending, kept, queued, answer, reload, disk>> /\ pc = "answered"
    BY <1>10 DEF Disagree, Raise
  <2>3. dialog = NoDialog
    BY <2>2 DEF Holding, BlockedByOne
  <2>4. QED
    BY <1>c, <2>1, <2>2, <2>3 DEF Traced
<1>11. CASE KeepMine
  BY <1>11, <1>a, <1>b, <1>c, NoTextAssumption DEF Traced, TextTypes, KeepMine, Answerable, Answer
<1>12. CASE KeepBoth
  BY <1>12, <1>a, <1>b, <1>c, NoTextAssumption DEF Traced, TextTypes, KeepBoth, Answerable, Answer
<1>13. CASE AnswerDelivered
  BY <1>13, <1>a, <1>b, <1>c, NoTextAssumption DEF Traced, TextTypes, AnswerDelivered, Fault, NoAnswer, Versions, Accepts
<1>14. CASE ResolvedKept
  BY <1>14, <1>a, <1>b, <1>c, NoTextAssumption DEF Traced, TextTypes, ResolvedKept, NoAnswer, SingleFlight
<1>15. CASE TakeTheirs
  BY <1>15, <1>a, <1>b, <1>c, NoTextAssumption DEF Traced, TextTypes, TakeTheirs, Answerable, Replaced, NoReload, AnswersLanded
<1>16. CASE ResolvedBoth
  BY <1>16, <1>a, <1>b, <1>c, NoTextAssumption DEF Traced, TextTypes, ResolvedBoth, Replaced, NoAnswer, NoReload, AnswersLanded
<1>17. CASE RefreshTick
  BY <1>17, <1>a, <1>b, <1>c, NoTextAssumption DEF Traced, TextTypes, RefreshTick, NoReload
<1>18. CASE ReloadRead
  BY <1>18, <1>a, <1>b, <1>c, NoTextAssumption DEF Traced, TextTypes, ReloadRead, Fault, NoReload
<1>19. CASE ReloadApply
  BY <1>19, <1>a, <1>b, <1>c, NoTextAssumption DEF Traced, TextTypes, ReloadApply, NoReload, ServerLanded, Landed
<1>20. CASE UNCHANGED vars
  BY <1>20, <1>c DEF vars, Traced
<1>21. CASE RetriesSpent \/ Failed \/ AnswerFailed
  BY <1>21 DEF RetriesSpent, Failed, AnswerFailed
<1>22. QED
  BY <1>1, <1>2, <1>3, <1>4, <1>5, <1>6, <1>7, <1>8, <1>9, <1>10, <1>11, <1>12, <1>13, <1>14, <1>15, <1>16, <1>17, <1>18, <1>19, <1>20, <1>21 DEF Next, Attempted, Answered

\* Every version the editor shows has landed, is on its way, or is about to be replaced.
LEMMA StepSaved == SavedInv /\ [Next]_vars => SavedInv'
<1> SUFFICES ASSUME TypeOK, SingleFlight, gaveUp \/ Holding, [Next]_vars, ~gaveUp'
             PROVE  SavedInv'
  BY StepType, StepFlag DEF SavedInv
<1>1. ~gaveUp /\ Holding
  BY GivenUpStays
<1>2. ServerLanded' /\ AnswersLanded'
  BY <1>1, StepServerLanded, StepAnswersLanded
<1>3. BlockedByOne' /\ TimerIsFresh'
  BY <1>1, StepBlocked, StepTimer
<1>4. AllTraced'
  BY <1>1, StepTraced DEF AllTraced
<1>5. QED
  BY <1>2, <1>3, <1>4, StepType, StepFlag DEF SavedInv, Holding

LEMMA InitSaved == Init => SavedInv
<1> SUFFICES ASSUME Init PROVE SavedInv
  OBVIOUS
<1>1. TypeOK /\ SingleFlight
  BY InitType DEF Init, SingleFlight
<1>2. Landed(Opened, kept) /\ Landed(NoText, kept)
  BY NothingTyped
<1>3. ServerLanded /\ AnswersLanded /\ BlockedByOne /\ TimerIsFresh
  BY <1>2 DEF Init, ServerLanded, AnswersLanded, BlockedByOne, TimerIsFresh, NoAnswer, NoReload
<1>4. AllTraced
  <2>1. active = Opened
    BY DEF Init
  <2>2. Landed(active, kept) /\ active # NoText
    BY <1>2, <2>1, OpenedIsText, NoTextAssumption
  <2>3. QED
    BY <2>2 DEF AllTraced, Traced, Landed
<1>5. QED
  BY <1>1, <1>3, <1>4 DEF SavedInv, Holding

\* While no request was refused and no answer failed, every version typed is on its way
\* or has landed, and a block has one dialog or one answer (save.rs:60-280).
THEOREM SavedInvariance == Spec => []SavedInv
  BY InitSaved, StepSaved, PTL DEF Spec

\* Once nothing is outstanding, every version the editor shows has reached the server,
\* the outbox or a copy, through any number of conflicts, merges, retries, re-reads and
\* lost requests, as long as none was refused and no answer failed (save.rs:60-280).
THEOREM NothingUnsaved == Spec => []CleanMeansSaved
<1>1. SavedInv => CleanMeansSaved
  <2> SUFFICES ASSUME TypeOK, Holding, Quiet, NEW r \in Region
               PROVE  active[r] <= 0 \/ active[r] \in kept
    BY DEF SavedInv, CleanMeansSaved
  <2>1. queued = NoText
    BY DEF Holding, BlockedByOne, Quiet
  <2>2. QED
    BY <2>1 DEF Holding, AllTraced, Traced, Quiet
<1>2. QED
  BY <1>1, SavedInvariance, PTL

\* Autosave is held off only while a conflict is on screen or its answer is on its way,
\* until an answer fails (Slot::blocked, save.rs:47-49).
THEOREM BlockIsForADialog == Spec => []HeldOffOnlyForADialog
<1>1. SavedInv => HeldOffOnlyForADialog
  BY DEF SavedInv, Holding, BlockedByOne, HeldOffOnlyForADialog
<1>2. QED
  BY <1>1, SavedInvariance, PTL
=============================================================================
