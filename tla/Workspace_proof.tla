--------------------------- MODULE Workspace_proof ---------------------------
(***************************************************************************)
(* Theorems about Workspace, for any notes, tabs and edits, when the user  *)
(* waits for what was asked to be answered.                                *)
(***************************************************************************)
EXTENDS Workspace, SequenceTheorems, TLAPS

-----------------------------------------------------------------------------
(***************************************************************************)
(* The inductive invariant.                                                *)
(***************************************************************************)
Tab   == [path : Paths, hash : MaybeText, dirty : BOOLEAN]
Timer == [path : Paths, text : Text]
Pane  == [up : BOOLEAN, loaded : Paths \cup {None}, screen : MaybeText, pending : MaybeText,
          timer : Timer \cup {None}]
Read  == [path : Paths, again : BOOLEAN, ours : BOOLEAN]
Slot  == [queued : MaybeText, base : MaybeText, blocked : BOOLEAN, stage : Stages,
          text : MaybeText, token : MaybeText]
Slots == [Paths -> Slot]

Distinct(t)     == \A i, j \in DOMAIN t : t[i].path = t[j].path => i = j
HasTab(t, p)    == \E i \in DOMAIN t : t[i].path = p
Shown(t, v)     == v = "Editor" /\ t # << >>
\* The note in front is not the one the editor holds.
Moves(t, a, v, pn) == Shown(t, v) /\ t[a].path # pn.loaded

\* The shapes: of what the server has, of a list of tabs, and of the rest.
StoreFits(f, h)  == f \in [Paths -> MaybeText] /\ h \in [Paths -> Notes \cup {None}]
TabsFit(t, a, v) == /\ t \in Seq(Tab) /\ Distinct(t) /\ v \in {"Editor", "Graph"}
                    /\ a \in 0..Len(t) /\ (a = 0 <=> t = << >>)
PaneFits(pn, s, l) == /\ pn \in Pane /\ s \in Slots /\ l \in Seq(Read)
                      /\ ~pn.up => pn = Blank /\ l = << >>
RestFits(o, n, b) == /\ o \in Operation \cup {None} /\ n \in Seq(Notes \cup {None})
                     /\ b \in [ops : Nat, rereads : Nat, saves : Nat]

\* A file is of the note whose file it is.
FilesInPlace(f, h) == \A p \in Paths : /\ f[p] = None <=> h[p] = None
                                       /\ f[p] # None => f[p].note = h[p]

\* A text on its way to a path is of the note whose file that is.
Of(h, text, p)       == text # None /\ text.note = h[p]
SlotInPlace(h, x, p) == /\ x.queued # None => Of(h, x.queued, p)
                        /\ x.stage # "idle" => Of(h, x.text, p)
SlotsInPlace(h, s)   == \A p \in Paths : SlotInPlace(h, s[p], p)

\* A path a note was at until the server moved or deleted it, if the tabs do not yet know.
Gone(o, p) == o # None /\ o.stage = "done" /\ o.from = p

\* Nothing of a note is on its way.
Still(x)        == x.stage = "idle" /\ x.queued = None
AllStill(s)     == \A p \in Paths : Still(s[p])
Quiet(pn, s, p) == Still(s[p]) /\ (pn.loaded = p => pn.pending = None /\ pn.timer = None)

\* While an operation is under way its notes are left alone; once it is done its new
\* note has no tab yet, and its old one no file.
OpFits(o) == /\ o.kind = "create" => o.from = None /\ o.to # None
             /\ o.kind = "move" => o.from # None /\ o.to # None /\ o.from # o.to
             /\ o.kind = "delete" => o.from # None /\ o.to = None
             /\ o.stage = "done" /\ o.kind = "create" => o.note # None
OpQuiet(o, pn, s) == \A p \in {o.from, o.to} \ {None} : Quiet(pn, s, p)
OpDone(f, o, t) == /\ o.kind # "delete" => ~HasTab(t, o.to) /\ f[o.to] # None
                   /\ o.kind # "create" => f[o.from] = None
OpInPlace(f, o, t, pn, s) ==
  o # None => OpFits(o) /\ OpQuiet(o, pn, s) /\ (o.stage = "done" => OpDone(f, o, t))

\* What the editor shows of a note that is open, and what it holds back, is that note's.
ScreenInPlace(h, t, pn, o) ==
  pn.loaded # None /\ HasTab(t, pn.loaded) /\ ~Gone(o, pn.loaded) => Of(h, pn.screen, pn.loaded)
HeldInPlace(h, pn) ==
  /\ pn.pending # None => pn.loaded # None /\ Of(h, pn.pending, pn.loaded)
  /\ pn.timer # None => /\ pn.loaded # None /\ pn.timer.path = pn.loaded
                        /\ Of(h, pn.timer.text, pn.loaded)

\* Nothing else goes on while reads are under way; they are of the note in front, or of
\* notes that are not there and so are never shown.
ReadsInPlace(f, l, front, pn, o) ==
  l # << >> =>
    /\ o = None /\ pn.pending = None /\ pn.timer = None
    /\ \A k \in DOMAIN l : l[k].ours /\ (l[k].path = front \/ f[l[k].path] = None)
    /\ (\E k \in DOMAIN l : l[k].again) => Len(l) = 1 /\ pn.loaded = front
Loading(l, front) == \E k \in DOMAIN l : l[k].path = front /\ ~l[k].again
FrontInPlace(t, a, v, pn, l) ==
  /\ pn.up <=> Shown(t, v)
  /\ Moves(t, a, v, pn) => Loading(l, t[a].path)

\* A tab is of a note that is there, but for one that is being read, or whose note has
\* just gone.  One that is read in vain is not the only tab, or the only thing going on.
TabsInPlace(f, t, a, v, pn, o) ==
  \A i \in DOMAIN t : f[t[i].path] # None \/ Gone(o, t[i].path) \/ (i = a /\ Moves(t, a, v, pn))
NotAlone(f, t, a, s, l) ==
  l # << >> /\ f[t[a].path] = None => Len(t) # 1 \/ (Len(l) = 1 /\ AllStill(s))

World(f, h, t, a, v, pn, s, l, o) ==
  /\ TabsFit(t, a, v) /\ PaneFits(pn, s, l) /\ SlotsInPlace(h, s) /\ OpInPlace(f, o, t, pn, s)
  /\ ScreenInPlace(h, t, pn, o) /\ HeldInPlace(h, pn)
  /\ ReadsInPlace(f, l, t[a].path, pn, o) /\ TabsInPlace(f, t, a, v, pn, o)
  /\ FrontInPlace(t, a, v, pn, l) /\ NotAlone(f, t, a, s, l)

IInv == /\ StoreFits(files, home) /\ FilesInPlace(files, home) /\ RestFits(op, typed, left)
        /\ World(files, home, tabs, active, view, pane, slots, loads, op)

\* What has to be so for the effects that follow a change to leave all in place.
NewNotAlone(f, t, a, pn, s, l) ==
  f[t[a].path] = None => Len(t) # 1 \/ (l = << >> /\ pn.pending = None /\ AllStill(s))
Ready(f, h, t, a, v, pn, s, l, o) ==
  /\ TabsFit(t, a, v) /\ PaneFits(pn, s, l) /\ SlotsInPlace(h, s) /\ OpInPlace(f, o, t, pn, s)
  /\ ScreenInPlace(h, t, pn, o) /\ HeldInPlace(h, pn)
  /\ ReadsInPlace(f, l, t[a].path, pn, o) /\ TabsInPlace(f, t, a, v, pn, o)
  /\ ~Shown(t, v) => l = << >>
  /\ Moves(t, a, v, pn) => o = None /\ NewNotAlone(f, t, a, pn, s, l)
  /\ ~Moves(t, a, v, pn) => NotAlone(f, t, a, s, l)

-----------------------------------------------------------------------------
(***************************************************************************)
(* The tab list (state.rs).                                                *)
(***************************************************************************)

\* None is no note, so a text of a note that is there is of one with a file.
LEMMA NoneIsNoNote == None \notin Notes
BY WorkspaceAssumption DEF Notes

LEMMA TextIsOfANote == \A x \in Text : x.note \in Notes /\ x # None
BY WorkspaceAssumption DEF Text

\* The tab a search finds is the one tab of that path, if there is one.
LEMMA TabAtFinds ==
  ASSUME NEW t \in Seq(Tab), Distinct(t), NEW p
  PROVE  /\ ~HasTab(t, p) => TabAt(t, p) = 0
         /\ HasTab(t, p) => TabAt(t, p) \in 1..Len(t) /\ t[TabAt(t, p)].path = p
<1>1. CASE ~HasTab(t, p)
  BY <1>1 DEF TabAt, HasTab
<1>2. CASE HasTab(t, p)
  <2>1. PICK i \in DOMAIN t : t[i].path = p
    BY <1>2 DEF HasTab
  <2>2. DOMAIN t = 1..Len(t) /\ Len(t) \in Nat
    BY LenProperties
  <2>3. \A j \in 1 .. i - 1 : t[j].path # p
    BY <2>1, <2>2 DEF Distinct
  <2>4. TabAt(t, p) \in DOMAIN t /\ t[TabAt(t, p)].path = p
    BY <2>1, <2>3 DEF TabAt
  <2> QED BY <1>2, <2>2, <2>4
<1> QED BY <1>1, <1>2

\* A lookup gives nothing, or a content hash.
LEMMA HashIsText ==
  ASSUME NEW t \in Seq(Tab), Distinct(t), NEW p
  PROVE  HashFor(t, p) \in MaybeText
<1>1. CASE HasTab(t, p)
  <2>1. TabAt(t, p) \in 1..Len(t)
    BY <1>1, TabAtFinds
  <2>2. t[TabAt(t, p)] \in Tab
    BY <2>1, ElementOfSeq
  <2> QED BY <2>2 DEF HashFor, Tab, MaybeText
<1>2. CASE ~HasTab(t, p)
  BY <1>2, TabAtFinds DEF HashFor, MaybeText
<1> QED BY <1>1, <1>2

\* Two lists with the same tabs, whatever is said of them.
SameTabs(t, u) == /\ u \in Seq(Tab) /\ Len(u) = Len(t) /\ DOMAIN u = DOMAIN t
                  /\ \A i \in DOMAIN t : u[i].path = t[i].path

LEMMA MarkedIsSame ==
  ASSUME NEW t \in Seq(Tab), NEW p, NEW d \in BOOLEAN
  PROVE  SameTabs(t, Marked(t, p, d))
<1>1. PICK u : u = Marked(t, p, d)
  OBVIOUS
<1>2. DOMAIN t = 1..Len(t) /\ Len(t) \in Nat /\ \A i \in 1..Len(t) : t[i] \in Tab
  BY LenProperties, ElementOfSeq
<1>3. \A i \in 1..Len(t) : u[i] \in Tab /\ u[i].path = t[i].path
  BY <1>1, <1>2 DEF Marked, Tab
<1>4. u \in [1..Len(t) -> Tab]
  BY <1>1, <1>2, <1>3 DEF Marked
<1>5. u \in Seq(Tab) /\ Len(u) = Len(t)
  BY <1>2, <1>4
<1> QED BY <1>1, <1>2, <1>3, <1>4, <1>5 DEF SameTabs

LEMMA HashedIsSame ==
  ASSUME NEW t \in Seq(Tab), NEW p, NEW x \in MaybeText
  PROVE  SameTabs(t, Hashed(t, p, x))
<1>1. PICK u : u = Hashed(t, p, x)
  OBVIOUS
<1>2. DOMAIN t = 1..Len(t) /\ Len(t) \in Nat /\ \A i \in 1..Len(t) : t[i] \in Tab
  BY LenProperties, ElementOfSeq
<1>3. \A i \in 1..Len(t) : u[i] \in Tab /\ u[i].path = t[i].path
  BY <1>1, <1>2 DEF Hashed, Tab
<1>4. u \in [1..Len(t) -> Tab]
  BY <1>1, <1>2, <1>3 DEF Hashed
<1>5. u \in Seq(Tab) /\ Len(u) = Len(t)
  BY <1>2, <1>4
<1> QED BY <1>1, <1>2, <1>3, <1>4, <1>5 DEF SameTabs

\* Marking a tab saved with its new token.
LEMMA MarkedHashedIsSame ==
  ASSUME NEW t \in Seq(Tab), NEW p, NEW x \in MaybeText, NEW d \in BOOLEAN
  PROVE  SameTabs(t, Marked(Hashed(t, p, x), p, d))
<1>1. PICK u : u = Hashed(t, p, x)
  OBVIOUS
<1>2. SameTabs(t, u)
  BY <1>1, HashedIsSame
<1>3. SameTabs(u, Marked(u, p, d))
  BY <1>2, MarkedIsSame DEF SameTabs
<1> QED BY <1>1, <1>2, <1>3 DEF SameTabs

\* The same tabs have the same paths, and fit as well.
LEMMA SameTabsFit ==
  ASSUME NEW t, NEW a, NEW v, TabsFit(t, a, v), NEW u, SameTabs(t, u)
  PROVE  TabsFit(u, a, v) /\ (\A p : HasTab(u, p) <=> HasTab(t, p)) /\ (u = << >> <=> t = << >>)
<1>1. DOMAIN t = 1..Len(t) /\ Len(t) \in Nat /\ t \in Seq(Tab) /\ u \in Seq(Tab)
  BY LenProperties DEF TabsFit, SameTabs
<1>2. u = << >> <=> t = << >>
  BY <1>1, EmptySeq DEF SameTabs
<1>3. Distinct(u)
  BY DEF TabsFit, SameTabs, Distinct
<1>4. \A p : HasTab(u, p) <=> HasTab(t, p)
  BY DEF SameTabs, HasTab
<1> QED BY <1>1, <1>2, <1>3, <1>4 DEF TabsFit, SameTabs

\* A note that has no tab gets one at the end.
NewTab(p) == [path |-> p, hash |-> None, dirty |-> FALSE]
LEMMA NewTabOpens ==
  ASSUME NEW t \in Seq(Tab), Distinct(t), NEW p \in Paths, ~HasTab(t, p), NEW u,
         u = OpenTab(t, p)
  PROVE  /\ u \in Seq(Tab) /\ Distinct(u) /\ Len(u) = Len(t) + 1 /\ u[Len(u)].path = p
         /\ \A i \in 1..Len(t) : u[i] = t[i]
<1>1. u = Append(t, NewTab(p))
  BY TabAtFinds DEF OpenTab, NewTab
<1>2. NewTab(p) \in Tab
  BY DEF NewTab, Tab, MaybeText
<1>3. /\ u \in Seq(Tab) /\ Len(u) = Len(t) + 1 /\ u[Len(u)] = NewTab(p)
      /\ \A i \in 1..Len(t) : u[i] = t[i]
  BY <1>1, <1>2, AppendProperties
<1>4. DOMAIN t = 1..Len(t) /\ Len(t) \in Nat /\ DOMAIN u = 1..Len(u)
  BY <1>3, LenProperties
<1>5. Distinct(u)
  BY <1>3, <1>4 DEF Distinct, HasTab, NewTab
<1> QED BY <1>3, <1>5 DEF NewTab

\* Of the elements of a list, those but the k-th stay, in their order.
LEMMA OneRemoved ==
  ASSUME NEW S, NEW t \in Seq(S), NEW k \in 1..Len(t), NEW u, u = RemoveAt(t, k)
  PROVE  /\ u \in Seq(S) /\ Len(u) = Len(t) - 1
         /\ \A j \in 1..Len(u) : u[j] = IF j < k THEN t[j] ELSE t[j + 1]
<1>1. PICK x, y : x = SubSeq(t, 1, k - 1) /\ y = SubSeq(t, k + 1, Len(t))
  OBVIOUS
<1>2. Len(t) \in Nat /\ \A j \in 1..Len(t) : t[j] \in S
  BY LenProperties, ElementOfSeq
<1>3. x \in Seq(S) /\ Len(x) = k - 1 /\ \A j \in 1..(k - 1) : x[j] = t[j]
  BY <1>1, <1>2, SubSeqProperties
<1>4. y \in Seq(S) /\ Len(y) = Len(t) - k /\ \A j \in 1..(Len(t) - k) : y[j] = t[k + j]
  BY <1>1, <1>2, SubSeqProperties
<1>5. u = x \o y
  BY <1>1 DEF RemoveAt
<1>6. /\ x \o y \in Seq(S) /\ Len(x \o y) = Len(x) + Len(y)
      /\ \A j \in 1..Len(x) + Len(y) : (x \o y)[j] = IF j <= Len(x) THEN x[j] ELSE y[j - Len(x)]
  BY ONLY <1>3, <1>4, ConcatProperties, Zenon
<1>7. Len(u) = Len(t) - 1
  BY <1>2, <1>3, <1>4, <1>5, <1>6
<1>8. ASSUME NEW j \in 1..Len(u) PROVE u[j] = IF j < k THEN t[j] ELSE t[j + 1]
  <2>1. u[j] = IF j <= k - 1 THEN x[j] ELSE y[j - (k - 1)]
    BY <1>2, <1>3, <1>4, <1>5, <1>6, <1>7
  <2>2. CASE j < k
    BY <1>2, <1>3, <2>1, <2>2
  <2>3. CASE ~(j < k)
    <3>1. j - (k - 1) \in 1..(Len(t) - k) /\ k + (j - (k - 1)) = j + 1 /\ ~(j <= k - 1)
      BY <1>2, <1>7, <2>3
    <3>2. y[j - (k - 1)] = t[k + (j - (k - 1))]
      BY <1>4, <3>1
    <3> QED BY <2>1, <2>3, <3>1, <3>2
  <2> QED BY <2>2, <2>3
<1> QED BY <1>5, <1>6, <1>7, <1>8

\* What a list of tabs has when some of another have gone.
Fewer(t, u) == \A j \in DOMAIN u : \E i \in DOMAIN t : u[j] = t[i]

\* A tab that is closed goes, and the others stay.
OneCloses(t, k, u) == /\ u \in Seq(Tab) /\ Distinct(u) /\ Len(u) = Len(t) - 1
                      /\ \A j \in DOMAIN u : \E i \in DOMAIN t \ {k} : u[j] = t[i]
                      /\ ~HasTab(u, t[k].path)
LEMMA TabCloses ==
  ASSUME NEW t \in Seq(Tab), Distinct(t), NEW k \in 1..Len(t), NEW u, u = CloseTab(t, k)
  PROVE  OneCloses(t, k, u)
<1>1. /\ u \in Seq(Tab) /\ Len(u) = Len(t) - 1
      /\ \A j \in 1..Len(u) : u[j] = IF j < k THEN t[j] ELSE t[j + 1]
  BY OneRemoved DEF CloseTab
<1>2. DOMAIN t = 1..Len(t) /\ Len(t) \in Nat /\ DOMAIN u = 1..(Len(t) - 1)
  BY <1>1, LenProperties
<1>3. \A j \in DOMAIN u : \E i \in DOMAIN t \ {k} : u[j] = t[i]
  <2> SUFFICES ASSUME NEW j \in DOMAIN u PROVE \E i \in DOMAIN t \ {k} : u[j] = t[i]
    OBVIOUS
  <2>1. CASE j < k
    BY <1>1, <1>2, <2>1
  <2>2. CASE ~(j < k)
    <3>1. j + 1 \in DOMAIN t \ {k} /\ u[j] = t[j + 1]
      BY <1>1, <1>2, <2>2
    <3> QED BY <3>1
  <2> QED BY <2>1, <2>2
<1>4. Distinct(u)
  <2> SUFFICES ASSUME NEW i \in DOMAIN u, NEW j \in DOMAIN u, u[i].path = u[j].path PROVE i = j
    BY DEF Distinct
  <2>1. PICK ii \in DOMAIN t : u[i] = t[ii] /\ ii = IF i < k THEN i ELSE i + 1
    BY <1>1, <1>2
  <2>2. PICK jj \in DOMAIN t : u[j] = t[jj] /\ jj = IF j < k THEN j ELSE j + 1
    BY <1>1, <1>2
  <2>3. ii = jj
    BY <2>1, <2>2 DEF Distinct
  <2> QED BY <1>2, <2>1, <2>2, <2>3
<1>5. ~HasTab(u, t[k].path)
  BY <1>2, <1>3 DEF HasTab, Distinct
<1> QED BY <1>1, <1>3, <1>4, <1>5 DEF OneCloses

\* The tab in front after one has closed is a tab, unless that was the last.
LEMMA FrontAfterClose ==
  ASSUME NEW n \in Nat, NEW a \in 1..n, NEW k \in 1..n
  PROVE  /\ ActiveAfterClose(a, k, n) \in 0..(n - 1)
         /\ ActiveAfterClose(a, k, n) = 0 <=> n = 1
BY DEF ActiveAfterClose

\* Every tab of the note takes the new name, and the others keep theirs.
LEMMA TabRenames ==
  ASSUME NEW t \in Seq(Tab), Distinct(t), NEW p \in Paths, NEW q \in Paths, ~HasTab(t, q), p # q,
         NEW u, u = RenameTab(t, p, q)
  PROVE  /\ u \in Seq(Tab) /\ Distinct(u) /\ Len(u) = Len(t) /\ DOMAIN u = DOMAIN t
         /\ \A i \in DOMAIN t : u[i].path = IF t[i].path = p THEN q ELSE t[i].path
         /\ ~HasTab(u, p)
<1>1. DOMAIN t = 1..Len(t) /\ Len(t) \in Nat /\ \A i \in 1..Len(t) : t[i] \in Tab
  BY LenProperties, ElementOfSeq
<1>2. \A i \in 1..Len(t) : u[i] \in Tab /\ u[i].path = IF t[i].path = p THEN q ELSE t[i].path
  BY <1>1 DEF RenameTab, Tab
<1>3. u \in [1..Len(t) -> Tab]
  BY <1>1, <1>2 DEF RenameTab
<1>4. u \in Seq(Tab) /\ Len(u) = Len(t) /\ DOMAIN u = DOMAIN t
  BY <1>1, <1>3
<1>5. Distinct(u)
  BY <1>1, <1>2, <1>4 DEF Distinct, HasTab
<1>6. ~HasTab(u, p)
  BY <1>1, <1>2, <1>4 DEF HasTab
<1> QED BY <1>1, <1>2, <1>4, <1>5, <1>6

\* The tab of a deleted note goes, and the others stay.
LEMMA TabsUnderClose ==
  ASSUME NEW t \in Seq(Tab), Distinct(t), NEW p, NEW u, u = CloseTabsUnder(t, p)
  PROVE  u \in Seq(Tab) /\ Distinct(u) /\ Fewer(t, u) /\ ~HasTab(u, p)
<1>1. CASE HasTab(t, p)
  <2>1. TabAt(t, p) \in 1..Len(t) /\ t[TabAt(t, p)].path = p
    BY <1>1, TabAtFinds
  <2>2. u = CloseTab(t, TabAt(t, p))
    BY <2>1 DEF CloseTabsUnder
  <2> QED BY <2>1, <2>2, TabCloses DEF OneCloses, Fewer
<1>2. CASE ~HasTab(t, p)
  BY <1>2, TabAtFinds DEF CloseTabsUnder, Fewer
<1> QED BY <1>1, <1>2

-----------------------------------------------------------------------------
(***************************************************************************)
(* The saves (save.rs), and the effects that follow a change of the tabs   *)
(* or of the view (editor_pane.rs).                                        *)
(***************************************************************************)

\* Nothing is another but one slot, and what is in that is of its note.
OnlySlot(h, s, p, u) ==
  u \in Slots /\ SlotsInPlace(h, u) /\ \A q \in Paths : q # p => u[q] = s[q]

\* A slot with another record in it.
LEMMA SlotReplaced ==
  ASSUME NEW h, NEW s \in Slots, SlotsInPlace(h, s), NEW p \in Paths, NEW x \in Slot,
         SlotInPlace(h, x, p), NEW u, u = [s EXCEPT ![p] = x]
  PROVE  OnlySlot(h, s, p, u)
<1>1. u \in Slots /\ u[p] = x /\ \A q \in Paths : q # p => u[q] = s[q]
  BY DEF Slots
<1> QED BY <1>1 DEF SlotsInPlace, OnlySlot

\* A text handed over is queued or sent, in its own slot.
LEMMA Requested ==
  ASSUME NEW h, NEW t \in Seq(Tab), Distinct(t), NEW s \in Slots, SlotsInPlace(h, s),
         NEW p \in Paths, NEW text \in Text, Of(h, text, p), NEW u, u = Request(s, t, p, text)
  PROVE  OnlySlot(h, s, p, u)
<1> DEFINE held == [s[p] EXCEPT !.queued = text]
           sent == [s[p] EXCEPT !.text = text, !.token = HashFor(t, p),
                                !.stage = IF HashFor(t, p) = None THEN "resolve" ELSE "send"]
<1>1. s[p] \in Slot /\ SlotInPlace(h, s[p], p)
  BY DEF Slots, SlotsInPlace
<1>2. text \in MaybeText /\ HashFor(t, p) \in MaybeText
  BY HashIsText DEF MaybeText
<1>3. held \in Slot /\ SlotInPlace(h, held, p)
  BY <1>1, <1>2 DEF Slot, SlotInPlace
<1>4. sent \in Slot
  BY <1>1, <1>2 DEF Slot, Stages
<1>5. SlotInPlace(h, sent, p)
  BY <1>1, <1>2 DEF Slot, SlotInPlace
<1>6. u = [s EXCEPT ![p] = held] \/ u = [s EXCEPT ![p] = sent]
  <2>1. CASE s[p].blocked \/ s[p].stage # "idle"
    BY <2>1 DEF Request, Slots
  <2>2. CASE ~(s[p].blocked \/ s[p].stage # "idle")
    BY <2>2 DEF Request, Started, Slots
  <2> QED BY <2>1, <2>2
<1> HIDE DEF held, sent
<1> QED BY <1>3, <1>4, <1>5, <1>6, SlotReplaced

LEMMA NoneOrphaned == Orphaned(<< >>) = << >>
<1>1. DOMAIN << >> = 1..0 /\ Len(<< >>) = 0 /\ << >> \in Seq(Read)
  BY EmptySeq, LenProperties
<1>2. Orphaned(<< >>) \in [1..0 -> Read]
  BY <1>1 DEF Orphaned
<1>3. Orphaned(<< >>) \in Seq(Read) /\ Len(Orphaned(<< >>)) = 0
  BY <1>2
<1> QED BY <1>1, <1>3, EmptySeq

\* A note that is to be shown is a tab's.
LEMMA FrontIsATab ==
  ASSUME NEW t, NEW a, NEW v, TabsFit(t, a, v), t # << >>
  PROVE  a \in DOMAIN t /\ t[a] \in Tab /\ t[a].path \in Paths /\ HasTab(t, t[a].path)
<1>1. DOMAIN t = 1..Len(t) /\ Len(t) \in Nat /\ a \in 1..Len(t)
  BY LenProperties DEF TabsFit
<1>2. t[a] \in Tab
  BY <1>1, ElementOfSeq DEF TabsFit
<1> QED BY <1>1, <1>2 DEF Tab, HasTab

\* The pane as it is while the note in front is being read.
Loads(pn) == [pn EXCEPT !.up = TRUE, !.pending = None, !.timer = None]

\* What the effects do: take the pane down, leave it be, or have it read the note in front.
EffectsRead(t, a, pn, s, l) ==
  /\ pane' = Loads(pn) /\ slots' = Flush(s, t, pn) /\ loads' = Append(l, Load(t[a].path, FALSE))
LEMMA WhatEffectsDo ==
  ASSUME NEW t, NEW a, NEW v, NEW pn, NEW s, NEW l, TabsFit(t, a, v), PaneFits(pn, s, l),
         ~Shown(t, v) => l = << >>, Settles(t, a, v, pn, s, l)
  PROVE  /\ tabs' = t /\ active' = a /\ view' = v
         /\ ~Shown(t, v) => pane' = Blank /\ slots' = s /\ loads' = << >>
         /\ Shown(t, v) /\ ~Moves(t, a, v, pn) => pane' = pn /\ slots' = s /\ loads' = l
         /\ Moves(t, a, v, pn) => EffectsRead(t, a, pn, s, l)
<1>1. tabs' = t /\ active' = a /\ view' = v
  BY DEF Settles
<1>2. ~Shown(t, v) => pane' = Blank /\ slots' = s /\ loads' = << >>
  BY NoneOrphaned DEF Settles, Shown
<1>3. CASE Shown(t, v) /\ pn.up
  <2>1. ~Moves(t, a, v, pn) => pane' = pn /\ slots' = s /\ loads' = l
    BY <1>3 DEF Settles, Shown, Moves
  <2>2. ASSUME Moves(t, a, v, pn) PROVE EffectsRead(t, a, pn, s, l)
    <3>1. Loads(pn) = [pn EXCEPT !.pending = None, !.timer = None]
      BY <1>3 DEF Loads, PaneFits, Pane
    <3> QED BY <1>3, <2>2, <3>1 DEF Settles, Shown, Moves, EffectsRead
  <2> QED BY <1>1, <1>2, <1>3, <2>1, <2>2
<1>4. CASE Shown(t, v) /\ ~pn.up
  <2>1. pn = Blank /\ l = << >> /\ Orphaned(l) = l
    BY <1>4, NoneOrphaned DEF PaneFits
  <2>2. t[a].path # None
    BY <1>4, FrontIsATab, WorkspaceAssumption DEF Shown
  <2>3. PICK now : now = [Blank EXCEPT !.up = TRUE]
    OBVIOUS
  <2>4. /\ now.loaded = None /\ now.pending = None
        /\ Loads(pn) = [now EXCEPT !.pending = None, !.timer = None]
    BY <2>1, <2>3 DEF Blank, Loads
  <2>5. /\ pane' = [now EXCEPT !.pending = None, !.timer = None]
        /\ slots' = Flush(s, t, now) /\ loads' = Append(l, Load(t[a].path, FALSE))
    BY <1>4, <2>1, <2>2, <2>3, <2>4 DEF Settles, Shown
  <2>6. Flush(s, t, now) = s /\ Flush(s, t, pn) = s
    BY <2>1, <2>4 DEF Flush, Blank
  <2>7. EffectsRead(t, a, pn, s, l)
    BY <2>4, <2>5, <2>6 DEF EffectsRead
  <2>8. Moves(t, a, v, pn)
    BY <1>4, <2>1, <2>2 DEF Moves, Blank
  <2> QED BY <1>1, <1>2, <1>4, <2>7, <2>8
<1> QED BY <1>1, <1>2, <1>3, <1>4 DEF Moves

\* A change after which no effect runs, or none that reads.
LEMMA NothingIsRead ==
  ASSUME NEW f, NEW h, NEW t, NEW a, NEW v, NEW pn, NEW s, NEW l, NEW o,
         Ready(f, h, t, a, v, pn, s, l, o), FrontInPlace(t, a, v, pn, l)
  PROVE  World(f, h, t, a, v, pn, s, l, o)
<1>1. NotAlone(f, t, a, s, l)
  <2>1. CASE ~Moves(t, a, v, pn)
    BY <2>1 DEF Ready
  <2>2. CASE Moves(t, a, v, pn)
    <3>1. l # << >>
      BY <2>2 DEF FrontInPlace, Loading
    <3>2. NewNotAlone(f, t, a, pn, s, l)
      BY <2>2 DEF Ready
    <3> QED BY <3>1, <3>2 DEF NewNotAlone, NotAlone
  <2> QED BY <2>1, <2>2
<1> QED BY <1>1 DEF Ready, World

\* The pane goes.
LEMMA PaneGoes ==
  ASSUME NEW f, NEW h, NEW t, NEW a, NEW v, NEW pn, NEW s, NEW l, NEW o, o \in Operation \cup {None},
         Ready(f, h, t, a, v, pn, s, l, o), ~Shown(t, v)
  PROVE  World(f, h, t, a, v, Blank, s, << >>, o)
<1>1. ~Moves(t, a, v, pn) /\ ~Moves(t, a, v, Blank)
  BY DEF Moves
<1>2. Blank \in Pane /\ ~Blank.up /\ Blank.loaded = None /\ Blank.pending = None /\ Blank.timer = None
  BY DEF Blank, Pane, MaybeText
<1>3. PaneFits(Blank, s, << >>)
  BY <1>2, EmptySeq DEF Ready, PaneFits
<1>4. OpInPlace(f, o, t, Blank, s)
  BY <1>2 DEF Ready, OpInPlace, OpQuiet, Quiet
<1>5. ScreenInPlace(h, t, Blank, o) /\ HeldInPlace(h, Blank)
  BY <1>2 DEF ScreenInPlace, HeldInPlace
<1>6. ReadsInPlace(f, << >>, t[a].path, Blank, o) /\ NotAlone(f, t, a, s, << >>)
  BY DEF ReadsInPlace, NotAlone
<1>7. TabsInPlace(f, t, a, v, Blank, o)
  BY <1>1 DEF Ready, TabsInPlace
<1>8. FrontInPlace(t, a, v, Blank, << >>)
  BY <1>1, <1>2 DEF FrontInPlace
<1> QED BY <1>3, <1>4, <1>5, <1>6, <1>7, <1>8 DEF Ready, World

\* The pane starts to read the note in front.
LEMMA PaneReads ==
  ASSUME NEW f, NEW h, NEW t, NEW a, NEW v, NEW pn, NEW s, NEW l, NEW o,
         Ready(f, h, t, a, v, pn, s, l, o), Moves(t, a, v, pn)
  PROVE  World(f, h, t, a, v, Loads(pn), Flush(s, t, pn), Append(l, Load(t[a].path, FALSE)), o)
<1>0. PICK q, u, x, m : /\ q = Loads(pn) /\ u = Flush(s, t, pn)
                        /\ x = Load(t[a].path, FALSE) /\ m = Append(l, x)
  OBVIOUS
<1>1. TabsFit(t, a, v) /\ pn \in Pane /\ s \in Slots /\ l \in Seq(Read) /\ Shown(t, v) /\ o = None
  BY DEF Ready, PaneFits, Moves
<1>2. t[a].path \in Paths /\ t[a].path # pn.loaded
  BY <1>1, FrontIsATab DEF Shown, Moves
<1>3. q \in Pane /\ q.up /\ q.loaded = pn.loaded /\ q.screen = pn.screen /\ q.pending = None /\ q.timer = None
  BY <1>0, <1>1 DEF Loads, Pane, MaybeText
<1>4. x \in Read /\ x.path = t[a].path /\ ~x.again /\ x.ours
  BY <1>0, <1>2 DEF Load, Read
<1>5. /\ m \in Seq(Read) /\ Len(m) = Len(l) + 1 /\ m[Len(m)] = x
      /\ \A k \in 1..Len(l) : m[k] = l[k]
  <2>1. x \in Read /\ m = Append(l, x)
    BY <1>0, <1>4
  <2> QED BY <1>1, <2>1, AppendProperties
<1>6. DOMAIN l = 1..Len(l) /\ Len(l) \in Nat /\ DOMAIN m = 1..Len(m) /\ m # << >>
  BY <1>1, <1>5, LenProperties, EmptySeq
<1>7. u \in Slots /\ SlotsInPlace(h, u) /\ (pn.pending = None => u = s)
  <2>1. CASE pn.pending = None \/ pn.loaded = None
    <3>1. u = s
      BY <1>0, <2>1 DEF Flush
    <3> QED BY <1>1, <3>1 DEF Ready
  <2>2. CASE pn.pending # None /\ pn.loaded # None
    <3>1. u = Request(s, t, pn.loaded, pn.pending)
      BY <1>0, <2>2 DEF Flush
    <3>2. pn.loaded \in Paths /\ pn.pending \in Text
      BY <1>1, <2>2 DEF Pane, MaybeText
    <3>3. Of(h, pn.pending, pn.loaded)
      BY <2>2 DEF Ready, HeldInPlace
    <3>4. t \in Seq(Tab) /\ Distinct(t) /\ SlotsInPlace(h, s)
      BY DEF Ready, TabsFit
    <3> QED BY <1>1, <2>2, <3>1, <3>2, <3>3, <3>4, Requested DEF OnlySlot
  <2> QED BY <2>1, <2>2
<1>8. l # << >> => /\ \A k \in DOMAIN l : l[k].ours /\ (l[k].path = t[a].path \/ f[l[k].path] = None)
                   /\ \A k \in DOMAIN l : ~l[k].again
  BY <1>2 DEF Ready, ReadsInPlace
<1>9. \A k \in DOMAIN m : m[k].ours /\ ~m[k].again /\ (m[k].path = t[a].path \/ f[m[k].path] = None)
  <2> SUFFICES ASSUME NEW k \in DOMAIN m
               PROVE  m[k].ours /\ ~m[k].again /\ (m[k].path = t[a].path \/ f[m[k].path] = None)
    OBVIOUS
  <2>1. CASE k = Len(m)
    BY <1>4, <1>5, <2>1
  <2>2. CASE k # Len(m)
    <3>1. k \in DOMAIN l /\ l # << >> /\ m[k] = l[k]
      BY <1>5, <1>6, <2>2
    <3> QED BY <1>8, <3>1
  <2> QED BY <2>1, <2>2
<1>10. PaneFits(q, u, m)
  BY <1>3, <1>5, <1>7 DEF PaneFits
<1>11. OpInPlace(f, o, t, q, u)
  BY <1>1 DEF OpInPlace
<1>12. ScreenInPlace(h, t, q, o) /\ HeldInPlace(h, q)
  BY <1>3 DEF Ready, ScreenInPlace, HeldInPlace
<1>13. ReadsInPlace(f, m, t[a].path, q, o)
  BY <1>1, <1>3, <1>9 DEF ReadsInPlace
<1>14. Moves(t, a, v, q)
  BY <1>1, <1>2, <1>3 DEF Moves
<1>15. TabsInPlace(f, t, a, v, q, o)
  BY <1>14 DEF Ready, TabsInPlace
<1>16. FrontInPlace(t, a, v, q, m)
  <2>1. Len(m) \in DOMAIN m /\ m[Len(m)].path = t[a].path /\ ~m[Len(m)].again
    BY <1>4, <1>5, <1>6
  <2> QED BY <1>1, <1>3, <2>1 DEF FrontInPlace, Loading
<1>17. NotAlone(f, t, a, u, m)
  <2>1. NewNotAlone(f, t, a, pn, s, l)
    BY DEF Ready
  <2>2. l = << >> => Len(m) = 1
    BY <1>5, EmptySeq
  <2> QED BY <1>7, <2>1, <2>2 DEF NewNotAlone, NotAlone
<1> QED BY <1>0, <1>1, <1>7, <1>10, <1>11, <1>12, <1>13, <1>15, <1>16, <1>17 DEF World

\* Whatever the effects do then, all stays in place.
LEMMA EffectsInPlace ==
  ASSUME NEW f, NEW h, NEW t, NEW a, NEW v, NEW pn, NEW s, NEW l, NEW o, o \in Operation \cup {None},
         Ready(f, h, t, a, v, pn, s, l, o), Settles(t, a, v, pn, s, l)
  PROVE  World(f, h, tabs', active', view', pane', slots', loads', o)
<1>1. TabsFit(t, a, v) /\ PaneFits(pn, s, l) /\ (~Shown(t, v) => l = << >>)
  BY DEF Ready
<1>2. /\ tabs' = t /\ active' = a /\ view' = v
      /\ ~Shown(t, v) => pane' = Blank /\ slots' = s /\ loads' = << >>
      /\ Shown(t, v) /\ ~Moves(t, a, v, pn) => pane' = pn /\ slots' = s /\ loads' = l
      /\ Moves(t, a, v, pn) => EffectsRead(t, a, pn, s, l)
  BY <1>1, WhatEffectsDo
<1>3. CASE ~Shown(t, v)
  BY <1>2, <1>3, PaneGoes
<1>4. CASE Moves(t, a, v, pn)
  <2>1. World(f, h, t, a, v, Loads(pn), Flush(s, t, pn), Append(l, Load(t[a].path, FALSE)), o)
    BY <1>4, PaneReads
  <2> QED BY <1>2, <1>4, <2>1 DEF EffectsRead
<1>5. CASE Shown(t, v) /\ ~Moves(t, a, v, pn)
  <2>1. pn.up
    <3>1. t[a].path # None
      BY <1>1, <1>5, FrontIsATab, WorkspaceAssumption DEF Shown
    <3> QED BY <1>1, <1>5, <3>1 DEF PaneFits, Moves, Blank
  <2>2. FrontInPlace(t, a, v, pn, l)
    BY <1>5, <2>1 DEF FrontInPlace
  <2> QED BY <1>2, <1>5, <2>2, NothingIsRead
<1> QED BY <1>3, <1>4, <1>5

-----------------------------------------------------------------------------
(***************************************************************************)
(* The user, who waits.                                                    *)
(***************************************************************************)

\* A step that leaves the server's files alone keeps the invariant if it leaves the rest
\* in place.
LEMMA Concluded ==
  ASSUME IInv, UNCHANGED <<files, home>>, RestFits(op, typed, left)',
         World(files, home, tabs', active', view', pane', slots', loads', op')
  PROVE  IInv'
BY DEF IInv

\* Every read is one the pane waits for.
LEMMA NothingAwaited ==
  ASSUME IInv, ~Waiting
  PROVE  loads = << >>
BY EmptySeq, LenProperties DEF IInv, World, ReadsInPlace, PaneFits, Waiting

\* With no read under way the editor holds the note in front.
LEMMA AtRest ==
  ASSUME IInv, loads = << >>
  PROVE  /\ pane.up <=> Shown(tabs, view)
         /\ ~Moves(tabs, active, view, pane)
         /\ pane.loaded # None => pane.up /\ pane.loaded = tabs[active].path /\ HasTab(tabs, pane.loaded)
         /\ \A i \in DOMAIN tabs : files[tabs[i].path] # None \/ Gone(op, tabs[i].path)
<1>1. ~Moves(tabs, active, view, pane)
  BY EmptySeq DEF IInv, World, FrontInPlace, Loading
<1>2. ASSUME pane.loaded # None
      PROVE  pane.up /\ pane.loaded = tabs[active].path /\ HasTab(tabs, pane.loaded)
  <2>1. pane.up /\ Shown(tabs, view)
    BY <1>2 DEF IInv, World, PaneFits, Blank, FrontInPlace
  <2>2. pane.loaded = tabs[active].path
    BY <1>1, <2>1 DEF Moves
  <2>3. HasTab(tabs, tabs[active].path)
    BY <2>1, FrontIsATab DEF IInv, World, Shown
  <2> QED BY <2>1, <2>2, <2>3
<1> QED BY <1>1, <1>2 DEF IInv, World, FrontInPlace, TabsInPlace

\* The user turns to another tab, closes one or goes to the graph and back.
LEMMA TurnIsReady ==
  ASSUME IInv, loads = << >>, op = None, NEW t, NEW a, NEW v, TabsFit(t, a, v),
         \A j \in DOMAIN t : HasTab(tabs, t[j].path)
  PROVE  Ready(files, home, t, a, v, pane, slots, loads, op)
<1>1. \A j \in DOMAIN t : files[t[j].path] # None
  BY AtRest DEF HasTab, Gone
<1>2. PaneFits(pane, slots, loads) /\ SlotsInPlace(home, slots) /\ HeldInPlace(home, pane)
  BY DEF IInv, World
<1>3. OpInPlace(files, op, t, pane, slots)
  BY DEF OpInPlace
<1>4. ScreenInPlace(home, t, pane, op)
  BY AtRest DEF IInv, World, ScreenInPlace
<1>5. ReadsInPlace(files, loads, t[a].path, pane, op) /\ NotAlone(files, t, a, slots, loads)
  BY DEF ReadsInPlace, NotAlone
<1>6. TabsInPlace(files, t, a, v, pane, op)
  BY <1>1 DEF TabsInPlace
<1>7. Moves(t, a, v, pane) => NewNotAlone(files, t, a, pane, slots, loads)
  BY <1>1, FrontIsATab DEF Moves, Shown, NewNotAlone
<1> QED BY <1>2, <1>3, <1>4, <1>5, <1>6, <1>7 DEF Ready

LEMMA Patience ==
  ASSUME IInv, Hasty \subseteq {"leaving"}, NEW t, NEW v, Patient(t, v)
  PROVE  loads = << >> /\ op = None /\ \A p \in Paths : p = pane.loaded \/ Still(slots[p])
<1>1. ~Waiting /\ op = None /\ \A p \in Paths : p = pane.loaded \/ Idle(p)
  BY DEF Patient
<1> QED BY <1>1, NothingAwaited DEF Idle, Still

LEMMA TurnKeeps ==
  ASSUME IInv, loads = << >>, op = None, NEW t, NEW a, NEW v, TabsFit(t, a, v),
         \A j \in DOMAIN t : HasTab(tabs, t[j].path),
         Settles(t, a, v, pane, slots, loads), UNCHANGED <<files, home, op, typed, left>>
  PROVE  IInv'
<1>1. op \in Operation \cup {None} /\ RestFits(op, typed, left)'
  BY DEF IInv, RestFits
<1>2. World(files, home, tabs', active', view', pane', slots', loads', op)
  BY <1>1, TurnIsReady, EffectsInPlace
<1> QED BY <1>1, <1>2, Concluded

\* A note that has no tab is opened: it may be gone, and then its tab will go too.
LEMMA NewTabIsReady ==
  ASSUME IInv, loads = << >>, op = None, NEW p \in Paths, ~HasTab(tabs, p),
         \A q \in Paths : q = pane.loaded \/ Still(slots[q]), NEW t, t = OpenTab(tabs, p)
  PROVE  Ready(files, home, t, TabAt(t, p), "Editor", pane, slots, loads, op)
<1>1. /\ t \in Seq(Tab) /\ Distinct(t) /\ Len(t) = Len(tabs) + 1 /\ t[Len(t)].path = p
      /\ \A i \in 1..Len(tabs) : t[i] = tabs[i]
  BY NewTabOpens DEF IInv, World, TabsFit
<1>2. /\ DOMAIN t = 1..Len(t) /\ DOMAIN tabs = 1..Len(tabs) /\ Len(tabs) \in Nat
      /\ Len(t) \in DOMAIN t /\ t # << >>
  BY <1>1, LenProperties, EmptySeq DEF IInv, World, TabsFit
<1>3. TabAt(t, p) = Len(t)
  <2>1. HasTab(t, p)
    BY <1>1, <1>2 DEF HasTab
  <2> QED BY <1>1, <1>2, <2>1, TabAtFinds DEF Distinct
<1> DEFINE a == Len(t)
<1>4. TabsFit(t, a, "Editor") /\ Shown(t, "Editor")
  BY <1>1, <1>2 DEF TabsFit, Shown
<1>5. \A j \in DOMAIN t : j # a => HasTab(tabs, t[j].path) /\ files[t[j].path] # None
  BY <1>1, <1>2, AtRest DEF HasTab, Gone
<1>6. p # pane.loaded /\ Moves(t, a, "Editor", pane)
  BY <1>1, <1>4, AtRest, WorkspaceAssumption DEF Moves
<1>7. PaneFits(pane, slots, loads) /\ SlotsInPlace(home, slots) /\ HeldInPlace(home, pane)
  BY DEF IInv, World
<1>8. OpInPlace(files, op, t, pane, slots)
  BY DEF OpInPlace
<1>9. ScreenInPlace(home, t, pane, op)
  BY AtRest DEF IInv, World, ScreenInPlace
<1>10. ReadsInPlace(files, loads, t[a].path, pane, op)
  BY DEF ReadsInPlace
<1>11. TabsInPlace(files, t, a, "Editor", pane, op)
  BY <1>5, <1>6 DEF TabsInPlace
<1>12. NewNotAlone(files, t, a, pane, slots, loads)
  <2>1. CASE tabs = << >>
    <3>1. ~pane.up /\ pane = Blank
      BY <2>1, AtRest DEF Shown, IInv, World, PaneFits
    <3>2. AllStill(slots)
      BY <3>1, WorkspaceAssumption DEF AllStill, Blank
    <3> QED BY <3>1, <3>2 DEF NewNotAlone, Blank
  <2>2. CASE tabs # << >>
    <3>1. Len(tabs) # 0
      BY <2>2, EmptySeq DEF IInv, World, TabsFit
    <3> QED BY <1>1, <1>2, <3>1 DEF NewNotAlone
  <2> QED BY <2>1, <2>2
<1> HIDE DEF a
<1>13. Ready(files, home, t, a, "Editor", pane, slots, loads, op)
  BY <1>4, <1>6, <1>7, <1>8, <1>9, <1>10, <1>11, <1>12 DEF Ready
<1> QED BY <1>3, <1>13 DEF a

LEMMA OpensKeeps ==
  ASSUME IInv, Hasty \subseteq {"leaving"}, NEW p \in Paths, Opens(p)
  PROVE  IInv'
<1>1. PICK t : t = OpenTab(tabs, p)
  OBVIOUS
<1>2. /\ Patient(t, "Editor")
      /\ Settles(t, TabAt(t, p), "Editor", pane, slots, loads)
      /\ UNCHANGED <<files, home, op, typed, left>>
  BY <1>1 DEF Opens
<1>3. loads = << >> /\ op = None /\ \A q \in Paths : q = pane.loaded \/ Still(slots[q])
  BY <1>2, Patience
<1>4. tabs \in Seq(Tab) /\ Distinct(tabs)
  BY DEF IInv, World, TabsFit
<1>5. CASE HasTab(tabs, p)
  <2>1. TabAt(tabs, p) \in 1..Len(tabs)
    BY <1>4, <1>5, TabAtFinds
  <2>2. t = tabs
    BY <1>1, <2>1 DEF OpenTab
  <2>3. TabsFit(t, TabAt(t, p), "Editor") /\ \A j \in DOMAIN t : HasTab(tabs, t[j].path)
    BY <1>4, <2>1, <2>2, LenProperties, EmptySeq DEF TabsFit, HasTab
  <2> QED BY <1>2, <1>3, <2>3, TurnKeeps
<1>6. CASE ~HasTab(tabs, p)
  <2>1. Ready(files, home, t, TabAt(t, p), "Editor", pane, slots, loads, op)
    BY <1>1, <1>3, <1>6, NewTabIsReady
  <2>2. op \in Operation \cup {None} /\ RestFits(op, typed, left)'
    BY <1>2 DEF IInv, RestFits
  <2>3. World(files, home, tabs', active', view', pane', slots', loads', op)
    BY <1>2, <2>1, <2>2, EffectsInPlace
  <2> QED BY <1>2, <2>2, <2>3, Concluded
<1> QED BY <1>5, <1>6

LEMMA ClicksTabKeeps ==
  ASSUME IInv, Hasty \subseteq {"leaving"}, NEW i \in DOMAIN tabs, ClicksTab(i)
  PROVE  IInv'
<1>1. loads = << >> /\ op = None
  BY Patience DEF ClicksTab
<1>2. DOMAIN tabs = 1..Len(tabs) /\ Len(tabs) \in Nat
  BY LenProperties DEF IInv, World, TabsFit
<1>3. TabsFit(tabs, i, view) /\ \A j \in DOMAIN tabs : HasTab(tabs, tabs[j].path)
  BY <1>2, EmptySeq DEF IInv, World, TabsFit, HasTab
<1> QED BY <1>1, <1>3, TurnKeeps DEF ClicksTab

LEMMA ShowsGraphKeeps ==
  ASSUME IInv, Hasty \subseteq {"leaving"}, NEW v \in {"Editor", "Graph"}, ShowsGraph(v)
  PROVE  IInv'
<1>1. loads = << >> /\ op = None
  BY Patience DEF ShowsGraph
<1>2. TabsFit(tabs, active, v) /\ \A j \in DOMAIN tabs : HasTab(tabs, tabs[j].path)
  BY DEF IInv, World, TabsFit, HasTab
<1> QED BY <1>1, <1>2, TurnKeeps DEF ShowsGraph

\* What is left when a tab closes, and which is in front then.
LEMMA ClosedFits ==
  ASSUME NEW t, NEW a, NEW v, TabsFit(t, a, v), NEW i \in DOMAIN t, NEW u, u = CloseTab(t, i),
         NEW b, b = ActiveAfterClose(a, i, Len(t))
  PROVE  TabsFit(u, b, v) /\ \A j \in DOMAIN u : \E k \in DOMAIN t \ {i} : u[j] = t[k]
<1>1. t \in Seq(Tab) /\ Distinct(t) /\ i \in 1..Len(t) /\ Len(t) \in Nat /\ a \in 1..Len(t)
  BY LenProperties DEF TabsFit
<1>2. /\ u \in Seq(Tab) /\ Distinct(u) /\ Len(u) = Len(t) - 1
      /\ \A j \in DOMAIN u : \E k \in DOMAIN t \ {i} : u[j] = t[k]
  <2>1. OneCloses(t, i, u)
    BY <1>1, TabCloses
  <2> QED BY <2>1 DEF OneCloses
<1>3. b \in 0..(Len(t) - 1) /\ (b = 0 <=> Len(t) = 1)
  BY <1>1, FrontAfterClose
<1>4. u = << >> <=> Len(t) = 1
  BY <1>1, <1>2, EmptySeq
<1> QED BY <1>1, <1>2, <1>3, <1>4 DEF TabsFit

LEMMA ClosesKeeps ==
  ASSUME IInv, Hasty \subseteq {"leaving"}, NEW i \in DOMAIN tabs, Closes(i)
  PROVE  IInv'
<1>1. PICK t, a : t = CloseTab(tabs, i) /\ a = ActiveAfterClose(active, i, Len(tabs))
  OBVIOUS
<1>2. /\ Patient(t, view) /\ Settles(t, a, view, pane, slots, loads)
      /\ UNCHANGED <<files, home, op, typed, left>>
  BY <1>1 DEF Closes
<1>3. loads = << >> /\ op = None
  BY <1>2, Patience
<1>4. TabsFit(tabs, active, view)
  BY DEF IInv, World
<1>5. TabsFit(t, a, view) /\ \A j \in DOMAIN t : \E k \in DOMAIN tabs \ {i} : t[j] = tabs[k]
  BY <1>1, <1>4, ClosedFits
<1>6. \A j \in DOMAIN t : HasTab(tabs, t[j].path)
  BY <1>5 DEF HasTab
<1> QED BY <1>2, <1>3, <1>5, <1>6, TurnKeeps

\* A keystroke, and the timer, are of the note the editor holds, which is in front.
LEMMA HandIsOfANote ==
  ASSUME IInv, loads = << >>, pane.loaded # None, ~Gone(op, pane.loaded)
  PROVE  /\ pane.up /\ Shown(tabs, view) /\ pane.loaded \in Paths
         /\ pane.loaded = tabs[active].path /\ Of(home, pane.screen, pane.loaded)
         /\ pane.screen \in Text
<1>1. pane.up /\ pane.loaded = tabs[active].path /\ HasTab(tabs, pane.loaded) /\ Shown(tabs, view)
  BY AtRest
<1>2. Of(home, pane.screen, pane.loaded)
  BY <1>1 DEF IInv, World, ScreenInPlace
<1>3. pane.loaded \in Paths /\ pane.screen \in MaybeText
  BY DEF IInv, World, PaneFits, Pane
<1> QED BY <1>1, <1>2, <1>3 DEF Of, MaybeText

\* Other text in hand for the note in front, under tabs that say something else of it.
LEMMA HandIsReady ==
  ASSUME IInv, loads = << >>, NEW t, SameTabs(tabs, t), NEW pn \in Pane,
         pn.up, pane.up, pn.loaded = pane.loaded, pn.loaded # None,
         Of(home, pn.screen, pn.loaded), HeldInPlace(home, pn),
         op # None => pn.loaded \notin {op.from, op.to},
         NEW s \in Slots, SlotsInPlace(home, s), \A q \in Paths : q # pn.loaded => s[q] = slots[q]
  PROVE  /\ Ready(files, home, t, active, view, pn, s, loads, op)
         /\ World(files, home, t, active, view, pn, s, loads, op)
<1>1. TabsFit(t, active, view) /\ (t = << >> <=> tabs = << >>) /\ \A p : HasTab(t, p) <=> HasTab(tabs, p)
  BY SameTabsFit DEF IInv, World
<1>2. Shown(t, view) /\ t[active].path = pn.loaded
  <2>1. Shown(tabs, view) /\ pane.loaded = tabs[active].path
    BY AtRest
  <2>2. active \in DOMAIN tabs
    BY <2>1, FrontIsATab DEF IInv, World, Shown
  <2> QED BY <1>1, <2>1, <2>2 DEF Shown, SameTabs
<1>3. ~Moves(t, active, view, pn)
  BY <1>2 DEF Moves
<1>4. PaneFits(pn, s, loads)
  BY DEF PaneFits, IInv, World
<1>5. OpInPlace(files, op, t, pn, s)
  <2> SUFFICES ASSUME op # None
               PROVE  OpFits(op) /\ OpQuiet(op, pn, s) /\ (op.stage = "done" => OpDone(files, op, t))
    BY DEF OpInPlace
  <2>1. OpFits(op) /\ OpQuiet(op, pane, slots) /\ (op.stage = "done" => OpDone(files, op, tabs))
    BY DEF IInv, World, OpInPlace
  <2>2. op.from \in Paths \cup {None} /\ op.to \in Paths \cup {None}
    BY DEF IInv, RestFits, Operation
  <2>3. OpQuiet(op, pn, s)
    BY <2>1, <2>2 DEF OpQuiet, Quiet
  <2>4. op.stage = "done" => OpDone(files, op, t)
    BY <1>1, <2>1 DEF OpDone
  <2> QED BY <2>1, <2>3, <2>4
<1>6. ScreenInPlace(home, t, pn, op) /\ ReadsInPlace(files, loads, t[active].path, pn, op)
      /\ NotAlone(files, t, active, s, loads)
  BY DEF ScreenInPlace, ReadsInPlace, NotAlone
<1>7. TabsInPlace(files, t, active, view, pn, op)
  BY AtRest DEF SameTabs, TabsInPlace
<1>8. Ready(files, home, t, active, view, pn, s, loads, op)
  BY <1>1, <1>3, <1>4, <1>5, <1>6, <1>7 DEF Ready
<1>9. FrontInPlace(t, active, view, pn, loads)
  BY <1>2, <1>3 DEF FrontInPlace
<1> QED BY <1>8, <1>9, NothingIsRead

LEMMA TypesKeeps ==
  ASSUME IInv, Hasty \subseteq {"leaving"}, Types
  PROVE  IInv'
<1> DEFINE n == Len(typed) + 1
<1>1. PICK text : text = [pane.screen EXCEPT !.edits = @ \cup {n}]
  OBVIOUS
<1>2. PICK held : held = [pane EXCEPT !.screen = text, !.pending = text,
                                      !.timer = [path |-> pane.loaded, text |-> text]]
  OBVIOUS
<1>3. PICK t : t = Marked(tabs, pane.loaded, TRUE)
  OBVIOUS
<1>4. /\ pane.up /\ pane.loaded # None /\ n <= MaxEdits /\ ~Waiting /\ pane.loaded \notin InMotion
      /\ typed' = Append(typed, home[tabs[active].path])
      /\ IF Wakes(tabs, t, pane.loaded)
         THEN Settles(t, active, view, held, slots, loads)
         ELSE pane' = held /\ UNCHANGED <<ui, slots, loads>>
      /\ UNCHANGED <<files, home, op, left>>
  BY <1>1, <1>2, <1>3 DEF Types
<1>5. loads = << >> /\ ~Gone(op, pane.loaded) /\ (op # None => pane.loaded \notin {op.from, op.to})
  BY <1>4, NothingAwaited DEF InMotion, Gone
<1>6. /\ pane.loaded \in Paths /\ pane.loaded = tabs[active].path
      /\ Of(home, pane.screen, pane.loaded) /\ pane.screen \in Text
  BY <1>4, <1>5, HandIsOfANote
<1>7. typed \in Seq(Notes \cup {None}) /\ op \in Operation \cup {None} /\ pane \in Pane /\ slots \in Slots
  BY DEF IInv, RestFits, World, PaneFits
<1>8. text \in Text /\ text.note = pane.screen.note
  <2>1. n \in 1..MaxEdits
    BY <1>4, <1>7, LenProperties, WorkspaceAssumption
  <2> QED BY <1>1, <1>6, <2>1 DEF Text
<1>9. text # None /\ Of(home, text, pane.loaded)
  BY <1>6, <1>8, TextIsOfANote DEF Of
<1>10. /\ held \in Pane /\ held.up /\ held.loaded = pane.loaded /\ held.screen = text
       /\ held.pending = text /\ held.timer = [path |-> pane.loaded, text |-> text]
  BY <1>2, <1>4, <1>6, <1>7, <1>8 DEF Pane, Timer, MaybeText
<1>11. HeldInPlace(home, held)
  BY <1>4, <1>9, <1>10 DEF HeldInPlace
<1>12. SameTabs(tabs, t)
  BY <1>3, MarkedIsSame DEF IInv, World, TabsFit
<1>13. SlotsInPlace(home, slots)
  BY DEF IInv, World
<1>14. /\ Ready(files, home, t, active, view, held, slots, loads, op)
       /\ World(files, home, t, active, view, held, slots, loads, op)
  BY <1>4, <1>5, <1>7, <1>9, <1>10, <1>11, <1>12, <1>13, HandIsReady
<1>15. World(files, home, tabs', active', view', pane', slots', loads', op)
  <2>1. CASE Wakes(tabs, t, pane.loaded)
    BY <1>4, <1>7, <1>14, <2>1, EffectsInPlace
  <2>2. CASE ~Wakes(tabs, t, pane.loaded)
    BY <1>4, <1>14, <2>2 DEF Wakes, ui
  <2> QED BY <2>1, <2>2
<1>16. RestFits(op, typed, left)'
  <2>1. home[tabs[active].path] \in Notes \cup {None}
    BY <1>6 DEF IInv, StoreFits
  <2>2. typed' \in Seq(Notes \cup {None})
    BY <1>4, <1>7, <2>1, AppendProperties
  <2> QED BY <1>4, <2>2 DEF IInv, RestFits
<1> QED BY <1>4, <1>15, <1>16, Concluded

LEMMA TimerFiresKeeps ==
  ASSUME IInv, TimerFires
  PROVE  IInv'
<1>1. PICK s, pn : /\ s = Request(slots, tabs, pane.timer.path, pane.timer.text)
                   /\ pn = [pane EXCEPT !.pending = None, !.timer = None]
  OBVIOUS
<1>2. /\ pane.timer # None /\ slots' = s /\ pane' = pn
      /\ UNCHANGED <<files, home, tabs, active, view, loads, op, typed, left>>
  BY <1>1 DEF TimerFires, ui
<1>3. /\ pane \in Pane /\ slots \in Slots /\ SlotsInPlace(home, slots)
      /\ tabs \in Seq(Tab) /\ Distinct(tabs) /\ TabsFit(tabs, active, view)
  BY DEF IInv, World, PaneFits, TabsFit
<1>4. loads = << >>
  BY <1>2 DEF IInv, World, ReadsInPlace
<1>5. /\ pane.loaded # None /\ pane.timer.path = pane.loaded
      /\ Of(home, pane.timer.text, pane.loaded)
  BY <1>2 DEF IInv, World, HeldInPlace
<1>6. pane.loaded \in Paths /\ pane.timer.text \in Text
  BY <1>2, <1>3, <1>5 DEF Pane, Timer
<1>7. s \in Slots /\ SlotsInPlace(home, s) /\ \A q \in Paths : q # pane.loaded => s[q] = slots[q]
  <2>1. s = Request(slots, tabs, pane.loaded, pane.timer.text)
    BY <1>1, <1>5
  <2>2. OnlySlot(home, slots, pane.loaded, s)
    BY <1>3, <1>5, <1>6, <2>1, Requested
  <2> QED BY <2>2 DEF OnlySlot
<1>8. /\ pn \in Pane /\ pn.up = pane.up /\ pn.loaded = pane.loaded /\ pn.screen = pane.screen
      /\ pn.pending = None /\ pn.timer = None
  BY <1>1, <1>3 DEF Pane, MaybeText
<1>9. op # None => pane.loaded \notin {op.from, op.to}
  BY <1>2, <1>5 DEF IInv, World, OpInPlace, OpQuiet, Quiet
<1>10. pane.up /\ Of(home, pane.screen, pane.loaded)
  BY <1>4, <1>5, <1>9, HandIsOfANote DEF Gone
<1>11. HeldInPlace(home, pn)
  BY <1>8 DEF HeldInPlace
<1>12. SameTabs(tabs, tabs)
  BY <1>3 DEF SameTabs
<1>13. World(files, home, tabs, active, view, pn, s, loads, op)
  BY <1>4, <1>5, <1>7, <1>8, <1>9, <1>10, <1>11, <1>12, HandIsReady
<1>14. RestFits(op, typed, left)'
  BY <1>2 DEF IInv, RestFits
<1> QED BY <1>2, <1>13, <1>14, Concluded

LEMMA SpendFits ==
  ASSUME NEW what \in {"ops", "rereads", "saves"}, RestFits(op, typed, left), Spend(what)
  PROVE  left' \in [ops : Nat, rereads : Nat, saves : Nat]
<1>1. left[what] - 1 \in Nat
  BY DEF RestFits, Spend
<1> QED BY <1>1 DEF RestFits, Spend

LEMMA PressesSaveKeeps ==
  ASSUME IInv, Hasty \subseteq {"leaving"}, PressesSave
  PROVE  IInv'
<1>1. PICK s, pn : /\ s = Request(slots, tabs, pane.loaded, pane.screen)
                   /\ pn = [pane EXCEPT !.pending = None]
  OBVIOUS
<1>2. /\ Spend("saves") /\ pane.up /\ pane.loaded # None /\ ~Waiting /\ pane.loaded \notin InMotion
      /\ slots' = s /\ pane' = pn
      /\ UNCHANGED <<files, home, tabs, active, view, loads, op, typed>>
  BY <1>1 DEF PressesSave, ui
<1>3. /\ pane \in Pane /\ slots \in Slots /\ SlotsInPlace(home, slots) /\ HeldInPlace(home, pane)
      /\ tabs \in Seq(Tab) /\ Distinct(tabs)
  BY DEF IInv, World, PaneFits, TabsFit
<1>4. loads = << >> /\ ~Gone(op, pane.loaded) /\ (op # None => pane.loaded \notin {op.from, op.to})
  BY <1>2, NothingAwaited DEF InMotion, Gone
<1>5. /\ pane.loaded \in Paths /\ Of(home, pane.screen, pane.loaded) /\ pane.screen \in Text
  BY <1>2, <1>4, HandIsOfANote
<1>6. s \in Slots /\ SlotsInPlace(home, s) /\ \A q \in Paths : q # pane.loaded => s[q] = slots[q]
  <2>1. OnlySlot(home, slots, pane.loaded, s)
    BY <1>1, <1>3, <1>5, Requested
  <2> QED BY <2>1 DEF OnlySlot
<1>7. /\ pn \in Pane /\ pn.up = pane.up /\ pn.loaded = pane.loaded /\ pn.screen = pane.screen
      /\ pn.pending = None /\ pn.timer = pane.timer
  BY <1>1, <1>3 DEF Pane, MaybeText
<1>8. HeldInPlace(home, pn)
  BY <1>3, <1>7 DEF HeldInPlace
<1>9. SameTabs(tabs, tabs)
  BY <1>3 DEF SameTabs
<1>10. World(files, home, tabs, active, view, pn, s, loads, op)
  BY <1>2, <1>4, <1>5, <1>6, <1>7, <1>8, <1>9, HandIsReady
<1>11. RestFits(op, typed, left)'
  BY <1>2, SpendFits DEF IInv, RestFits
<1> QED BY <1>2, <1>10, <1>11, Concluded

-----------------------------------------------------------------------------
(***************************************************************************)
(* The reads of the pane.                                                  *)
(***************************************************************************)

\* The reads that are left when one has ended.
OneRead(l, k, m) == /\ m \in Seq(Read) /\ Len(m) = Len(l) - 1 /\ (m = << >> <=> Len(l) = 1)
                    /\ \A j \in DOMAIN m : \E i \in DOMAIN l \ {k} : m[j] = l[i]
                    /\ \A i \in DOMAIN l \ {k} : \E j \in DOMAIN m : m[j] = l[i]
LEMMA ReadEnds ==
  ASSUME NEW l \in Seq(Read), NEW k \in 1..Len(l), NEW m, m = RemoveAt(l, k)
  PROVE  OneRead(l, k, m)
<1>1. /\ m \in Seq(Read) /\ Len(m) = Len(l) - 1
      /\ \A j \in 1..Len(m) : m[j] = IF j < k THEN l[j] ELSE l[j + 1]
  BY OneRemoved
<1>2. DOMAIN l = 1..Len(l) /\ Len(l) \in Nat /\ DOMAIN m = 1..(Len(l) - 1)
  BY <1>1, LenProperties
<1>3. m = << >> <=> Len(l) = 1
  BY <1>1, <1>2, EmptySeq
<1>4. ASSUME NEW j \in DOMAIN m PROVE \E i \in DOMAIN l \ {k} : m[j] = l[i]
  <2>1. CASE j < k
    BY <1>1, <1>2, <2>1
  <2>2. CASE ~(j < k)
    <3>1. j + 1 \in DOMAIN l \ {k} /\ m[j] = l[j + 1]
      BY <1>1, <1>2, <2>2
    <3> QED BY <3>1
  <2> QED BY <2>1, <2>2
<1>5. ASSUME NEW i \in DOMAIN l \ {k} PROVE \E j \in DOMAIN m : m[j] = l[i]
  <2>1. CASE i < k
    BY <1>1, <1>2, <2>1
  <2>2. CASE ~(i < k)
    <3>1. i - 1 \in DOMAIN m /\ ~(i - 1 < k) /\ (i - 1) + 1 = i
      BY <1>1, <1>2, <2>2
    <3>2. m[i - 1] = l[i]
      BY <1>1, <1>2, <3>1
    <3> QED BY <3>1, <3>2
  <2> QED BY <2>1, <2>2
<1> QED BY <1>1, <1>3, <1>4, <1>5 DEF OneRead

\* What is so while reads are under way.
LEMMA WhileReading ==
  ASSUME IInv, loads # << >>
  PROVE  /\ pane.up /\ Shown(tabs, view) /\ active \in DOMAIN tabs
         /\ op = None /\ pane.pending = None /\ pane.timer = None
         /\ \A i \in DOMAIN tabs :
              files[tabs[i].path] # None \/ (i = active /\ Moves(tabs, active, view, pane))
         /\ (\E k \in DOMAIN loads : loads[k].again) => Len(loads) = 1 /\ pane.loaded = tabs[active].path
<1>1. pane.up /\ Shown(tabs, view)
  BY DEF IInv, World, PaneFits, FrontInPlace
<1>2. active \in DOMAIN tabs
  BY <1>1, FrontIsATab DEF IInv, World, Shown
<1>3. /\ op = None /\ pane.pending = None /\ pane.timer = None
      /\ (\E k \in DOMAIN loads : loads[k].again) => Len(loads) = 1 /\ pane.loaded = tabs[active].path
  BY DEF IInv, World, ReadsInPlace
<1>4. \A i \in DOMAIN tabs :
        files[tabs[i].path] # None \/ (i = active /\ Moves(tabs, active, view, pane))
  BY <1>3 DEF IInv, World, TabsInPlace, Gone
<1> QED BY <1>1, <1>2, <1>3, <1>4

\* An answer that has a text is the note in front's.
LEMMA AnswerIsReady ==
  ASSUME IInv, NEW k \in DOMAIN loads, files[loads[k].path] # None,
         NEW t, SameTabs(tabs, t), NEW pn,
         pn = [pane EXCEPT !.screen = files[loads[k].path],
                           !.loaded = IF loads[k].again THEN @ ELSE loads[k].path],
         NEW s \in Slots, SlotsInPlace(home, s), NEW m, OneRead(loads, k, m)
  PROVE  /\ Ready(files, home, t, active, view, pn, s, m, op)
         /\ World(files, home, t, active, view, pn, s, m, op)
<1>1. loads # << >> /\ loads[k].path \in Paths /\ loads \in Seq(Read) /\ pane \in Pane
  <2>1. loads \in Seq(Read) /\ k \in 1..Len(loads) /\ pane \in Pane
    BY LenProperties DEF IInv, World, PaneFits
  <2>2. loads[k] \in Read
    BY <2>1, ElementOfSeq
  <2> QED BY <2>1, <2>2, EmptySeq DEF Read
<1>2. /\ pane.up /\ Shown(tabs, view) /\ active \in DOMAIN tabs
      /\ op = None /\ pane.pending = None /\ pane.timer = None
      /\ \A i \in DOMAIN tabs :
              files[tabs[i].path] # None \/ (i = active /\ Moves(tabs, active, view, pane))
      /\ (\E i \in DOMAIN loads : loads[i].again) => Len(loads) = 1 /\ pane.loaded = tabs[active].path
  BY <1>1, WhileReading
<1>3. loads[k].path = tabs[active].path
  BY <1>1 DEF IInv, World, ReadsInPlace
<1>4. TabsFit(t, active, view) /\ Shown(t, view) /\ t[active].path = loads[k].path
  BY <1>2, <1>3, SameTabsFit DEF IInv, World, Shown, SameTabs
<1>5. files[loads[k].path] \in Text /\ Of(home, files[loads[k].path], loads[k].path)
  BY <1>1 DEF IInv, StoreFits, FilesInPlace, Of, MaybeText
<1>6. /\ pn \in Pane /\ pn.up /\ pn.loaded = loads[k].path /\ pn.screen = files[loads[k].path]
      /\ pn.pending = None /\ pn.timer = None
  BY <1>1, <1>2, <1>3, <1>5 DEF Pane, MaybeText
<1>7. PaneFits(pn, s, m)
  BY <1>6 DEF PaneFits, OneRead
<1>8. ~Moves(t, active, view, pn)
  BY <1>4, <1>6 DEF Moves
<1>9. OpInPlace(files, op, t, pn, s)
  BY <1>2 DEF OpInPlace
<1>10. ScreenInPlace(home, t, pn, op) /\ HeldInPlace(home, pn)
  BY <1>5, <1>6 DEF ScreenInPlace, HeldInPlace
<1>11. ReadsInPlace(files, m, t[active].path, pn, op)
  <2> SUFFICES ASSUME NEW j \in DOMAIN m
               PROVE  /\ m[j].ours /\ (m[j].path = t[active].path \/ files[m[j].path] = None)
                      /\ m[j].again => Len(m) = 1 /\ pn.loaded = t[active].path
    <3>1. m # << >> => DOMAIN m # {}
      BY LenProperties, EmptySeq DEF OneRead
    <3> QED BY <1>2, <1>6 DEF ReadsInPlace
  <2>1. PICK i \in DOMAIN loads : m[j] = loads[i]
    BY DEF OneRead
  <2>2. ~m[j].again
    <3>1. Len(m) = Len(loads) - 1 /\ m \in Seq(Read)
      BY DEF OneRead
    <3>2. Len(loads) # 1
      BY <3>1, LenProperties DEF OneRead
    <3> QED BY <1>2, <2>1, <3>2
  <2>3. m[j].ours /\ (m[j].path = tabs[active].path \/ files[m[j].path] = None)
    BY <1>1, <2>1 DEF IInv, World, ReadsInPlace
  <2> QED BY <1>3, <1>4, <2>2, <2>3
<1>12. TabsInPlace(files, t, active, view, pn, op)
  BY <1>2, <1>3 DEF TabsInPlace, SameTabs
<1>13. NotAlone(files, t, active, s, m)
  BY <1>4 DEF NotAlone
<1>14. Ready(files, home, t, active, view, pn, s, m, op)
  BY <1>4, <1>7, <1>8, <1>9, <1>10, <1>11, <1>12, <1>13 DEF Ready
<1>15. FrontInPlace(t, active, view, pn, m)
  BY <1>4, <1>6, <1>8 DEF FrontInPlace
<1> QED BY <1>14, <1>15, NothingIsRead

\* The slot of a note that has just been read or made.
LEMMA OpenedFits ==
  ASSUME IInv, NEW p \in Paths, NEW text \in MaybeText, NEW s, s = Opened(slots, p, text)
  PROVE  s \in Slots /\ SlotsInPlace(home, s)
<1>1. slots \in Slots /\ SlotsInPlace(home, slots)
  BY DEF IInv, World, PaneFits
<1>2. PICK x : x = [slots[p] EXCEPT !.base = text, !.blocked = FALSE]
  OBVIOUS
<1>3. slots[p] \in Slot /\ SlotInPlace(home, slots[p], p)
  BY <1>1 DEF Slots, SlotsInPlace
<1>4. x \in Slot /\ SlotInPlace(home, x, p)
  BY <1>2, <1>3 DEF Slot, SlotInPlace
<1>5. s = [slots EXCEPT ![p] = x]
  BY <1>1, <1>2 DEF Opened, Slots
<1>6. OnlySlot(home, slots, p, s)
  BY <1>1, <1>4, <1>5, SlotReplaced
<1> QED BY <1>6 DEF OnlySlot

LEMMA LoadAnsweredKeeps ==
  ASSUME IInv, NEW k \in DOMAIN loads, LoadAnswered(k)
  PROVE  IInv'
<1>1. PICK p, text : p = loads[k].path /\ text = files[p]
  OBVIOUS
<1>2. PICK t, s, m : t = Marked(Hashed(tabs, p, text), p, FALSE) /\ s = Opened(slots, p, text) /\ m = Without(k)
  OBVIOUS
<1>3. PICK pn : pn = [pane EXCEPT !.screen = files[loads[k].path],
                                  !.loaded = IF loads[k].again THEN @ ELSE loads[k].path]
  OBVIOUS
<1>4. loads \in Seq(Read) /\ k \in 1..Len(loads) /\ loads # << >>
  BY LenProperties, EmptySeq DEF IInv, World, PaneFits
<1>5. loads[k].ours /\ p \in Paths
  <2>1. loads[k] \in Read
    BY <1>4, ElementOfSeq
  <2> QED BY <1>1, <1>4, <2>1 DEF Read, IInv, World, ReadsInPlace
<1>6. /\ text # None
      /\ IF Wakes(tabs, t, p)
         THEN Settles(t, active, view, pn, s, m)
         ELSE pane' = pn /\ slots' = s /\ loads' = m /\ UNCHANGED ui
      /\ UNCHANGED <<files, home, op, typed, left>>
  BY <1>1, <1>2, <1>3, <1>5 DEF LoadAnswered
<1>7. text \in MaybeText
  BY <1>1, <1>5 DEF IInv, StoreFits
<1>8. SameTabs(tabs, t)
  BY <1>2, <1>7, MarkedHashedIsSame DEF IInv, World, TabsFit
<1>9. s \in Slots /\ SlotsInPlace(home, s)
  BY <1>2, <1>5, <1>7, OpenedFits
<1>10. OneRead(loads, k, m)
  BY <1>2, <1>4, ReadEnds DEF Without
<1>11. /\ Ready(files, home, t, active, view, pn, s, m, op)
       /\ World(files, home, t, active, view, pn, s, m, op)
  BY <1>1, <1>3, <1>6, <1>8, <1>9, <1>10, AnswerIsReady
<1>12. op \in Operation \cup {None} /\ RestFits(op, typed, left)'
  BY <1>6 DEF IInv, RestFits
<1>13. World(files, home, tabs', active', view', pane', slots', loads', op)
  <2>1. CASE Wakes(tabs, t, p)
    BY <1>6, <1>11, <1>12, <2>1, EffectsInPlace
  <2>2. CASE ~Wakes(tabs, t, p)
    BY <1>6, <1>11, <2>2 DEF Wakes, ui
  <2> QED BY <2>1, <2>2
<1> QED BY <1>6, <1>12, <1>13, Concluded

\* A read that failed and leaves the tabs alone.
LEMMA VainReadKeeps ==
  ASSUME IInv, NEW k \in DOMAIN loads, files[loads[k].path] = None,
         loads[k].again \/ ~HasTab(tabs, loads[k].path), NEW m, OneRead(loads, k, m)
  PROVE  World(files, home, tabs, active, view, pane, slots, m, op)
<1>1. loads \in Seq(Read) /\ k \in 1..Len(loads) /\ loads # << >> /\ m \in Seq(Read)
  BY LenProperties, EmptySeq DEF IInv, World, PaneFits, OneRead
<1>2. /\ pane.up /\ Shown(tabs, view) /\ active \in DOMAIN tabs
      /\ op = None /\ pane.pending = None /\ pane.timer = None
      /\ \A i \in DOMAIN tabs :
              files[tabs[i].path] # None \/ (i = active /\ Moves(tabs, active, view, pane))
      /\ (\E i \in DOMAIN loads : loads[i].again) => Len(loads) = 1 /\ pane.loaded = tabs[active].path
  BY <1>1, WhileReading
<1>3. PaneFits(pane, slots, m)
  BY <1>1, <1>2 DEF IInv, World, PaneFits
<1>4. ReadsInPlace(files, m, tabs[active].path, pane, op)
  <2> SUFFICES ASSUME NEW j \in DOMAIN m
               PROVE  /\ m[j].ours /\ (m[j].path = tabs[active].path \/ files[m[j].path] = None)
                      /\ ~m[j].again
    BY <1>2 DEF ReadsInPlace
  <2>1. PICK i \in DOMAIN loads : m[j] = loads[i]
    BY DEF OneRead
  <2>2. ~m[j].again
    <3>1. Len(loads) # 1
      BY <1>1, LenProperties DEF OneRead
    <3> QED BY <1>2, <2>1, <3>1
  <2> QED BY <1>1, <2>1, <2>2 DEF IInv, World, ReadsInPlace
<1>5. FrontInPlace(tabs, active, view, pane, m)
  <2> SUFFICES ASSUME Moves(tabs, active, view, pane) PROVE Loading(m, tabs[active].path)
    BY <1>2 DEF FrontInPlace
  <2>1. PICK i \in DOMAIN loads : loads[i].path = tabs[active].path /\ ~loads[i].again
    BY DEF IInv, World, FrontInPlace, Loading
  <2>2. i # k
    BY <1>2, <2>1 DEF HasTab
  <2> QED BY <2>1, <2>2 DEF OneRead, Loading
<1>6. NotAlone(files, tabs, active, slots, m)
  <2>1. m # << >> => Len(m) # 0 /\ Len(loads) \in Nat /\ Len(m) = Len(loads) - 1
    BY <1>1, LenProperties, EmptySeq DEF OneRead
  <2>2. m # << >> => Len(loads) # 1
    BY <2>1
  <2> QED BY <1>1, <2>2 DEF IInv, World, NotAlone
<1> QED BY <1>3, <1>4, <1>5, <1>6 DEF IInv, World

\* A read that failed takes the tab in front with it, and no other; the note the editor
\* still holds may then be in front.
LEMMA LostTabIsReady ==
  ASSUME IInv, NEW k \in DOMAIN loads, files[loads[k].path] = None, ~loads[k].again,
         HasTab(tabs, loads[k].path), NEW m, OneRead(loads, k, m),
         NEW t, t = CloseTab(tabs, TabAt(tabs, loads[k].path)),
         NEW a, a = ActiveAfterClose(active, TabAt(tabs, loads[k].path), Len(tabs))
  PROVE  Ready(files, home, t, a, view, pane, slots, m, op)
<1>1. loads \in Seq(Read) /\ k \in 1..Len(loads) /\ loads # << >> /\ m \in Seq(Read) /\ Len(loads) \in Nat
  BY LenProperties, EmptySeq DEF IInv, World, PaneFits, OneRead
<1>2. /\ pane.up /\ Shown(tabs, view) /\ active \in DOMAIN tabs
      /\ op = None /\ pane.pending = None /\ pane.timer = None
      /\ \A i \in DOMAIN tabs :
              files[tabs[i].path] # None \/ (i = active /\ Moves(tabs, active, view, pane))
      /\ (\E i \in DOMAIN loads : loads[i].again) => Len(loads) = 1 /\ pane.loaded = tabs[active].path
  BY <1>1, WhileReading
<1>3. tabs \in Seq(Tab) /\ Distinct(tabs) /\ TabsFit(tabs, active, view) /\ DOMAIN tabs = 1..Len(tabs)
  BY LenProperties DEF IInv, World, TabsFit
<1>4. TabAt(tabs, loads[k].path) \in DOMAIN tabs /\ tabs[TabAt(tabs, loads[k].path)].path = loads[k].path
  BY <1>3, TabAtFinds
<1>5. TabAt(tabs, loads[k].path) = active /\ loads[k].path = tabs[active].path
  BY <1>2, <1>4
<1>6. TabsFit(t, a, view) /\ \A j \in DOMAIN t : \E i \in DOMAIN tabs \ {active} : t[j] = tabs[i]
  BY <1>2, <1>3, <1>5, ClosedFits
<1>7. \A j \in DOMAIN t : files[t[j].path] # None /\ HasTab(tabs, t[j].path)
  BY <1>2, <1>6 DEF HasTab
<1>8. PaneFits(pane, slots, m) /\ SlotsInPlace(home, slots) /\ HeldInPlace(home, pane)
  BY <1>1, <1>2 DEF IInv, World, PaneFits
<1>9. OpInPlace(files, op, t, pane, slots)
  BY <1>2 DEF OpInPlace
<1>10. ScreenInPlace(home, t, pane, op)
  BY <1>7 DEF IInv, World, ScreenInPlace, HasTab
<1>11. ReadsInPlace(files, m, t[a].path, pane, op)
  <2> SUFFICES ASSUME NEW j \in DOMAIN m
               PROVE  m[j].ours /\ files[m[j].path] = None /\ ~m[j].again
    BY <1>2 DEF ReadsInPlace
  <2>1. PICK i \in DOMAIN loads : m[j] = loads[i]
    BY DEF OneRead
  <2>2. ~m[j].again
    <3>1. Len(loads) # 1
      BY <1>1, LenProperties DEF OneRead
    <3> QED BY <1>2, <2>1, <3>1
  <2> QED BY <1>1, <1>5, <2>1, <2>2 DEF IInv, World, ReadsInPlace
<1>12. TabsInPlace(files, t, a, view, pane, op)
  BY <1>7 DEF TabsInPlace
<1>13. ASSUME ~Shown(t, view) PROVE m = << >>
  <2>1. t = << >>
    BY <1>2, <1>13 DEF Shown
  <2>2. Len(tabs) = 1
    <3>1. OneCloses(tabs, active, t)
      BY <1>2, <1>3, <1>5, TabCloses
    <3>2. Len(tabs) \in Nat /\ Len(t) = 0
      BY <1>3, <2>1, LenProperties, EmptySeq
    <3> QED BY <3>1, <3>2 DEF OneCloses
  <2>3. Len(loads) = 1
    BY <1>1, <1>5, <2>2 DEF IInv, World, NotAlone
  <2> QED BY <2>3 DEF OneRead
<1>14. Shown(t, view) => files[t[a].path] # None
  BY <1>6, <1>7, FrontIsATab DEF Shown
<1>15. Moves(t, a, view, pane) => NewNotAlone(files, t, a, pane, slots, m)
  BY <1>14 DEF Moves, NewNotAlone
<1>16. NotAlone(files, t, a, slots, m)
  BY <1>13, <1>14 DEF NotAlone
<1> QED BY <1>2, <1>6, <1>8, <1>9, <1>10, <1>11, <1>12, <1>13, <1>15, <1>16 DEF Ready

LEMMA LoadFailsKeeps ==
  ASSUME IInv, NEW k \in DOMAIN loads, LoadFails(k)
  PROVE  IInv'
<1>1. PICK m, p : m = Without(k) /\ p = loads[k].path
  OBVIOUS
<1>2. /\ files[loads[k].path] = None
      /\ IF loads[k].again THEN loads' = m /\ UNCHANGED <<ui, pane, slots>>
         ELSE CloseTabWithPath(p, m)
      /\ UNCHANGED <<files, home, op, typed, left>>
  BY <1>1 DEF LoadFails
<1>3. loads \in Seq(Read) /\ k \in 1..Len(loads) /\ tabs \in Seq(Tab) /\ Distinct(tabs)
  BY LenProperties DEF IInv, World, PaneFits, TabsFit
<1>4. OneRead(loads, k, m)
  BY <1>1, <1>3, ReadEnds DEF Without
<1>5. op \in Operation \cup {None} /\ RestFits(op, typed, left)'
  BY <1>2 DEF IInv, RestFits
<1>6. CASE loads[k].again \/ ~HasTab(tabs, loads[k].path)
  <2>1. World(files, home, tabs, active, view, pane, slots, m, op)
    BY <1>2, <1>4, <1>6, VainReadKeeps
  <2>2. loads' = m /\ UNCHANGED <<ui, pane, slots>>
    BY <1>1, <1>2, <1>3, <1>6, TabAtFinds DEF CloseTabWithPath
  <2> QED BY <1>2, <1>5, <2>1, <2>2, Concluded DEF ui
<1>7. CASE ~loads[k].again /\ HasTab(tabs, loads[k].path)
  <2>1. PICK t, a : /\ t = CloseTab(tabs, TabAt(tabs, loads[k].path))
                    /\ a = ActiveAfterClose(active, TabAt(tabs, loads[k].path), Len(tabs))
    OBVIOUS
  <2>2. TabAt(tabs, p) # 0
    BY <1>1, <1>3, <1>7, TabAtFinds
  <2>3. Settles(t, a, view, pane, slots, m)
    BY <1>1, <1>2, <1>7, <2>1, <2>2 DEF CloseTabWithPath
  <2>4. Ready(files, home, t, a, view, pane, slots, m, op)
    BY <1>2, <1>4, <1>7, <2>1, LostTabIsReady
  <2>5. World(files, home, tabs', active', view', pane', slots', loads', op)
    BY <1>5, <2>3, <2>4, EffectsInPlace
  <2> QED BY <1>2, <1>5, <2>5, Concluded
<1> QED BY <1>6, <1>7

\* A re-read is of the note in front, when nothing else goes on.
LEMMA RereadsKeeps ==
  ASSUME IInv, Hasty \subseteq {"leaving"}, Rereads
  PROVE  IInv'
<1>1. PICK x, m : x = Load(pane.loaded, TRUE) /\ m = Append(loads, x)
  OBVIOUS
<1>2. /\ Spend("rereads") /\ pane.up /\ pane.loaded # None /\ ~Waiting /\ op = None
      /\ ~Unsaved(pane.loaded) /\ loads' = m
      /\ UNCHANGED <<files, home, tabs, active, view, pane, slots, op, typed>>
  BY <1>1 DEF Rereads, ui
<1>3. loads = << >> /\ pane.pending = None /\ pane.timer = None
  BY <1>2, NothingAwaited DEF Unsaved
<1>4. /\ Shown(tabs, view) /\ ~Moves(tabs, active, view, pane) /\ pane.loaded = tabs[active].path
      /\ \A i \in DOMAIN tabs : files[tabs[i].path] # None
  BY <1>2, <1>3, AtRest DEF Gone
<1>5. active \in DOMAIN tabs /\ pane.loaded \in Paths
  BY <1>4, FrontIsATab DEF IInv, World, Shown
<1>6. x \in Read /\ x.path = tabs[active].path /\ x.ours
  BY <1>1, <1>4, <1>5 DEF Load, Read
<1>7. m \in Seq(Read) /\ Len(m) = 1 /\ DOMAIN m = {1} /\ m[1] = x
  <2>1. x \in Read /\ << >> \in Seq(Read) /\ Len(<< >>) = 0 /\ m = Append(<< >>, x)
    BY <1>1, <1>3, <1>6, EmptySeq
  <2>2. m \in Seq(Read) /\ Len(m) = 1 /\ m[1] = x
    BY <2>1, AppendProperties
  <2> QED BY <2>2, LenProperties
<1>8. PaneFits(pane, slots, m)
  BY <1>2, <1>7 DEF IInv, World, PaneFits
<1>9. ReadsInPlace(files, m, tabs[active].path, pane, op)
  BY <1>2, <1>3, <1>4, <1>6, <1>7 DEF ReadsInPlace
<1>10. FrontInPlace(tabs, active, view, pane, m) /\ NotAlone(files, tabs, active, slots, m)
  BY <1>2, <1>4, <1>5 DEF FrontInPlace, NotAlone
<1>11. World(files, home, tabs, active, view, pane, slots, m, op)
  BY <1>8, <1>9, <1>10 DEF IInv, World
<1>12. RestFits(op, typed, left)'
  BY <1>2, SpendFits DEF IInv, RestFits
<1> QED BY <1>2, <1>11, <1>12, Concluded

-----------------------------------------------------------------------------
(***************************************************************************)
(* The saves.                                                              *)
(***************************************************************************)

\* A note that has a save out goes on saving, which nothing that waits for it can see.
LEMMA SlotStepIsReady ==
  ASSUME IInv, NEW p \in Paths, ~Still(slots[p]), NEW t, SameTabs(tabs, t),
         NEW s, OnlySlot(home, slots, p, s)
  PROVE  /\ Ready(files, home, t, active, view, pane, s, loads, op)
         /\ World(files, home, t, active, view, pane, s, loads, op)
<1>1. s \in Slots /\ SlotsInPlace(home, s) /\ \A q \in Paths : q # p => s[q] = slots[q]
  BY DEF OnlySlot
<1>2. TabsFit(t, active, view) /\ (t = << >> <=> tabs = << >>) /\ \A q : HasTab(t, q) <=> HasTab(tabs, q)
  BY SameTabsFit DEF IInv, World
<1>3. Shown(t, view) <=> Shown(tabs, view)
  BY <1>2 DEF Shown
<1>4. Shown(t, view) => t[active].path = tabs[active].path
  <2>1. Shown(t, view) => active \in DOMAIN tabs
    BY <1>3, FrontIsATab DEF IInv, World, Shown
  <2> QED BY <2>1 DEF SameTabs
<1>5. Moves(t, active, view, pane) <=> Moves(tabs, active, view, pane)
  BY <1>3, <1>4 DEF Moves
<1>6. PaneFits(pane, s, loads)
  BY <1>1 DEF IInv, World, PaneFits
<1>7. OpInPlace(files, op, t, pane, s)
  <2> SUFFICES ASSUME op # None
               PROVE  OpFits(op) /\ OpQuiet(op, pane, s) /\ (op.stage = "done" => OpDone(files, op, t))
    BY DEF OpInPlace
  <2>1. OpFits(op) /\ OpQuiet(op, pane, slots) /\ (op.stage = "done" => OpDone(files, op, tabs))
    BY DEF IInv, World, OpInPlace
  <2>2. op.from \in Paths \cup {None} /\ op.to \in Paths \cup {None}
    BY DEF IInv, RestFits, Operation
  <2>3. OpQuiet(op, pane, s)
    BY <1>1, <2>1, <2>2 DEF OpQuiet, Quiet
  <2>4. op.stage = "done" => OpDone(files, op, t)
    BY <1>2, <2>1 DEF OpDone
  <2> QED BY <2>1, <2>3, <2>4
<1>8. ScreenInPlace(home, t, pane, op) /\ HeldInPlace(home, pane)
  BY <1>2 DEF IInv, World, ScreenInPlace
<1>9. loads # << >> => Shown(tabs, view)
  BY WhileReading
<1>10. ReadsInPlace(files, loads, t[active].path, pane, op)
  BY <1>3, <1>4, <1>9 DEF IInv, World, ReadsInPlace
<1>11. TabsInPlace(files, t, active, view, pane, op)
  BY <1>5 DEF IInv, World, TabsInPlace, SameTabs
<1>12. loads # << >> /\ files[t[active].path] = None => Len(t) # 1
  <2>1. ~AllStill(slots)
    BY DEF AllStill
  <2> QED BY <1>3, <1>4, <1>9, <2>1 DEF IInv, World, NotAlone, SameTabs
<1>13. NotAlone(files, t, active, s, loads)
  BY <1>12 DEF NotAlone
<1>14. FrontInPlace(t, active, view, pane, loads)
  BY <1>3, <1>4, <1>5, <1>9 DEF IInv, World, FrontInPlace, Moves
<1>15. Moves(t, active, view, pane) => op = None /\ NewNotAlone(files, t, active, pane, s, loads)
  <2>1. Moves(t, active, view, pane) => loads # << >>
    BY <1>14 DEF FrontInPlace, Loading
  <2> QED BY <1>12, <2>1, WhileReading DEF NewNotAlone
<1>16. ~Shown(t, view) => loads = << >>
  BY <1>3, <1>9
<1>17. Ready(files, home, t, active, view, pane, s, loads, op)
  BY <1>1, <1>2, <1>6, <1>7, <1>8, <1>10, <1>11, <1>13, <1>15, <1>16 DEF Ready
<1> QED BY <1>14, <1>17, NothingIsRead

\* Which notes are there is all that the rest goes by.
LEMMA SameNotesThere ==
  ASSUME NEW f, NEW g, \A p \in Paths : f[p] = None <=> g[p] = None,
         NEW h, NEW t, NEW a, NEW v, NEW pn, NEW s, NEW l, NEW o, o \in Operation \cup {None},
         World(f, h, t, a, v, pn, s, l, o)
  PROVE  World(g, h, t, a, v, pn, s, l, o)
<1>1. DOMAIN t = 1..Len(t) /\ \A i \in DOMAIN t : t[i].path \in Paths
  <2>1. t \in Seq(Tab) /\ DOMAIN t = 1..Len(t)
    BY LenProperties DEF World, TabsFit
  <2>2. \A i \in 1..Len(t) : t[i] \in Tab
    BY <2>1, ElementOfSeq
  <2> QED BY <2>1, <2>2 DEF Tab
<1>2. \A k \in DOMAIN l : l[k].path \in Paths
  <2>1. l \in Seq(Read) /\ DOMAIN l = 1..Len(l)
    BY LenProperties DEF World, PaneFits
  <2>2. \A k \in 1..Len(l) : l[k] \in Read
    BY <2>1, ElementOfSeq
  <2> QED BY <2>1, <2>2 DEF Read
<1>3. OpInPlace(g, o, t, pn, s)
  <2> SUFFICES ASSUME o # None, o.stage = "done" PROVE OpDone(g, o, t)
    BY DEF World, OpInPlace
  <2>1. OpFits(o) /\ OpDone(f, o, t)
    BY DEF World, OpInPlace
  <2>2. /\ o.from \in Paths \cup {None} /\ o.to \in Paths \cup {None}
        /\ o.kind \in {"create", "move", "delete"}
    BY DEF Operation
  <2> QED BY <2>1, <2>2 DEF OpFits, OpDone
<1>4. ReadsInPlace(g, l, t[a].path, pn, o)
  BY <1>2 DEF World, ReadsInPlace
<1>5. TabsInPlace(g, t, a, v, pn, o)
  BY <1>1 DEF World, TabsInPlace
<1>6. NotAlone(g, t, a, s, l)
  <2>1. l # << >> => t[a].path \in Paths
    <3>1. l # << >> => t # << >>
      BY DEF World, PaneFits, FrontInPlace, Shown
    <3> QED BY <3>1, FrontIsATab DEF World
  <2> QED BY <2>1 DEF World, NotAlone
<1> QED BY <1>3, <1>4, <1>5, <1>6 DEF World

\* The slot of a note with a save out, with another record in it.
LEMMA SlotMoves ==
  ASSUME IInv, NEW p \in Paths, NEW x \in Slot, SlotInPlace(home, x, p),
         NEW s, s = [slots EXCEPT ![p] = x]
  PROVE  OnlySlot(home, slots, p, s)
<1>1. slots \in Slots /\ SlotsInPlace(home, slots)
  BY DEF IInv, World, PaneFits
<1> QED BY <1>1, SlotReplaced

LEMMA SlotFits ==
  ASSUME IInv, NEW p \in Paths
  PROVE  slots[p] \in Slot /\ SlotInPlace(home, slots[p], p) /\ slots \in Slots
BY DEF IInv, World, PaneFits, Slots, SlotsInPlace

LEMMA ResolvesKeeps ==
  ASSUME IInv, NEW p \in Paths, Resolves(p)
  PROVE  IInv'
<1>1. PICK x : x = [slots[p] EXCEPT !.token = files[p], !.stage = "send"]
  OBVIOUS
<1>2. slots[p] \in Slot /\ SlotInPlace(home, slots[p], p) /\ slots \in Slots
  BY SlotFits
<1>3. files[p] \in MaybeText
  BY DEF IInv, StoreFits
<1>4. x \in Slot
  BY <1>1, <1>2, <1>3 DEF Slot, Stages
<1>5. x.queued = slots[p].queued /\ x.text = slots[p].text
  BY <1>1, <1>2 DEF Slot
<1>6. slots[p].stage # "idle" /\ SlotInPlace(home, x, p)
  BY <1>2, <1>5 DEF Resolves, SlotInPlace
<1>7. slots' = [slots EXCEPT ![p] = x] /\ UNCHANGED <<files, home, tabs, active, view, pane, loads, op, typed, left>>
  BY <1>1, <1>2 DEF Resolves, ui, Slots
<1>8. OnlySlot(home, slots, p, slots')
  BY <1>4, <1>6, <1>7, SlotMoves
<1>9. SameTabs(tabs, tabs)
  BY DEF IInv, World, TabsFit, SameTabs
<1>10. World(files, home, tabs, active, view, pane, slots', loads, op)
  BY <1>6, <1>8, <1>9, SlotStepIsReady DEF Still
<1>11. RestFits(op, typed, left)'
  BY <1>7 DEF IInv, RestFits
<1> QED BY <1>7, <1>10, <1>11, Concluded

LEMMA RefusedKeeps ==
  ASSUME IInv, NEW p \in Paths, Refused(p)
  PROVE  IInv'
<1>1. PICK x, y : /\ x = [slots[p] EXCEPT !.stage = "send"]
                  /\ y = [slots[p] EXCEPT !.blocked = TRUE, !.stage = "idle", !.text = None, !.token = None]
  OBVIOUS
<1>2. slots[p] \in Slot /\ SlotInPlace(home, slots[p], p) /\ slots \in Slots
  BY SlotFits
<1>3. slots[p].stage = "refused"
  BY DEF Refused
<1>4. x \in Slot /\ SlotInPlace(home, x, p)
  BY <1>1, <1>2, <1>3 DEF Slot, Stages, SlotInPlace
<1>5. y \in Slot /\ SlotInPlace(home, y, p)
  BY <1>1, <1>2 DEF Slot, Stages, MaybeText, SlotInPlace
<1>6. slots' = [slots EXCEPT ![p] = x] \/ slots' = [slots EXCEPT ![p] = y]
  BY <1>1, <1>2 DEF Refused, Slots
<1>7. UNCHANGED <<files, home, tabs, active, view, pane, loads, op, typed, left>>
  BY DEF Refused, ui
<1>8. OnlySlot(home, slots, p, slots')
  BY <1>4, <1>5, <1>6, SlotMoves
<1>9. SameTabs(tabs, tabs)
  BY DEF IInv, World, TabsFit, SameTabs
<1>10. World(files, home, tabs, active, view, pane, slots', loads, op)
  BY <1>3, <1>8, <1>9, SlotStepIsReady DEF Still
<1>11. RestFits(op, typed, left)'
  BY <1>7 DEF IInv, RestFits
<1> QED BY <1>7, <1>10, <1>11, Concluded

\* The text on its way is of the note whose file it replaces.
LEMMA ServerSavesKeeps ==
  ASSUME IInv, NEW p \in Paths, ServerSaves(p)
  PROVE  IInv'
<1> DEFINE taken == files[p] \in {None, slots[p].token}
<1>2. PICK x : x = [slots[p] EXCEPT !.stage = IF taken THEN "saved" ELSE "refused",
                                    !.token = IF taken THEN slots[p].text ELSE files[p]]
  OBVIOUS
<1>3. slots[p] \in Slot /\ SlotInPlace(home, slots[p], p) /\ slots \in Slots
  BY SlotFits
<1>4. /\ files \in [Paths -> MaybeText] /\ home \in [Paths -> Notes \cup {None}]
      /\ files[p] \in MaybeText /\ slots[p].text \in MaybeText
  BY <1>3 DEF IInv, StoreFits, Slot
<1>5. /\ slots[p].stage = "send" /\ slots' = [slots EXCEPT ![p] = x]
      /\ files' = IF taken THEN [files EXCEPT ![p] = slots[p].text] ELSE files
      /\ UNCHANGED <<home, tabs, active, view, pane, loads, op, typed, left>>
  BY <1>2, <1>3 DEF ServerSaves, ui, Slots
<1>6. slots[p].text \in Text /\ Of(home, slots[p].text, p)
  BY <1>3, <1>4, <1>5 DEF SlotInPlace, Of, MaybeText
<1>7. home[p] # None /\ files[p] # None
  <2>1. home[p] # None
    BY <1>6, TextIsOfANote, NoneIsNoNote DEF Of
  <2> QED BY <2>1 DEF IInv, FilesInPlace
<1>8. StoreFits(files, home)' /\ FilesInPlace(files, home)'
  <2>1. files' \in [Paths -> MaybeText]
    BY <1>4, <1>5
  <2>2. \A q \in Paths : files'[q] = IF taken /\ q = p THEN slots[p].text ELSE files[q]
    BY <1>4, <1>5
  <2>3. FilesInPlace(files', home)
    BY <1>6, <1>7, <2>2 DEF IInv, FilesInPlace, Of
  <2> QED BY <1>4, <1>5, <2>1, <2>3 DEF StoreFits
<1>9. \A q \in Paths : files[q] = None <=> files'[q] = None
  BY <1>4, <1>5, <1>6, <1>7 DEF Of
<1>10. x \in Slot
  BY <1>2, <1>3, <1>4 DEF Slot, Stages
<1>11. SlotInPlace(home, x, p)
  <2>1. x.queued = slots[p].queued /\ x.text = slots[p].text
    BY <1>2, <1>3 DEF Slot
  <2> QED BY <1>3, <1>5, <2>1 DEF SlotInPlace
<1>12. OnlySlot(home, slots, p, slots')
  BY <1>5, <1>10, <1>11, SlotMoves
<1>13. SameTabs(tabs, tabs)
  BY DEF IInv, World, TabsFit, SameTabs
<1>14. World(files, home, tabs, active, view, pane, slots', loads, op)
  BY <1>5, <1>12, <1>13, SlotStepIsReady DEF Still
<1>15. RestFits(op, typed, left)' /\ op \in Operation \cup {None}
  BY <1>5 DEF IInv, RestFits
<1>16. World(files', home, tabs, active, view, pane, slots', loads, op)
  BY <1>9, <1>14, <1>15, SameNotesThere
<1> QED BY <1>5, <1>8, <1>15, <1>16 DEF IInv

\* The answer to a save marks the tab and lets the text that waits go on.
LEMMA SavedKeeps ==
  ASSUME IInv, NEW p \in Paths, Saved(p)
  PROVE  IInv'
<1>1. PICK t : t = Marked(Hashed(tabs, p, slots[p].token), p, FALSE)
  OBVIOUS
<1>2. PICK b : b = [slots[p] EXCEPT !.base = slots[p].text]
  OBVIOUS
<1>3. PICK s0 : s0 = [slots EXCEPT ![p].base = slots[p].text]
  OBVIOUS
<1>4. PICK s : s = Onward(s0, t, p)
  OBVIOUS
<1>5. slots[p] \in Slot /\ SlotInPlace(home, slots[p], p) /\ slots \in Slots
  BY SlotFits
<1>6. /\ slots[p].stage # "idle"
      /\ IF Wakes(tabs, t, p)
         THEN Settles(t, active, view, pane, s, loads)
         ELSE slots' = s /\ UNCHANGED <<tabs, active, view, pane, loads>>
      /\ UNCHANGED <<files, home, op, typed, left>>
  BY <1>1, <1>3, <1>4 DEF Saved, ui
<1>7. slots[p].token \in MaybeText /\ slots[p].text \in MaybeText /\ slots[p].queued \in MaybeText
  BY <1>5 DEF Slot
<1>8. SameTabs(tabs, t)
  BY <1>1, <1>7, MarkedHashedIsSame DEF IInv, World, TabsFit
<1>9. HashFor(t, p) \in MaybeText
  BY <1>8, SameTabsFit, HashIsText DEF IInv, World, SameTabs, TabsFit
<1>10. b \in Slot /\ b.queued = slots[p].queued /\ b.text = slots[p].text /\ b.stage = slots[p].stage
  BY <1>2, <1>5, <1>7 DEF Slot
<1>11. s0 = [slots EXCEPT ![p] = b] /\ s0[p] = b
  BY <1>2, <1>3, <1>5 DEF Slots
<1>12. PICK x, y : /\ x = [b EXCEPT !.stage = "idle", !.text = None, !.token = None]
                   /\ y = [b EXCEPT !.text = b.queued, !.queued = None, !.token = HashFor(t, p),
                                    !.stage = "send"]
  OBVIOUS
<1>13. x \in Slot /\ y \in Slot
  BY <1>7, <1>9, <1>10, <1>12 DEF Slot, Stages, MaybeText
<1>14. SlotInPlace(home, x, p)
  BY <1>5, <1>10, <1>12 DEF SlotInPlace, Slot
<1>15. b.queued # None => SlotInPlace(home, y, p)
  BY <1>5, <1>10, <1>12 DEF SlotInPlace, Slot
<1>16. \/ s = [slots EXCEPT ![p] = x]
       \/ b.queued # None /\ s = [slots EXCEPT ![p] = y]
  <2>1. CASE b.queued = None
    BY <1>4, <1>5, <1>11, <1>12, <2>1 DEF Onward, Slots
  <2>2. CASE b.queued # None
    BY <1>4, <1>5, <1>11, <1>12, <2>2 DEF Onward, Slots
  <2> QED BY <2>1, <2>2
<1>17. OnlySlot(home, slots, p, s)
  BY <1>13, <1>14, <1>15, <1>16, SlotMoves
<1>18. /\ Ready(files, home, t, active, view, pane, s, loads, op)
       /\ World(files, home, t, active, view, pane, s, loads, op)
  BY <1>6, <1>8, <1>17, SlotStepIsReady DEF Still
<1>19. op \in Operation \cup {None} /\ RestFits(op, typed, left)'
  BY <1>6 DEF IInv, RestFits
<1>20. World(files, home, tabs', active', view', pane', slots', loads', op)
  <2>1. CASE Wakes(tabs, t, p)
    BY <1>6, <1>18, <1>19, <2>1, EffectsInPlace
  <2>2. CASE ~Wakes(tabs, t, p)
    BY <1>6, <1>18, <2>2 DEF Wakes
  <2> QED BY <2>1, <2>2
<1> QED BY <1>6, <1>19, <1>20, Concluded

-----------------------------------------------------------------------------
(***************************************************************************)
(* Notes created, moved and deleted.                                       *)
(***************************************************************************)

LEMMA OpIsNotNone == \A o \in Operation : o # None
BY WorkspaceAssumption

\* An operation is asked for when nothing of its notes is on its way.
LEMMA AsksKeeps ==
  ASSUME IInv, Hasty \subseteq {"leaving"}, NEW kind, NEW from, NEW to, Asks(kind, from, to),
         \/ kind = "create" /\ from = None /\ to \in Paths
         \/ kind = "move" /\ from \in Paths /\ to \in Paths /\ from # to
         \/ kind = "delete" /\ from \in Paths /\ to = None
  PROVE  IInv'
<1>1. PICK o : o = [kind |-> kind, from |-> from, to |-> to, note |-> None, stage |-> "asked"]
  OBVIOUS
<1>2. /\ Spend("ops") /\ op = None /\ ~Waiting /\ \A p \in {from, to} \ {None} : ~Unsaved(p)
      /\ op' = o /\ UNCHANGED <<files, home, tabs, active, view, pane, loads, slots, typed>>
  BY <1>1 DEF Asks, ui
<1>3. loads = << >>
  BY <1>2, NothingAwaited
<1>4. /\ o \in Operation /\ o.kind = kind /\ o.from = from /\ o.to = to /\ o.stage = "asked"
      /\ o # None
  <2>1. o \in Operation /\ o.kind = kind /\ o.from = from /\ o.to = to /\ o.stage = "asked"
    BY <1>1 DEF Operation, MaybeText
  <2> QED BY <2>1, OpIsNotNone
<1>5. OpFits(o)
  BY <1>4, WorkspaceAssumption DEF OpFits
<1>6. OpQuiet(o, pane, slots)
  BY <1>2, <1>4 DEF OpQuiet, Quiet, Unsaved, Idle, Still
<1>7. OpInPlace(files, o, tabs, pane, slots)
  BY <1>4, <1>5, <1>6 DEF OpInPlace
<1>8. \A p : ~Gone(o, p) /\ ~Gone(op, p)
  BY <1>2, <1>4 DEF Gone
<1>9. ScreenInPlace(home, tabs, pane, o) /\ TabsInPlace(files, tabs, active, view, pane, o)
  BY <1>8 DEF IInv, World, ScreenInPlace, TabsInPlace
<1>10. ReadsInPlace(files, loads, tabs[active].path, pane, o)
  BY <1>3 DEF ReadsInPlace
<1>11. World(files, home, tabs, active, view, pane, slots, loads, o)
  BY <1>7, <1>9, <1>10 DEF IInv, World
<1>12. RestFits(op, typed, left)'
  BY <1>2, <1>4, SpendFits DEF IInv, RestFits
<1> QED BY <1>2, <1>11, <1>12, Concluded

\* What is so while an operation is under way.
LEMMA WhileUnderWay ==
  ASSUME IInv, op # None
  PROVE  /\ op \in Operation /\ OpFits(op) /\ OpQuiet(op, pane, slots) /\ loads = << >>
         /\ op.from \in Paths \cup {None} /\ op.to \in Paths \cup {None}
         /\ op.kind \in {"create", "move", "delete"}
         /\ op.stage = "done" => OpDone(files, op, tabs)
<1>1. op \in Operation
  BY DEF IInv, RestFits
<1> QED BY <1>1 DEF IInv, World, OpInPlace, ReadsInPlace, Operation

\* The server has done what was asked: its notes alone have changed, and no tab knows.
LEMMA DoneInPlace ==
  ASSUME IInv, op # None, op.stage = "asked", NEW f, NEW h,
         \A p \in Paths \ {op.from, op.to} : f[p] = files[p] /\ h[p] = home[p],
         op.kind # "delete" => files[op.to] = None /\ f[op.to] # None,
         op.kind # "create" => f[op.from] = None,
         NEW o \in Operation, o.kind = op.kind, o.from = op.from, o.to = op.to, o.stage = "done",
         o.kind = "create" => o.note # None
  PROVE  World(f, h, tabs, active, view, pane, slots, loads, o)
<1>1. /\ OpFits(op) /\ OpQuiet(op, pane, slots) /\ loads = << >> /\ o # None
      /\ op.from \in Paths \cup {None} /\ op.to \in Paths \cup {None}
      /\ op.kind \in {"create", "move", "delete"}
  BY WhileUnderWay, OpIsNotNone
<1>2. \A i \in DOMAIN tabs : tabs[i].path \in Paths /\ files[tabs[i].path] # None
  <2>1. tabs \in Seq(Tab) /\ DOMAIN tabs = 1..Len(tabs)
    BY LenProperties DEF IInv, World, TabsFit
  <2>2. \A i \in DOMAIN tabs : tabs[i] \in Tab
    BY <2>1, ElementOfSeq
  <2>3. \A p : ~Gone(op, p)
    BY DEF Gone
  <2> QED BY <1>1, <2>2, <2>3, AtRest DEF Tab
<1>3. op.kind # "delete" => op.to \in Paths /\ ~HasTab(tabs, op.to)
  BY <1>1, <1>2 DEF OpFits, HasTab
<1>4. op.kind = "delete" => op.to = None
  BY <1>1 DEF OpFits
<1>5. \A p \in Paths : p \in {op.from, op.to} => p # None /\ Quiet(pane, slots, p)
  BY <1>1, WorkspaceAssumption DEF OpQuiet
<1>6. SlotsInPlace(h, slots)
  <2> SUFFICES ASSUME NEW p \in Paths PROVE SlotInPlace(h, slots[p], p)
    BY DEF SlotsInPlace
  <2>1. CASE p \in {op.from, op.to}
    BY <1>5, <2>1 DEF SlotInPlace, Quiet, Still
  <2>2. CASE p \notin {op.from, op.to}
    BY <2>2 DEF IInv, World, SlotsInPlace, SlotInPlace, Of
  <2> QED BY <2>1, <2>2
<1>7. pane.loaded \in Paths \cup {None}
  BY DEF IInv, World, PaneFits, Pane
<1>8. HeldInPlace(h, pane)
  BY <1>5, <1>7 DEF IInv, World, HeldInPlace, Of, Quiet
<1>9. ScreenInPlace(h, tabs, pane, o)
  <2> SUFFICES ASSUME pane.loaded # None, HasTab(tabs, pane.loaded), ~Gone(o, pane.loaded)
               PROVE  Of(h, pane.screen, pane.loaded)
    BY DEF ScreenInPlace
  <2>1. pane.loaded \in Paths \ {op.from, op.to}
    BY <1>1, <1>3, <1>4, <1>7 DEF Gone
  <2>2. Of(home, pane.screen, pane.loaded)
    BY DEF IInv, World, ScreenInPlace, Gone
  <2> QED BY <2>1, <2>2 DEF Of
<1>10. TabsInPlace(f, tabs, active, view, pane, o)
  <2> SUFFICES ASSUME NEW i \in DOMAIN tabs, tabs[i].path # op.from PROVE f[tabs[i].path] # None
    BY <1>1 DEF TabsInPlace, Gone
  <2>1. tabs[i].path \in Paths \ {op.from, op.to}
    BY <1>2, <1>3, <1>4, WorkspaceAssumption DEF HasTab
  <2> QED BY <1>2, <2>1
<1>11. OpInPlace(f, o, tabs, pane, slots)
  <2>1. OpFits(o)
    BY <1>1 DEF OpFits
  <2>2. OpQuiet(o, pane, slots)
    BY <1>1 DEF OpQuiet
  <2>3. OpDone(f, o, tabs)
    BY <1>3 DEF OpDone
  <2> QED BY <2>1, <2>2, <2>3 DEF OpInPlace
<1>12. ReadsInPlace(f, loads, tabs[active].path, pane, o) /\ NotAlone(f, tabs, active, slots, loads)
  BY <1>1 DEF ReadsInPlace, NotAlone
<1> QED BY <1>6, <1>8, <1>9, <1>10, <1>11, <1>12 DEF IInv, World

\* The server refused, or what it did has been told: the operation alone is another.
LEMMA OpEndsKeeps ==
  ASSUME IInv, op # None, op.stage # "done", NEW o \in Operation \cup {None},
         o # None => o.stage = "failed" /\ o.kind = op.kind /\ o.from = op.from /\ o.to = op.to,
         op' = o, UNCHANGED <<files, home, tabs, active, view, pane, slots, loads, typed, left>>
  PROVE  IInv'
<1>1. OpFits(op) /\ OpQuiet(op, pane, slots) /\ loads = << >>
  BY WhileUnderWay
<1>2. OpInPlace(files, o, tabs, pane, slots)
  BY <1>1 DEF OpInPlace, OpFits, OpQuiet
<1>3. \A p : ~Gone(o, p) /\ ~Gone(op, p)
  BY DEF Gone
<1>4. ScreenInPlace(home, tabs, pane, o) /\ TabsInPlace(files, tabs, active, view, pane, o)
  BY <1>3 DEF IInv, World, ScreenInPlace, TabsInPlace
<1>5. ReadsInPlace(files, loads, tabs[active].path, pane, o)
  BY <1>1 DEF ReadsInPlace
<1>6. World(files, home, tabs, active, view, pane, slots, loads, o)
  BY <1>2, <1>4, <1>5 DEF IInv, World
<1>7. RestFits(op, typed, left)'
  BY DEF IInv, RestFits
<1> QED BY <1>6, <1>7, Concluded

LEMMA OpFailsKeeps ==
  ASSUME IInv, OpFails
  PROVE  IInv'
BY OpEndsKeeps DEF OpFails, ui

\* The operation with the stage the server has brought it to.
LEMMA StageFits ==
  ASSUME IInv, op # None, NEW o, NEW stage \in {"done", "failed"}, NEW note \in MaybeText,
         o = [op EXCEPT !.stage = stage, !.note = note]
  PROVE  o \in Operation /\ o.kind = op.kind /\ o.from = op.from /\ o.to = op.to
         /\ o.stage = stage /\ o.note = note
<1>1. op \in Operation
  BY WhileUnderWay
<1> QED BY <1>1 DEF Operation

LEMMA SameNote ==
  ASSUME IInv, op # None, NEW stage
  PROVE  /\ op.note \in MaybeText
         /\ [op EXCEPT !.stage = stage] = [op EXCEPT !.stage = stage, !.note = op.note]
<1>1. op \in Operation
  BY WhileUnderWay
<1> QED BY <1>1 DEF Operation

\* A refusal.
LEMMA OpRefusedKeeps ==
  ASSUME IInv, op # None, op.stage = "asked", op' = [op EXCEPT !.stage = "failed"],
         UNCHANGED <<files, home, tabs, active, view, pane, loads, slots, typed, left>>
  PROVE  IInv'
<1>1. PICK o : o = [op EXCEPT !.stage = "failed"]
  OBVIOUS
<1>2. o \in Operation /\ o.kind = op.kind /\ o.from = op.from /\ o.to = op.to /\ o.stage = "failed"
  BY <1>1, SameNote, StageFits
<1> QED BY <1>1, <1>2, OpEndsKeeps

LEMMA ServerCreatesKeeps ==
  ASSUME IInv, NEW n \in Fresh, ServerCreates(n)
  PROVE  IInv'
<1>1. PICK text : text = [note |-> n, edits |-> {}]
  OBVIOUS
<1>2. op # None /\ op.kind = "create" /\ op.stage = "asked"
      /\ UNCHANGED <<tabs, active, view, pane, loads, slots, typed, left>>
  BY DEF ServerCreates, ui
<1>3. op.to \in Paths /\ op.from = None
  BY <1>2, WhileUnderWay DEF OpFits
<1>4. CASE files[op.to] # None
  BY <1>2, <1>4, OpRefusedKeeps DEF ServerCreates
<1>5. CASE files[op.to] = None
  <2>1. PICK o : o = [op EXCEPT !.stage = "done", !.note = text]
    OBVIOUS
  <2>2. files' = [files EXCEPT ![op.to] = text] /\ home' = [home EXCEPT ![op.to] = n] /\ op' = o
    BY <1>1, <1>5, <2>1 DEF ServerCreates
  <2>3. text \in Text /\ text # None /\ text \in MaybeText /\ text.note = n
    BY <1>1, WorkspaceAssumption DEF Text, MaybeText, Notes
  <2>4. n \in Notes /\ n # None
    BY WorkspaceAssumption DEF Notes
  <2>5. files \in [Paths -> MaybeText] /\ home \in [Paths -> Notes \cup {None}]
    BY DEF IInv, StoreFits
  <2>6. StoreFits(files', home')
    BY <1>3, <2>2, <2>3, <2>4, <2>5 DEF StoreFits
  <2>7. \A p \in Paths : /\ files'[p] = IF p = op.to THEN text ELSE files[p]
                         /\ home'[p] = IF p = op.to THEN n ELSE home[p]
    BY <2>2, <2>5
  <2>8. FilesInPlace(files', home')
    BY <2>3, <2>4, <2>7 DEF IInv, FilesInPlace
  <2>9. o \in Operation /\ o.kind = op.kind /\ o.from = op.from /\ o.to = op.to
        /\ o.stage = "done" /\ o.note = text
    BY <1>2, <2>1, <2>3, StageFits
  <2>10. World(files', home', tabs, active, view, pane, slots, loads, o)
    BY <1>2, <1>3, <1>5, <2>3, <2>7, <2>9, DoneInPlace
  <2>11. RestFits(op, typed, left)'
    BY <1>2, <2>2, <2>9 DEF IInv, RestFits
  <2> QED BY <1>2, <2>2, <2>6, <2>8, <2>10, <2>11 DEF IInv
<1> QED BY <1>4, <1>5

LEMMA ServerMovesKeeps ==
  ASSUME IInv, ServerMoves
  PROVE  IInv'
<1>1. op # None /\ op.kind = "move" /\ op.stage = "asked"
      /\ UNCHANGED <<tabs, active, view, pane, loads, slots, typed, left>>
  BY DEF ServerMoves, ui
<1>2. op.to \in Paths /\ op.from \in Paths /\ op.from # op.to
  BY <1>1, WhileUnderWay DEF OpFits
<1>3. CASE files[op.from] = None \/ files[op.to] # None
  BY <1>1, <1>3, OpRefusedKeeps DEF ServerMoves
<1>4. CASE files[op.from] # None /\ files[op.to] = None
  <2>1. PICK o : o = [op EXCEPT !.stage = "done"]
    OBVIOUS
  <2>2. /\ files' = [files EXCEPT ![op.to] = files[op.from], ![op.from] = None]
        /\ home' = [home EXCEPT ![op.to] = home[op.from], ![op.from] = None] /\ op' = o
    BY <1>4, <2>1 DEF ServerMoves
  <2>3. files \in [Paths -> MaybeText] /\ home \in [Paths -> Notes \cup {None}]
    BY DEF IInv, StoreFits
  <2>4. StoreFits(files', home')
    BY <1>2, <2>2, <2>3 DEF StoreFits, MaybeText
  <2>5. \A p \in Paths :
          /\ files'[p] = IF p = op.from THEN None ELSE IF p = op.to THEN files[op.from] ELSE files[p]
          /\ home'[p] = IF p = op.from THEN None ELSE IF p = op.to THEN home[op.from] ELSE home[p]
    BY <1>2, <2>2, <2>3
  <2>6. FilesInPlace(files', home')
    BY <1>2, <2>5 DEF IInv, FilesInPlace
  <2>7. o \in Operation /\ o.kind = op.kind /\ o.from = op.from /\ o.to = op.to /\ o.stage = "done"
    BY <1>1, <2>1, SameNote, StageFits
  <2>8. World(files', home', tabs, active, view, pane, slots, loads, o)
    BY <1>1, <1>2, <1>4, <2>5, <2>7, DoneInPlace
  <2>9. RestFits(op, typed, left)'
    BY <1>1, <2>2, <2>7 DEF IInv, RestFits
  <2> QED BY <1>1, <2>2, <2>4, <2>6, <2>8, <2>9 DEF IInv
<1> QED BY <1>3, <1>4

LEMMA ServerDeletesKeeps ==
  ASSUME IInv, ServerDeletes
  PROVE  IInv'
<1>1. op # None /\ op.kind = "delete" /\ op.stage = "asked"
      /\ UNCHANGED <<tabs, active, view, pane, loads, slots, typed, left>>
  BY DEF ServerDeletes, ui
<1>2. op.from \in Paths
  BY <1>1, WhileUnderWay DEF OpFits
<1>3. CASE files[op.from] = None
  BY <1>1, <1>3, OpRefusedKeeps DEF ServerDeletes
<1>4. CASE files[op.from] # None
  <2>1. PICK o : o = [op EXCEPT !.stage = "done"]
    OBVIOUS
  <2>2. /\ files' = [files EXCEPT ![op.from] = None]
        /\ home' = [home EXCEPT ![op.from] = None] /\ op' = o
    BY <1>4, <2>1 DEF ServerDeletes
  <2>3. files \in [Paths -> MaybeText] /\ home \in [Paths -> Notes \cup {None}]
    BY DEF IInv, StoreFits
  <2>4. StoreFits(files', home')
    BY <1>2, <2>2, <2>3 DEF StoreFits, MaybeText
  <2>5. \A p \in Paths : /\ files'[p] = IF p = op.from THEN None ELSE files[p]
                         /\ home'[p] = IF p = op.from THEN None ELSE home[p]
    BY <1>2, <2>2, <2>3
  <2>6. FilesInPlace(files', home')
    BY <1>2, <2>5 DEF IInv, FilesInPlace
  <2>7. o \in Operation /\ o.kind = op.kind /\ o.from = op.from /\ o.to = op.to /\ o.stage = "done"
    BY <1>1, <2>1, SameNote, StageFits
  <2>8. World(files', home', tabs, active, view, pane, slots, loads, o)
    BY <1>1, <1>2, <1>4, <2>5, <2>7, DoneInPlace
  <2>9. RestFits(op, typed, left)'
    BY <1>1, <2>2, <2>7 DEF IInv, RestFits
  <2> QED BY <1>1, <2>2, <2>4, <2>6, <2>8, <2>9 DEF IInv
<1> QED BY <1>3, <1>4

\* The answer to an operation settles tabs that all have a note, and nothing else goes on.
LEMMA AnsweredKeeps ==
  ASSUME IInv, op # None, NEW t, NEW a, NEW v, TabsFit(t, a, v),
         \A j \in DOMAIN t : files[t[j].path] # None,
         pane.loaded # None /\ HasTab(t, pane.loaded) => ~Gone(op, pane.loaded),
         NEW s, s \in Slots, SlotsInPlace(home, s),
         Settles(t, a, v, pane, s, loads), op' = None, UNCHANGED <<files, home, typed, left>>
  PROVE  IInv'
<1>1. loads = << >>
  BY WhileUnderWay
<1>2. PaneFits(pane, s, loads) /\ HeldInPlace(home, pane)
  BY DEF IInv, World, PaneFits
<1>3. ScreenInPlace(home, t, pane, None)
  BY <1>1, AtRest DEF IInv, World, ScreenInPlace
<1>4. OpInPlace(files, None, t, pane, s) /\ TabsInPlace(files, t, a, v, pane, None)
  BY DEF OpInPlace, TabsInPlace
<1>5. ReadsInPlace(files, loads, t[a].path, pane, None) /\ NotAlone(files, t, a, s, loads)
  BY <1>1 DEF ReadsInPlace, NotAlone
<1>6. Moves(t, a, v, pane) => NewNotAlone(files, t, a, pane, s, loads)
  BY FrontIsATab DEF Moves, Shown, NewNotAlone
<1>7. Ready(files, home, t, a, v, pane, s, loads, None)
  BY <1>1, <1>2, <1>3, <1>4, <1>5, <1>6 DEF Ready
<1>8. World(files, home, tabs', active', view', pane', slots', loads', None)
  BY <1>7, EffectsInPlace
<1>9. RestFits(op, typed, left)'
  BY DEF IInv, RestFits
<1> QED BY <1>8, <1>9, Concluded

\* The tabs before the answer: each of a note that is there, but for one that has gone.
LEMMA TabsBefore ==
  ASSUME IInv, op # None
  PROVE  /\ tabs \in Seq(Tab) /\ Distinct(tabs) /\ TabsFit(tabs, active, view)
         /\ DOMAIN tabs = 1..Len(tabs) /\ Len(tabs) \in Nat
         /\ \A i \in DOMAIN tabs : /\ tabs[i].path \in Paths
                                   /\ files[tabs[i].path] # None \/ Gone(op, tabs[i].path)
         /\ pane.loaded # None => HasTab(tabs, pane.loaded)
<1>1. tabs \in Seq(Tab) /\ DOMAIN tabs = 1..Len(tabs) /\ Len(tabs) \in Nat
  BY LenProperties DEF IInv, World, TabsFit
<1>2. \A i \in DOMAIN tabs : tabs[i] \in Tab
  BY <1>1, ElementOfSeq
<1>3. loads = << >>
  BY WhileUnderWay
<1> QED BY <1>1, <1>2, <1>3, AtRest DEF IInv, World, TabsFit, Tab

LEMMA CreateAnsweredKeeps ==
  ASSUME IInv, CreateAnswered
  PROVE  IInv'
<1>1. PICK u, t : u = OpenTab(tabs, op.to) /\ t = Hashed(u, op.to, op.note)
  OBVIOUS
<1>2. PICK s : s = Opened(slots, op.to, op.note)
  OBVIOUS
<1>3. /\ op # None /\ op.kind = "create" /\ op.stage = "done"
      /\ Settles(t, TabAt(t, op.to), "Editor", pane, s, loads)
      /\ op' = None /\ UNCHANGED <<files, home, typed, left>>
  BY <1>1, <1>2 DEF CreateAnswered
<1>4. /\ op \in Operation /\ op.to \in Paths /\ op.from = None /\ op.note \in MaybeText
      /\ ~HasTab(tabs, op.to) /\ files[op.to] # None
  BY <1>3, WhileUnderWay DEF OpFits, OpDone, Operation
<1>5. /\ tabs \in Seq(Tab) /\ Distinct(tabs) /\ DOMAIN tabs = 1..Len(tabs) /\ Len(tabs) \in Nat
      /\ \A i \in DOMAIN tabs : tabs[i].path \in Paths /\ files[tabs[i].path] # None
  <2>1. \A p \in Paths : ~Gone(op, p)
    BY <1>4, WorkspaceAssumption DEF Gone
  <2> QED BY <1>3, <2>1, TabsBefore
<1>6. /\ u \in Seq(Tab) /\ Distinct(u) /\ Len(u) = Len(tabs) + 1 /\ u[Len(u)].path = op.to
      /\ \A i \in 1..Len(tabs) : u[i] = tabs[i]
  BY <1>1, <1>4, <1>5, NewTabOpens
<1>7. DOMAIN u = 1..Len(u) /\ Len(u) \in DOMAIN u /\ u # << >>
  BY <1>5, <1>6, LenProperties, EmptySeq
<1>8. TabsFit(u, Len(u), "Editor")
  BY <1>6, <1>7 DEF TabsFit
<1>9. SameTabs(u, t)
  BY <1>1, <1>4, <1>6, HashedIsSame
<1>10. TabsFit(t, Len(u), "Editor") /\ t[Len(u)].path = op.to
  BY <1>6, <1>7, <1>8, <1>9, SameTabsFit DEF SameTabs
<1>11. TabAt(t, op.to) = Len(u)
  <2>1. HasTab(t, op.to) /\ t \in Seq(Tab) /\ Distinct(t) /\ DOMAIN t = 1..Len(t) /\ Len(u) \in DOMAIN t
    BY <1>7, <1>9, <1>10, LenProperties DEF HasTab, TabsFit, SameTabs
  <2> QED BY <1>10, <2>1, TabAtFinds DEF Distinct
<1>12. \A j \in DOMAIN t : files[t[j].path] # None
  <2> SUFFICES ASSUME NEW j \in DOMAIN t PROVE files[t[j].path] # None
    OBVIOUS
  <2>1. j \in 1..(Len(tabs) + 1) /\ t[j].path = u[j].path
    BY <1>6, <1>7, <1>9 DEF SameTabs
  <2>2. CASE j = Len(u)
    BY <1>4, <1>6, <2>1, <2>2
  <2>3. CASE j # Len(u)
    BY <1>5, <1>6, <2>1, <2>3
  <2> QED BY <2>2, <2>3
<1>13. s \in Slots /\ SlotsInPlace(home, s)
  BY <1>2, <1>4, OpenedFits
<1>14. pane.loaded # None => ~Gone(op, pane.loaded)
  BY <1>4 DEF Gone
<1> QED BY <1>3, <1>10, <1>11, <1>12, <1>13, <1>14, AnsweredKeeps

LEMMA MoveAnsweredKeeps ==
  ASSUME IInv, MoveAnswered
  PROVE  IInv'
<1>1. PICK t : t = RenameTab(tabs, op.from, op.to)
  OBVIOUS
<1>2. /\ op # None /\ op.kind = "move" /\ op.stage = "done"
      /\ Settles(t, active, view, pane, slots, loads)
      /\ op' = None /\ UNCHANGED <<files, home, typed, left>>
  BY <1>1 DEF MoveAnswered
<1>3. /\ op.to \in Paths /\ op.from \in Paths /\ op.from # op.to
      /\ ~HasTab(tabs, op.to) /\ files[op.to] # None
  BY <1>2, WhileUnderWay DEF OpFits, OpDone
<1>4. /\ tabs \in Seq(Tab) /\ Distinct(tabs) /\ TabsFit(tabs, active, view)
      /\ \A i \in DOMAIN tabs : files[tabs[i].path] # None \/ tabs[i].path = op.from
  BY <1>2, TabsBefore DEF Gone
<1>5. /\ t \in Seq(Tab) /\ Distinct(t) /\ Len(t) = Len(tabs) /\ DOMAIN t = DOMAIN tabs
      /\ \A i \in DOMAIN tabs : t[i].path = IF tabs[i].path = op.from THEN op.to ELSE tabs[i].path
      /\ ~HasTab(t, op.from)
  BY <1>1, <1>3, <1>4, TabRenames
<1>6. TabsFit(t, active, view)
  <2>1. t = << >> <=> tabs = << >>
    BY <1>4, <1>5, EmptySeq
  <2> QED BY <1>4, <1>5, <2>1 DEF TabsFit
<1>7. \A j \in DOMAIN t : files[t[j].path] # None
  BY <1>3, <1>4, <1>5
<1>8. HasTab(t, pane.loaded) => ~Gone(op, pane.loaded)
  BY <1>5 DEF Gone
<1>9. slots \in Slots /\ SlotsInPlace(home, slots)
  BY DEF IInv, World, PaneFits
<1> QED BY <1>2, <1>6, <1>7, <1>8, <1>9, AnsweredKeeps

LEMMA DeleteAnsweredKeeps ==
  ASSUME IInv, DeleteAnswered
  PROVE  IInv'
<1>1. PICK t : t = CloseTabsUnder(tabs, op.from)
  OBVIOUS
<1>2. /\ op # None /\ op.kind = "delete" /\ op.stage = "done"
      /\ Settles(t, Len(t), view, pane, slots, loads)
      /\ op' = None /\ UNCHANGED <<files, home, typed, left>>
  BY <1>1 DEF DeleteAnswered
<1>3. /\ tabs \in Seq(Tab) /\ Distinct(tabs) /\ TabsFit(tabs, active, view)
      /\ \A i \in DOMAIN tabs : files[tabs[i].path] # None \/ tabs[i].path = op.from
  BY <1>2, TabsBefore DEF Gone
<1>4. t \in Seq(Tab) /\ Distinct(t) /\ Fewer(tabs, t) /\ ~HasTab(t, op.from)
  BY <1>1, <1>3, TabsUnderClose
<1>5. TabsFit(t, Len(t), view)
  BY <1>3, <1>4, EmptySeq, LenProperties DEF TabsFit
<1>6. \A j \in DOMAIN t : files[t[j].path] # None
  BY <1>3, <1>4 DEF Fewer, HasTab
<1>7. HasTab(t, pane.loaded) => ~Gone(op, pane.loaded)
  BY <1>4 DEF Gone
<1>8. slots \in Slots /\ SlotsInPlace(home, slots)
  BY DEF IInv, World, PaneFits
<1> QED BY <1>2, <1>5, <1>6, <1>7, <1>8, AnsweredKeeps

-----------------------------------------------------------------------------
(***************************************************************************)
(* The theorems.                                                           *)
(***************************************************************************)

LEMMA InvInit ==
  ASSUME Init
  PROVE  IInv
<1>1. /\ files = [p \in Paths |-> IF p \in Birth THEN [note |-> p, edits |-> {}] ELSE None]
      /\ home = [p \in Paths |-> IF p \in Birth THEN p ELSE None]
      /\ tabs = << >> /\ active = 0 /\ view = "Editor" /\ pane = Blank /\ loads = << >>
      /\ slots = [p \in Paths |-> [queued |-> None, base |-> None, blocked |-> FALSE,
                                   stage |-> "idle", text |-> None, token |-> None]]
      /\ op = None /\ typed = << >>
      /\ left = [ops |-> MaxOps, rereads |-> MaxRereads, saves |-> MaxSaves]
  BY DEF Init
<1>2. \A p \in Birth : [note |-> p, edits |-> {}] \in Text /\ p # None
  BY WorkspaceAssumption DEF Text, Notes
<1>3. StoreFits(files, home)
  BY <1>1, <1>2 DEF StoreFits, MaybeText, Notes
<1>4. FilesInPlace(files, home)
  BY <1>1, <1>2, TextIsOfANote DEF FilesInPlace
<1>5. RestFits(op, typed, left)
  BY <1>1, EmptySeq, WorkspaceAssumption DEF RestFits
<1>6. TabsFit(tabs, active, view)
  BY <1>1, EmptySeq DEF TabsFit, Distinct
<1>7. slots \in Slots /\ SlotsInPlace(home, slots)
  BY <1>1 DEF Slots, Slot, Stages, MaybeText, SlotsInPlace, SlotInPlace
<1>8. pane \in Pane /\ ~pane.up /\ pane.loaded = None /\ pane.pending = None /\ pane.timer = None
  BY <1>1 DEF Blank, Pane, MaybeText
<1>9. PaneFits(pane, slots, loads)
  BY <1>1, <1>7, <1>8, EmptySeq DEF PaneFits
<1>10. OpInPlace(files, op, tabs, pane, slots) /\ ScreenInPlace(home, tabs, pane, op)
       /\ HeldInPlace(home, pane) /\ ReadsInPlace(files, loads, tabs[active].path, pane, op)
       /\ NotAlone(files, tabs, active, slots, loads)
  BY <1>1, <1>8 DEF OpInPlace, ScreenInPlace, HeldInPlace, ReadsInPlace, NotAlone
<1>11. TabsInPlace(files, tabs, active, view, pane, op) /\ FrontInPlace(tabs, active, view, pane, loads)
  BY <1>1, <1>8 DEF TabsInPlace, FrontInPlace, Moves, Shown
<1> QED BY <1>3, <1>4, <1>5, <1>6, <1>7, <1>9, <1>10, <1>11 DEF IInv, World

LEMMA InvStutter ==
  ASSUME IInv, UNCHANGED vars
  PROVE  IInv'
<1>1. UNCHANGED <<files, home, tabs, active, view, pane, loads, slots, op, typed, left>>
  BY DEF vars
<1>2. RestFits(op, typed, left)' /\ World(files, home, tabs', active', view', pane', slots', loads', op')
  BY <1>1 DEF IInv, RestFits
<1> QED BY <1>1, <1>2, Concluded

LEMMA UserKeeps ==
  ASSUME IInv, Hasty \subseteq {"leaving"}, User
  PROVE  IInv'
<1>1. ASSUME NEW p \in Paths, Opens(p) PROVE IInv'
  BY <1>1, OpensKeeps
<1>2. ASSUME NEW p \in Paths, AsksCreate(p) PROVE IInv'
  BY <1>2, AsksKeeps DEF AsksCreate
<1>3. ASSUME NEW p \in Paths, FollowsLink(p) PROVE IInv'
  BY <1>1, <1>2, <1>3 DEF FollowsLink
<1>4. ASSUME NEW p \in Paths, AsksDelete(p) PROVE IInv'
  BY <1>4, AsksKeeps DEF AsksDelete
<1>5. ASSUME NEW p \in Paths, NEW q \in Paths, AsksMove(p, q) PROVE IInv'
  BY <1>5, AsksKeeps DEF AsksMove
<1>6. ASSUME NEW i \in DOMAIN tabs, ClicksTab(i) \/ Closes(i) PROVE IInv'
  BY <1>6, ClicksTabKeeps, ClosesKeeps
<1>7. ASSUME NEW v \in {"Editor", "Graph"}, ShowsGraph(v) PROVE IInv'
  BY <1>7, ShowsGraphKeeps
<1>8. CASE Types \/ PressesSave
  BY <1>8, TypesKeeps, PressesSaveKeeps
<1> QED BY <1>1, <1>2, <1>3, <1>4, <1>5, <1>6, <1>7, <1>8 DEF User

LEMMA InvStep ==
  ASSUME IInv, Hasty \subseteq {"leaving"}, [Next]_vars
  PROVE  IInv'
<1>1. CASE User
  BY <1>1, UserKeeps
<1>2. CASE TimerFires \/ Rereads
  BY <1>2, TimerFiresKeeps, RereadsKeeps
<1>3. CASE Answers
  BY <1>3, LoadAnsweredKeeps, LoadFailsKeeps DEF Answers
<1>4. CASE OpRuns
  BY <1>4, ServerCreatesKeeps, ServerMovesKeeps, ServerDeletesKeeps, CreateAnsweredKeeps,
     MoveAnsweredKeeps, DeleteAnsweredKeeps, OpFailsKeeps DEF OpRuns
<1>5. ASSUME NEW p \in Paths, Saves(p) PROVE IInv'
  BY <1>5, ResolvesKeeps, ServerSavesKeeps, SavedKeeps, RefusedKeeps DEF Saves
<1>6. CASE UNCHANGED vars
  BY <1>6, InvStutter
<1> QED BY <1>1, <1>2, <1>3, <1>4, <1>5, <1>6 DEF Next

LEMMA InvImplies ==
  ASSUME IInv
  PROVE  TypeOK /\ NotesKeptApart
<1>1. TypeOK
  BY DEF IInv, World, StoreFits, TabsFit, PaneFits, RestFits, TypeOK, Tab, Distinct, Pane, Timer,
         Read, Slot, Slots
<1>2. ASSUME pane.up, ~Waiting, op = None
      PROVE  pane.loaded = tabs[active].path /\ pane.screen.note = home[pane.loaded]
  <2>1. loads = << >> /\ ~Gone(op, pane.loaded)
    BY <1>2, NothingAwaited DEF Gone
  <2>2. Shown(tabs, view) /\ pane.loaded = tabs[active].path
    BY <1>2, <2>1, AtRest DEF Moves
  <2>3. pane.loaded # None
    BY <2>2, FrontIsATab, WorkspaceAssumption DEF IInv, World, Shown
  <2>4. Of(home, pane.screen, pane.loaded)
    BY <2>1, <2>3, HandIsOfANote
  <2> QED BY <2>2, <2>4 DEF Of
<1>3. NotesKeptApart
  BY <1>2 DEF NotesKeptApart, IInv, FilesInPlace
<1> QED BY <1>1, <1>3

LEMMA InvHolds ==
  ASSUME Hasty \subseteq {"leaving"}
  PROVE  Spec => []IInv
<1>1. Init => IInv
  BY InvInit
<1>2. IInv /\ [Next]_vars => IInv'
  BY InvStep
<1> QED BY <1>1, <1>2, PTL DEF Spec

\* Whatever notes are opened, written, moved and deleted, every value keeps its shape, a
\* tab is in front whenever there is one, and no two tabs hold one note (state.rs).
THEOREM TypeCorrect ==
  ASSUME Hasty \subseteq {"leaving"}
  PROVE  Spec => []TypeOK
<1>1. IInv => TypeOK
  BY InvImplies
<1> QED BY <1>1, InvHolds, PTL

\* No note's text is written over another's, and the editor holds the note of the tab in
\* front once its reads are answered, for a user who waits for what was asked
\* (editor_pane.rs, the load effect; save.rs, one run per path).
THEOREM EachNoteKeepsItsText ==
  ASSUME Hasty \subseteq {"leaving"}
  PROVE  Spec => []NotesKeptApart
<1>1. IInv => NotesKeptApart
  BY InvImplies
<1> QED BY <1>1, InvHolds, PTL
=============================================================================
