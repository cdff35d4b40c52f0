-------------------------- MODULE VaultIndex_proof -------------------------
(***************************************************************************)
(* What VaultIndex keeps, for any notes, keys, requests and bounds: the    *)
(* table's keys, the healing of links whatever overlaps, and, when what    *)
(* overlaps is over before the watcher hears of it, that the index catches *)
(* up with the files and that the reconcile finds what a crash left.       *)
(***************************************************************************)
EXTENDS VaultIndex, FiniteSetTheorems, WellFoundedInduction, TLAPS

(***************************************************************************)
(* Types.                                                                  *)
(***************************************************************************)
Row    == [id : Nat, text : Texts, time : Int, target : Nat \cup {Nothing}]
Vaults == UNION {[S -> Texts] : S \in SUBSET NotePath}
Tables == UNION {[S -> Row] : S \in SUBSET NotePath}
Places == {"off", "scan", "list", "each", "stat", "row", "outgoing", "keys", "unrow", "rerow"}
TaskState ==
  [at : Places, path : NotePath \cup {Nothing}, to : NotePath \cup {Nothing},
   text : Texts \cup {Nothing}, time : Int, row : Nat, todo : SUBSET NotePath,
   found : Vaults, listed : Tables]

Types ==
  /\ files \in Vaults /\ rows \in Tables /\ events \subseteq NotePath
  /\ task \in [Task -> TaskState]
  /\ clock \in Nat /\ issued \in Nat /\ crashes \in Nat

\* The locals that a task's place gives a meaning.
Fits(t) ==
  /\ t.at \in {"stat", "row", "unrow", "rerow", "outgoing", "keys"} => t.path \in NotePath
  /\ t.at \in {"stat", "row"} => t.text \in Texts
  /\ t.at = "rerow" => t.to \in NotePath
AllFit == \A t \in Task : Fits(task[t])

\* A table whose ids are of one row each, given out already, and whose targets are
\* among them.
Ids(r) == {r[q].id : q \in DOMAIN r}
Keyed(r, n) ==
  /\ \A p, q \in DOMAIN r : r[p].id = r[q].id => p = q
  /\ \A p \in DOMAIN r : r[p].id \in 1..n /\ r[p].target \in Ids(r) \cup {Nothing}

TypeInv == Types /\ AllFit /\ Keyed(rows, issued)

-----------------------------------------------------------------------------
(***************************************************************************)
(* Files and rows written, taken out and renamed.                          *)
(***************************************************************************)
LEMMA AVault ==
  ASSUME NEW f
  PROVE  f \in Vaults <=> DOMAIN f \subseteq NotePath /\ f \in [DOMAIN f -> Texts]
BY DEF Vaults

LEMMA ATable ==
  ASSUME NEW f
  PROVE  f \in Tables <=> DOMAIN f \subseteq NotePath /\ f \in [DOMAIN f -> Row]
BY DEF Tables

LEMMA NoVault == <<>> \in Vaults /\ <<>> \in Tables
<1>1. <<>> \in [{} -> Texts] /\ <<>> \in [{} -> Row]
  OBVIOUS
<1> QED
  BY <1>1 DEF Vaults, Tables

LEMMA WrittenIs ==
  ASSUME NEW f, NEW path, NEW what
  PROVE  /\ DOMAIN Written(f, path, what) = DOMAIN f \cup {path}
         /\ Written(f, path, what)[path] = what
         /\ \A p \in DOMAIN f : p # path => Written(f, path, what)[p] = f[p]
BY DEF Written

LEMMA WithoutIs ==
  ASSUME NEW f, NEW path
  PROVE  /\ DOMAIN Without(f, path) = DOMAIN f \ {path}
         /\ \A p \in DOMAIN f \ {path} : Without(f, path)[p] = f[p]
BY DEF Without, Restrict

RenamedTo(f, g, from, to) ==
  /\ DOMAIN g = (DOMAIN f \ {from}) \cup {to} /\ g[to] = f[from]
  /\ \A p \in DOMAIN f \ {from} : g[p] = f[p]

LEMMA RenamedIs ==
  ASSUME NEW f, NEW from, NEW to, from \in DOMAIN f, to \notin DOMAIN f
  PROVE  RenamedTo(f, Renamed(f, from, to), from, to)
<1> DEFINE g == Without(f, from)
<1>1. DOMAIN g = DOMAIN f \ {from} /\ \A p \in DOMAIN f \ {from} : g[p] = f[p]
  BY WithoutIs
<1>2. Renamed(f, from, to) = Written(g, to, f[from])
  BY DEF Renamed
<1> HIDE DEF g
<1>3. /\ DOMAIN Written(g, to, f[from]) = DOMAIN g \cup {to}
      /\ Written(g, to, f[from])[to] = f[from]
      /\ \A p \in DOMAIN g : p # to => Written(g, to, f[from])[p] = g[p]
  BY DEF Written
<1> QED
  BY <1>1, <1>2, <1>3 DEF RenamedTo

LEMMA VaultsKept ==
  ASSUME NEW f \in Vaults, NEW path \in NotePath
  PROVE  /\ \A x \in Texts : Written(f, path, x) \in Vaults
         /\ Without(f, path) \in Vaults
         /\ \A to \in NotePath : path \in DOMAIN f => Renamed(f, path, to) \in Vaults
<1>1. ASSUME NEW g \in Vaults, NEW p \in NotePath, NEW x \in Texts
      PROVE  Written(g, p, x) \in Vaults
  <2>1. DOMAIN g \subseteq NotePath /\ g \in [DOMAIN g -> Texts]
    BY AVault
  <2>2. Written(g, p, x) \in [DOMAIN g \cup {p} -> Texts]
    BY <2>1 DEF Written
  <2> QED
    BY <2>1, <2>2 DEF Vaults
<1>2. Without(f, path) \in Vaults
  <2>1. DOMAIN f \subseteq NotePath /\ f \in [DOMAIN f -> Texts]
    BY AVault
  <2>2. Without(f, path) \in [DOMAIN f \ {path} -> Texts]
    BY <2>1 DEF Without, Restrict
  <2> QED
    BY <2>1, <2>2 DEF Vaults
<1>3. path \in DOMAIN f => f[path] \in Texts
  BY AVault
<1> QED
  BY <1>1, <1>2, <1>3 DEF Renamed

LEMMA TablesKept ==
  ASSUME NEW f \in Tables, NEW path \in NotePath
  PROVE  /\ \A x \in Row : Written(f, path, x) \in Tables
         /\ Without(f, path) \in Tables
         /\ \A to \in NotePath : Renamed(f, path, to) \in Tables
<1>1. ASSUME NEW g \in Tables, NEW p \in NotePath, NEW x \in Row
      PROVE  Written(g, p, x) \in Tables
  <2>1. DOMAIN g \subseteq NotePath /\ g \in [DOMAIN g -> Row]
    BY ATable
  <2>2. Written(g, p, x) \in [DOMAIN g \cup {p} -> Row]
    BY <2>1 DEF Written
  <2> QED
    BY <2>1, <2>2 DEF Tables
<1>2. Without(f, path) \in Tables
  <2>1. DOMAIN f \subseteq NotePath /\ f \in [DOMAIN f -> Row]
    BY ATable
  <2>2. Without(f, path) \in [DOMAIN f \ {path} -> Row]
    BY <2>1 DEF Without, Restrict
  <2> QED
    BY <2>1, <2>2 DEF Tables
<1>3. path \in DOMAIN f => f[path] \in Row
  BY ATable
<1> QED
  BY <1>1, <1>2, <1>3 DEF Renamed

-----------------------------------------------------------------------------
(***************************************************************************)
(* Resolution: it finds a note that answers to the key, or nothing when    *)
(* there is none, and depends on nothing but the notes that answer to it.  *)
(***************************************************************************)
LEMMA NamesIs ==
  ASSUME NEW key, NEW p
  PROVE  Names(key, p) <=> key \in KeysFor(p)
<1>1. Len(<<Last(p)>>) = 1
  OBVIOUS
<1> QED
  BY <1>1 DEF Names, KeysFor

LEMMA FirstOfAll ==
  ASSUME NEW S, S \subseteq NotePath, S # {}
  PROVE  \E p \in S : \A q \in S : Rank[p] <= Rank[q]
<1> DEFINE T == {Rank[p] : p \in S}
<1>1. Rank \in [NotePath -> Nat]
  BY IndexAssumption
<1>2. T \subseteq Nat /\ T # {}
  BY <1>1
<1>3. PICK x \in T : \A y \in T : ~ (<<y, x>> \in OpToRel(<, Nat))
  <2> HIDE DEF T
  <2> QED
    BY <1>2, NatLessThanWellFounded, WFMin
<1>4. \A y \in T : ~ (y < x)
  BY <1>2, <1>3 DEF OpToRel
<1>5. PICK p \in S : x = Rank[p]
  BY <1>3
<1>6. \A q \in S : Rank[p] <= Rank[q]
  BY <1>1, <1>4, <1>5
<1> QED
  BY <1>6

Answering(ids, key) == {p \in DOMAIN ids : key # Nothing /\ Names(key, p)}
FirstOf(S, key) ==
  IF key \in S THEN key ELSE CHOOSE p \in S : \A q \in S : Rank[p] <= Rank[q]

LEMMA ResolvesTo ==
  ASSUME NEW ids, NEW key
  PROVE  ResolveAmong(ids, key) = IF Answering(ids, key) = {} THEN Nothing
                                  ELSE ids[FirstOf(Answering(ids, key), key)]
BY DEF ResolveAmong, Answering, FirstOf

LEMMA FirstAnswers ==
  ASSUME NEW S, S \subseteq NotePath, S # {}, NEW key
  PROVE  FirstOf(S, key) \in S
<1>1. PICK p \in S : \A q \in S : Rank[p] <= Rank[q]
  BY FirstOfAll
<1> QED
  BY <1>1 DEF FirstOf

LEMMA ResolvesToOne ==
  ASSUME NEW ids, DOMAIN ids \subseteq NotePath, NEW key
  PROVE  \/ ResolveAmong(ids, key) = Nothing
         \/ \E p \in DOMAIN ids : key \in KeysFor(p) /\ ResolveAmong(ids, key) = ids[p]
<1>1. CASE Answering(ids, key) = {}
  BY <1>1, ResolvesTo
<1>2. CASE Answering(ids, key) # {}
  <2>1. Answering(ids, key) \subseteq NotePath
    BY DEF Answering
  <2>2. FirstOf(Answering(ids, key), key) \in Answering(ids, key)
    BY <1>2, <2>1, FirstAnswers
  <2>3. PICK p \in Answering(ids, key) : p = FirstOf(Answering(ids, key), key)
    BY <2>2
  <2>4. ResolveAmong(ids, key) = ids[p]
    BY <1>2, <2>3, ResolvesTo
  <2> QED
    BY <2>4, NamesIs DEF Answering
<1> QED
  BY <1>1, <1>2

LEMMA SameAnswers ==
  ASSUME NEW ids, NEW others, NEW key, DOMAIN ids \subseteq NotePath,
         \A p : key \in KeysFor(p) => /\ p \in DOMAIN ids <=> p \in DOMAIN others
                                      /\ p \in DOMAIN ids => ids[p] = others[p]
  PROVE  ResolveAmong(ids, key) = ResolveAmong(others, key)
<1>1. Answering(ids, key) = Answering(others, key)
  BY NamesIs DEF Answering
<1>2. ASSUME Answering(ids, key) # {}
      PROVE  ids[FirstOf(Answering(ids, key), key)] = others[FirstOf(Answering(ids, key), key)]
  <2>1. Answering(ids, key) \subseteq NotePath
    BY DEF Answering
  <2>2. FirstOf(Answering(ids, key), key) \in Answering(ids, key)
    BY <1>2, <2>1, FirstAnswers
  <2>3. PICK p \in Answering(ids, key) : p = FirstOf(Answering(ids, key), key)
    BY <2>2
  <2>4. ids[p] = others[p]
    BY <2>3, NamesIs DEF Answering
  <2> QED
    BY <2>3, <2>4
<1> QED
  BY <1>1, <1>2, ResolvesTo

-----------------------------------------------------------------------------
(***************************************************************************)
(* The tasks keep to their types.                                          *)
(***************************************************************************)
TaskInv == task \in [Task -> TaskState] /\ AllFit

LEMMA TasksAre == Watcher \in Task /\ Reconcile \in Task /\ Req \subseteq Task
BY DEF Task

LEMMA AState ==
  ASSUME NEW at \in Places, NEW found \in Vaults, NEW listed \in Tables,
         NEW todo \in SUBSET NotePath, NEW n \in Nat
  PROVE  [at |-> at, path |-> Nothing, to |-> Nothing, text |-> Nothing, time |-> n, row |-> n,
          todo |-> todo, found |-> found, listed |-> listed] \in TaskState
BY DEF TaskState

LEMMA OffIs == Off \in TaskState /\ Fits(Off)
<1>1. "off" \in Places /\ {} \in SUBSET NotePath /\ 0 \in Nat
  BY DEF Places
<1>2. Off \in TaskState
  BY <1>1, NoVault, AState DEF Off
<1> QED
  BY <1>2 DEF Off, Fits

LEMMA BegunIs ==
  ASSUME NEW s \in TaskState, NEW at \in Places, NEW path \in NotePath,
         NEW text \in Texts \cup {Nothing}
  PROVE  [s EXCEPT !.at = at, !.path = path, !.text = text, !.todo = @ \ {path}] \in TaskState
<1>1. \A todo \in SUBSET NotePath :
        [s EXCEPT !.at = at, !.path = path, !.text = text, !.todo = todo] \in TaskState
  BY DEF TaskState
<1>2. s.todo \ {path} \in SUBSET NotePath
  BY DEF TaskState
<1> QED
  BY <1>1, <1>2

LEMMA LeftIs ==
  ASSUME NEW s \in TaskState, NEW at \in Places, NEW todo \in SUBSET NotePath,
         NEW found \in Vaults, NEW listed \in Tables
  PROVE  [s EXCEPT !.at = at, !.todo = todo, !.found = found, !.listed = listed] \in TaskState
BY DEF TaskState

\* One task's locals change.
LEMMA OneTask ==
  ASSUME TaskInv, NEW t \in Task, NEW s, s \in TaskState, Fits(s), task' = [task EXCEPT ![t] = s]
  PROVE  TaskInv'
BY DEF TaskInv, AllFit

LEMMA BeginsFits ==
  ASSUME TaskInv, NEW t \in Task, NEW at \in {"stat", "unrow"}, NEW path \in NotePath,
         NEW text \in Texts \cup {Nothing}, at = "stat" => text \in Texts,
         Begins(t, at, path, text)
  PROVE  TaskInv'
<1> DEFINE s == [task[t] EXCEPT !.at = at, !.path = path, !.text = text, !.todo = @ \ {path}]
<1>1. task[t] \in TaskState
  BY DEF TaskInv
<1>2. s \in TaskState
  <2>1. at \in Places
    BY DEF Places
  <2> QED
    BY <1>1, <2>1, BegunIs
<1>3. Fits(s)
  BY <1>1 DEF TaskState, Fits
<1>4. task' = [task EXCEPT ![t] = s]
  BY DEF Begins
<1> HIDE DEF s
<1> QED
  BY <1>2, <1>3, <1>4, OneTask

LEMMA OverFits ==
  ASSUME TaskInv, NEW t \in Task, Over(t)
  PROVE  TaskInv'
<1> DEFINE s == After(t)
<1>1. task[t] \in TaskState
  BY DEF TaskInv
<1>2. s \in TaskState
  <2>1. /\ task[t].found \in Vaults /\ task[t].listed \in Tables
        /\ task[t].todo \in SUBSET NotePath
    BY <1>1 DEF TaskState
  <2>2. "each" \in Places
    BY DEF Places
  <2> QED
    BY <2>1, <2>2, OffIs, LeftIs DEF After
<1>3. Fits(s)
  BY OffIs DEF Off, After, Fits
<1>4. task' = [task EXCEPT ![t] = s]
  BY DEF Over
<1> HIDE DEF s
<1> QED
  BY <1>2, <1>3, <1>4, OneTask

LEMMA GoesFits ==
  ASSUME TaskInv, NEW t \in Task, Goes(t, "keys"), task[t].path \in NotePath
  PROVE  TaskInv'
<1> DEFINE s == [task[t] EXCEPT !.at = "keys"]
<1>1. task[t] \in TaskState
  BY DEF TaskInv
<1>2. s \in TaskState
  <2>1. "keys" \in Places
    BY DEF Places
  <2> QED
    BY <1>1, <2>1 DEF TaskState
<1>3. Fits(s)
  BY <1>1 DEF TaskState, Fits
<1>4. task' = [task EXCEPT ![t] = s]
  BY DEF Goes
<1> HIDE DEF s
<1> QED
  BY <1>2, <1>3, <1>4, OneTask

LEMMA Placed ==
  ASSUME TaskInv, NEW t \in Task
  PROVE  /\ task[t] \in TaskState
         /\ task[t].at \in {"stat", "row", "unrow", "rerow", "outgoing", "keys"}
              => task[t].path \in NotePath
         /\ task[t].at \in {"stat", "row"} => task[t].text \in Texts
         /\ task[t].at = "rerow" => task[t].to \in NotePath
BY DEF TaskInv, AllFit, Fits

LEMMA ATask ==
  ASSUME NEW s \in TaskState
  PROVE  /\ s.todo \subseteq NotePath /\ s.found \in Vaults /\ s.listed \in Tables
         /\ s.row \in Nat /\ s.time \in Int
BY DEF TaskState

\* The table as it is read is the table's rows.
LEMMA TableIs ==
  ASSUME NEW r \in Tables
  PROVE  /\ DOMAIN r \subseteq NotePath /\ r \in [DOMAIN r -> Row]
         /\ \A p \in DOMAIN r : /\ r[p].id \in Nat /\ r[p].text \in Texts /\ r[p].time \in Int
                                /\ r[p] = [id |-> r[p].id, text |-> r[p].text,
                                           time |-> r[p].time, target |-> r[p].target]
<1>1. DOMAIN r \subseteq NotePath /\ r \in [DOMAIN r -> Row]
  BY ATable
<1> QED
  BY <1>1 DEF Row

LEMMA VaultIs ==
  ASSUME NEW f \in Vaults
  PROVE  DOMAIN f \subseteq NotePath /\ \A p \in DOMAIN f : f[p] \in Texts /\ f[p].id \in Int
<1>1. DOMAIN f \subseteq NotePath /\ f \in [DOMAIN f -> Texts]
  BY AVault
<1> QED
  BY <1>1 DEF Texts

LEMMA ResolvesToARow ==
  ASSUME rows \in Tables, NEW key
  PROVE  \/ Resolve(key) = Nothing
         \/ \E p \in DOMAIN rows : key \in KeysFor(p) /\ Resolve(key) = rows[p].id
<1> DEFINE ids == [p \in DOMAIN rows |-> rows[p].id]
<1>1. DOMAIN ids \subseteq NotePath
  BY TableIs
<1>2. Resolve(key) = ResolveAmong(ids, key)
  BY DEF Resolve
<1>3. \A p \in DOMAIN rows : ids[p] = rows[p].id
  OBVIOUS
<1>4. DOMAIN ids = DOMAIN rows
  OBVIOUS
<1> HIDE DEF ids
<1> QED
  BY <1>1, <1>2, <1>3, <1>4, ResolvesToOne

\* A lookup changes targets and nothing else.
LEMMA RelinkedIs ==
  ASSUME rows \in Tables, NEW sources, Relinked(sources)
  PROVE  /\ rows' \in Tables /\ DOMAIN rows' = DOMAIN rows
         /\ \A p \in DOMAIN rows :
              /\ rows'[p].id = rows[p].id /\ rows'[p].text = rows[p].text
              /\ rows'[p].time = rows[p].time
              /\ p \in sources => rows'[p].target = Resolve(rows[p].text.key)
              /\ p \notin sources => rows'[p] = rows[p]
<1> DEFINE new(p) == [rows[p] EXCEPT !.target = Resolve(rows[p].text.key)]
<1>1. DOMAIN rows \subseteq NotePath /\ rows \in [DOMAIN rows -> Row]
  BY ATable
<1>2. ASSUME NEW p \in DOMAIN rows
      PROVE  /\ new(p) \in Row /\ new(p).id = rows[p].id /\ new(p).text = rows[p].text
             /\ new(p).time = rows[p].time /\ new(p).target = Resolve(rows[p].text.key)
  <2>1. rows[p] \in Row
    BY <1>1
  <2>2. Resolve(rows[p].text.key) \in Nat \cup {Nothing}
    BY ResolvesToARow, TableIs
  <2> QED
    BY <2>1, <2>2 DEF Row
<1>3. rows' = [p \in DOMAIN rows |-> IF p \in sources THEN new(p) ELSE rows[p]]
  BY DEF Relinked
<1> HIDE DEF new
<1>4. DOMAIN rows' = DOMAIN rows /\ \A p \in DOMAIN rows :
        rows'[p] = IF p \in sources THEN new(p) ELSE rows[p]
  BY <1>3
<1>5. rows' \in [DOMAIN rows -> Row]
  BY <1>1, <1>2, <1>3
<1>6. rows' \in Tables
  BY <1>1, <1>5 DEF Tables
<1> QED
  BY <1>2, <1>4, <1>6

LEMMA KeyedRelinked ==
  ASSUME rows \in Tables, NEW n, Keyed(rows, n), NEW sources, Relinked(sources)
  PROVE  Keyed(rows', n)
<1>1. /\ DOMAIN rows' = DOMAIN rows
      /\ \A p \in DOMAIN rows :
              /\ rows'[p].id = rows[p].id
              /\ p \in sources => rows'[p].target = Resolve(rows[p].text.key)
              /\ p \notin sources => rows'[p] = rows[p]
  BY RelinkedIs
<1>2. Ids(rows') = Ids(rows)
  BY <1>1 DEF Ids
<1>3. \A p \in DOMAIN rows : Resolve(rows[p].text.key) \in Ids(rows) \cup {Nothing}
  BY ResolvesToARow DEF Ids
<1>4. \A p \in DOMAIN rows' : rows'[p].target \in Ids(rows') \cup {Nothing}
  BY <1>1, <1>2, <1>3 DEF Keyed
<1> QED
  BY <1>1, <1>4 DEF Keyed

-----------------------------------------------------------------------------
(***************************************************************************)
(* The table's keys, through rows that come, go and move.                  *)
(***************************************************************************)
LEMMA IdsIn ==
  ASSUME NEW r, NEW x
  PROVE  x \in Ids(r) <=> \E q \in DOMAIN r : x = r[q].id
BY DEF Ids

LEMMA KeyedWritten ==
  ASSUME NEW r, NEW n \in Nat, Keyed(r, n), NEW path, NEW row, row.target = Nothing,
         NEW m, \/ path \in DOMAIN r /\ row.id = r[path].id /\ m = n
                \/ path \notin DOMAIN r /\ row.id = n + 1 /\ m = n + 1
  PROVE  Keyed(Written(r, path, row), m)
<1> DEFINE s == Written(r, path, row)
<1>1. /\ DOMAIN s = DOMAIN r \cup {path} /\ s[path] = row
      /\ \A p \in DOMAIN r : p # path => s[p] = r[p]
  BY DEF Written
<1> HIDE DEF s
<1>2. \A p \in DOMAIN r : r[p].id = s[p].id
  BY <1>1
<1>3. \A p \in DOMAIN r : r[p].id \in 1..n
  BY DEF Keyed
<1>4. \A p, q \in DOMAIN r : r[p].id = r[q].id => p = q
  BY DEF Keyed
<1>5. \A p, q \in DOMAIN s : s[p].id = s[q].id => p = q
  <2>1. CASE path \in DOMAIN r
    BY <1>1, <1>2, <1>4, <2>1
  <2>2. CASE path \notin DOMAIN r
    <3>1. s[path].id = n + 1 /\ \A p \in DOMAIN r : s[p].id # n + 1
      BY <1>1, <1>2, <1>3, <2>2
    <3> QED
      BY <1>1, <1>2, <1>4, <3>1
  <2> QED
    BY <2>1, <2>2
<1>6. \A p \in DOMAIN s : s[p].id \in 1..m
  BY <1>1, <1>2, <1>3
<1>7. ASSUME NEW p \in DOMAIN s
      PROVE  s[p].target \in Ids(s) \cup {Nothing}
  <2>1. CASE p = path
    BY <1>1, <2>1
  <2>2. CASE p # path
    <3>1. s[p].target = r[p].target /\ r[p].target \in Ids(r) \cup {Nothing}
      BY <1>1, <2>2 DEF Keyed
    <3>2. \A x \in Ids(r) : x \in Ids(s)
      BY <1>1, <1>2, IdsIn
    <3> QED
      BY <3>1, <3>2
  <2> QED
    BY <2>1, <2>2
<1>8. \A p \in DOMAIN s : s[p].id \in 1..m /\ s[p].target \in Ids(s) \cup {Nothing}
  BY <1>6, <1>7
<1>9. Keyed(s, m)
  BY <1>5, <1>8 DEF Keyed
<1> QED
  BY <1>9 DEF s

\* A row goes, and with it the targets that name it.
Cleared(r, s, path) ==
  /\ DOMAIN s = DOMAIN r \ {path}
  /\ \A p \in DOMAIN s :
       /\ s[p].id = r[p].id /\ s[p].text = r[p].text /\ s[p].time = r[p].time
       /\ IF path \in DOMAIN r /\ r[p].target = r[path].id THEN s[p].target = Nothing
          ELSE s[p].target = r[p].target

LEMMA KeyedCleared ==
  ASSUME NEW r, NEW s, NEW n, NEW path, Keyed(r, n), Cleared(r, s, path)
  PROVE  Keyed(s, n)
<1>1. \A p, q \in DOMAIN s : s[p].id = s[q].id => p = q
  BY DEF Keyed, Cleared
<1>2. ASSUME NEW p \in DOMAIN s
      PROVE  s[p].id \in 1..n /\ s[p].target \in Ids(s) \cup {Nothing}
  <2>1. s[p].id \in 1..n /\ r[p].target \in Ids(r) \cup {Nothing}
    BY DEF Keyed, Cleared
  <2>2. CASE s[p].target = Nothing
    BY <2>1, <2>2
  <2>3. CASE s[p].target # Nothing
    <3>1. s[p].target = r[p].target /\ ~(path \in DOMAIN r /\ r[p].target = r[path].id)
      BY <2>3 DEF Cleared
    <3>2. PICK q \in DOMAIN r : r[p].target = r[q].id
      BY <2>1, <2>3, <3>1, IdsIn
    <3>3. q # path
      BY <3>1, <3>2
    <3>4. q \in DOMAIN s /\ s[q].id = r[q].id
      BY <3>3 DEF Cleared
    <3> QED
      BY <2>1, <3>1, <3>2, <3>4, IdsIn
  <2> QED
    BY <2>2, <2>3
<1> QED
  BY <1>1, <1>2 DEF Keyed

LEMMA KeyedRenamed ==
  ASSUME NEW r, NEW n, NEW from, NEW to, Keyed(r, n), to \notin DOMAIN r
  PROVE  Keyed(Renamed(r, from, to), n)
<1>1. CASE from \notin DOMAIN r
  BY <1>1 DEF Renamed
<1>2. CASE from \in DOMAIN r
  <2> DEFINE s == Renamed(r, from, to)
             back(p) == IF p = to THEN from ELSE p
  <2>0. RenamedTo(r, s, from, to)
    BY <1>2, RenamedIs
  <2> HIDE DEF s
  <2>1. /\ DOMAIN s = (DOMAIN r \ {from}) \cup {to} /\ s[to] = r[from]
        /\ \A p \in DOMAIN r \ {from} : s[p] = r[p]
    BY <2>0 DEF RenamedTo
  <2>2. \A p \in DOMAIN s : back(p) \in DOMAIN r /\ s[p] = r[back(p)]
    BY <1>2, <2>1
  <2>3. \A p, q \in DOMAIN s : back(p) = back(q) => p = q
    BY <2>1
  <2>4. \A q \in DOMAIN r : \E p \in DOMAIN s : s[p] = r[q]
    BY <2>1
  <2> HIDE DEF back
  <2>5. \A p, q \in DOMAIN s : s[p].id = s[q].id => p = q
    BY <2>2, <2>3 DEF Keyed
  <2>6. \A x \in Ids(r) : x \in Ids(s)
    <3>1. ASSUME NEW x \in Ids(r) PROVE x \in Ids(s)
      <4>1. PICK q \in DOMAIN r : x = r[q].id
        BY <3>1, IdsIn
      <4>2. PICK p \in DOMAIN s : s[p] = r[q]
        BY <2>4
      <4> QED
        BY <4>1, <4>2, IdsIn
    <3> QED
      BY <3>1
  <2>7. \A p \in DOMAIN s : s[p].id \in 1..n /\ s[p].target \in Ids(s) \cup {Nothing}
    <3>1. ASSUME NEW p \in DOMAIN s
          PROVE  s[p].id \in 1..n /\ s[p].target \in Ids(s) \cup {Nothing}
      <4>1. r[back(p)].id \in 1..n /\ r[back(p)].target \in Ids(r) \cup {Nothing}
        BY <2>2 DEF Keyed
      <4> QED
        BY <2>2, <2>6, <4>1
    <3> QED
      BY <3>1
  <2>8. Keyed(s, n)
    BY <2>5, <2>7 DEF Keyed
  <2> QED
    BY <2>8 DEF s
<1> QED
  BY <1>1, <1>2

\* What the steps that write rows make of the table.
LEMMA IndexedRow ==
  ASSUME TypeInv, NEW t \in Task, Indexes(t)
  PROVE  /\ task[t].at = "row" /\ task[t].path \in NotePath /\ task[t].text \in Texts
         /\ \E id \in Nat :
              /\ rows' = Written(rows, task[t].path,
                                 [id |-> id, text |-> task[t].text, time |-> task[t].time,
                                  target |-> Nothing])
              /\ task' = [task EXCEPT ![t].at = "outgoing", ![t].row = id]
              /\ \/ task[t].path \in DOMAIN rows /\ id = rows[task[t].path].id /\ issued' = issued
                 \/ task[t].path \notin DOMAIN rows /\ id = issued + 1 /\ issued' = issued + 1
         /\ UNCHANGED <<disk, crashes>>
<1>1. TaskInv
  BY DEF TypeInv, Types, TaskInv
<1>2. task[t].at = "row"
  BY DEF Indexes, Place
<1>3. rows \in Tables /\ issued \in Nat
  BY DEF TypeInv, Types
<1>4. CASE task[t].path \in DOMAIN rows
  <2>1. rows[task[t].path].id \in Nat
    BY <1>3, <1>4, TableIs
  <2> QED
    BY <1>1, <1>2, <1>4, <2>1, Placed DEF Indexes
<1>5. CASE task[t].path \notin DOMAIN rows
  <2>1. issued + 1 \in Nat
    BY <1>3
  <2> QED
    BY <1>1, <1>2, <1>5, <2>1, Placed DEF Indexes
<1> QED
  BY <1>4, <1>5

LEMMA UnindexedRow ==
  ASSUME TypeInv, NEW t \in Task, Unindexes(t)
  PROVE  /\ task[t].at = "unrow" /\ task[t].path \in NotePath
         /\ rows' \in Tables /\ Cleared(rows, rows', task[t].path)
         /\ Goes(t, "keys") /\ UNCHANGED <<disk, issued, crashes>>
<1> DEFINE left == Without(rows, task[t].path)
           gone(p) == task[t].path \in DOMAIN rows /\ rows[p].target = rows[task[t].path].id
           new(p)  == IF gone(p) THEN [rows[p] EXCEPT !.target = Nothing] ELSE rows[p]
<1>1. TaskInv /\ rows \in Tables
  BY DEF TypeInv, Types, TaskInv
<1>2. task[t].at = "unrow" /\ Goes(t, "keys") /\ UNCHANGED <<disk, issued, crashes>>
  BY DEF Unindexes, Place
<1>3. task[t].path \in NotePath
  BY <1>1, <1>2, Placed
<1>4. DOMAIN left = DOMAIN rows \ {task[t].path}
  BY WithoutIs
<1>5. DOMAIN rows \subseteq NotePath /\ rows \in [DOMAIN rows -> Row]
  BY <1>1, ATable
<1>6. ASSUME NEW p \in DOMAIN rows
      PROVE  /\ new(p) \in Row
             /\ new(p).id = rows[p].id /\ new(p).text = rows[p].text /\ new(p).time = rows[p].time
             /\ new(p).target = IF gone(p) THEN Nothing ELSE rows[p].target
  <2>1. rows[p] \in Row
    BY <1>5
  <2> HIDE DEF gone
  <2> QED
    BY <2>1 DEF Row
<1>7. rows' = [p \in DOMAIN left |-> new(p)]
  BY DEF Unindexes
<1> HIDE DEF new, left
<1>8. DOMAIN rows' = DOMAIN rows \ {task[t].path}
      /\ \A p \in DOMAIN rows \ {task[t].path} : rows'[p] = new(p)
  BY <1>4, <1>7
<1>9. rows' \in Tables
  <2>1. rows' \in [DOMAIN rows \ {task[t].path} -> Row]
    BY <1>4, <1>6, <1>7
  <2> QED
    BY <1>5, <2>1 DEF Tables
<1>10. Cleared(rows, rows', task[t].path)
  BY <1>6, <1>8 DEF Cleared
<1> QED
  BY <1>2, <1>3, <1>9, <1>10

-----------------------------------------------------------------------------
(***************************************************************************)
(* Types and keys are kept by every step.                                  *)
(***************************************************************************)
LEMMA PlacesAre ==
  \A at \in {"off", "scan", "list", "each", "stat", "row", "outgoing", "keys", "unrow", "rerow"} :
    at \in Places
BY DEF Places

LEMMA StattedIs ==
  ASSUME NEW s \in TaskState, NEW at \in Places, NEW time \in Int
  PROVE  [s EXCEPT !.at = at, !.time = time] \in TaskState
BY DEF TaskState

LEMMA RowedIs ==
  ASSUME NEW s \in TaskState, NEW at \in Places, NEW row \in Nat
  PROVE  [s EXCEPT !.at = at, !.row = row] \in TaskState
BY DEF TaskState

LEMMA MovingIs ==
  ASSUME NEW s \in TaskState, NEW at \in Places, NEW path \in NotePath, NEW to \in NotePath
  PROVE  [s EXCEPT !.at = at, !.path = path, !.to = to] \in TaskState
BY DEF TaskState

LEMMA ToldIs ==
  ASSUME NEW s \in TaskState, NEW at \in Places, NEW todo \in SUBSET NotePath
  PROVE  [s EXCEPT !.at = at, !.todo = todo] \in TaskState
BY DEF TaskState

LEMMA ScannedIs ==
  ASSUME NEW s \in TaskState, NEW at \in Places, NEW found \in Vaults
  PROVE  [s EXCEPT !.at = at, !.found = found] \in TaskState
BY DEF TaskState

LEMMA ListedIs ==
  ASSUME NEW s \in TaskState, NEW at \in Places, NEW listed \in Tables,
         NEW todo \in SUBSET NotePath
  PROVE  [s EXCEPT !.at = at, !.listed = listed, !.todo = todo] \in TaskState
BY DEF TaskState

LEMMA Splits == TypeInv <=> Types /\ TaskInv /\ Keyed(rows, issued)
BY DEF TypeInv, Types, TaskInv

\* A text to write.
LEMMA TextIs ==
  ASSUME Types, NEW key \in Key
  PROVE  Text(key) \in Texts
BY DEF Types, Text, Texts

LEMMA WroteTypes ==
  ASSUME Types, NEW path \in NotePath, NEW text \in Texts, Wrote(path, text)
  PROVE  files' \in Vaults /\ events' \subseteq NotePath /\ clock' \in Nat
<1>1. Written(files, path, text) \in Vaults
  BY VaultsKept DEF Types
<1> QED
  BY <1>1 DEF Wrote, Types

LEMMA WithoutTypes ==
  ASSUME Types, NEW path \in NotePath, files' = Without(files, path),
         events' = events \cup {path}, clock' = clock + 1
  PROVE  files' \in Vaults /\ events' \subseteq NotePath /\ clock' \in Nat
<1>1. Without(files, path) \in Vaults
  BY VaultsKept DEF Types
<1> QED
  BY <1>1 DEF Types

\* The files' side changes, the database does not.
LEMMA FileStep ==
  ASSUME TypeInv, files' \in Vaults, events' \subseteq NotePath, clock' \in Nat, TaskInv',
         UNCHANGED <<db, crashes>>
  PROVE  TypeInv'
BY DEF TypeInv, Types, TaskInv, db

LEMMA TaskStep ==
  ASSUME TypeInv, TaskInv', UNCHANGED <<disk, db, crashes>>
  PROVE  TypeInv'
BY DEF TypeInv, Types, TaskInv, db, disk

LEMMA RowStep ==
  ASSUME TypeInv, TaskInv', rows' \in Tables, issued' \in Nat, Keyed(rows', issued'),
         UNCHANGED <<disk, crashes>>
  PROVE  TypeInv'
BY DEF TypeInv, Types, TaskInv, disk

LEMMA ByHandTypes ==
  ASSUME TypeInv, NEW path \in NotePath, ByHand(path)
  PROVE  TypeInv'
<1>1. Types /\ TaskInv
  BY Splits
<1>2. TaskInv' /\ UNCHANGED <<db, crashes>>
  BY <1>1 DEF ByHand, TaskInv, AllFit
<1>3. files' \in Vaults /\ events' \subseteq NotePath /\ clock' \in Nat
  <2>1. CASE \E key \in Key : Wrote(path, Text(key))
    BY <1>1, <2>1, WroteTypes, TextIs
  <2>2. CASE files' = Without(files, path) /\ events' = events \cup {path} /\ clock' = clock + 1
    BY <1>1, <2>2, WithoutTypes
  <2> QED
    BY <2>1, <2>2 DEF ByHand
<1> QED
  BY <1>2, <1>3, FileStep

LEMMA SaveTypes ==
  ASSUME TypeInv, NEW r \in Req, NEW path \in NotePath, NEW key \in Key, Save(r, path, key)
  PROVE  TypeInv'
<1>1. Types /\ TaskInv /\ r \in Task
  BY Splits, TasksAre
<1>2. PICK text \in Texts : text = Text(key)
  BY <1>1, TextIs
<1>3. files' \in Vaults /\ events' \subseteq NotePath /\ clock' \in Nat
  BY <1>1, <1>2, WroteTypes DEF Save
<1>4. TaskInv'
  <2>1. Begins(r, "stat", path, text)
    BY <1>2 DEF Save
  <2> QED
    BY <1>1, <2>1, BeginsFits
<1> QED
  BY <1>3, <1>4, FileStep DEF Save

LEMMA ReadTypes ==
  ASSUME TypeInv, NEW r \in Req, NEW path \in NotePath, Read(r, path)
  PROVE  TypeInv'
<1>1. Types /\ TaskInv /\ r \in Task
  BY Splits, TasksAre
<1>2. PICK text \in Texts : text = files[path]
  BY <1>1, VaultIs DEF Read, Types
<1>3. TaskInv'
  <2>1. Begins(r, "stat", path, text)
    BY <1>2 DEF Read
  <2> QED
    BY <1>1, <2>1, BeginsFits
<1> QED
  BY <1>3, TaskStep DEF Read

LEMMA DeleteTypes ==
  ASSUME TypeInv, NEW r \in Req, NEW path \in NotePath, Delete(r, path)
  PROVE  TypeInv'
<1>1. Types /\ TaskInv /\ r \in Task
  BY Splits, TasksAre
<1>2. files' \in Vaults /\ events' \subseteq NotePath /\ clock' \in Nat
  BY <1>1, WithoutTypes DEF Delete
<1>3. TaskInv'
  <2>1. Begins(r, "unrow", path, Nothing) /\ Nothing \in Texts \cup {Nothing}
    BY DEF Delete
  <2>2. "unrow" # "stat"
    OBVIOUS
  <2> QED
    BY <1>1, <2>1, <2>2, BeginsFits
<1> QED
  BY <1>2, <1>3, FileStep DEF Delete

LEMMA MoveTypes ==
  ASSUME TypeInv, NEW r \in Req, NEW path \in NotePath, NEW to \in NotePath, Move(r, path, to)
  PROVE  TypeInv'
<1> DEFINE s == [Off EXCEPT !.at = "rerow", !.path = path, !.to = to]
<1>1. Types /\ TaskInv /\ r \in Task
  BY Splits, TasksAre
<1>2. files' \in Vaults /\ events' \subseteq NotePath /\ clock' \in Nat
  <2>1. Renamed(files, path, to) \in Vaults
    BY <1>1, VaultsKept DEF Types, Move
  <2> QED
    BY <1>1, <2>1 DEF Types, Move
<1>3. TaskInv'
  <2>1. s \in TaskState
    BY OffIs, PlacesAre, MovingIs
  <2>2. Fits(s)
    BY OffIs DEF Fits, Off
  <2>3. task' = [task EXCEPT ![r] = s]
    BY DEF Move
  <2> HIDE DEF s
  <2> QED
    BY <1>1, <2>1, <2>2, <2>3, OneTask
<1> QED
  BY <1>2, <1>3, FileStep DEF Move

LEMMA StatsTypes ==
  ASSUME TypeInv, NEW t \in Task, Stats(t)
  PROVE  TypeInv'
<1> DEFINE s == [task[t] EXCEPT !.at = "row", !.time = files[task[t].path].id]
<1>1. Types /\ TaskInv /\ task[t].at = "stat"
  BY Splits DEF Stats, Place
<1>2. task[t] \in TaskState /\ task[t].path \in NotePath /\ task[t].text \in Texts
  BY <1>1, Placed
<1>3. CASE Over(t)
  BY <1>1, <1>3, OverFits, TaskStep DEF Stats
<1>4. CASE task[t].path \in DOMAIN files /\ task' = [task EXCEPT ![t] = s]
  <2>1. files[task[t].path].id \in Int
    BY <1>1, <1>4, VaultIs DEF Types
  <2>2. s \in TaskState
    BY <1>2, <2>1, PlacesAre, StattedIs
  <2>3. Fits(s)
    BY <1>2 DEF Fits, TaskState
  <2> HIDE DEF s
  <2>4. TaskInv'
    BY <1>1, <1>4, <2>2, <2>3, OneTask
  <2> QED
    BY <2>4, TaskStep DEF Stats
<1>5. Over(t) \/ (task[t].path \in DOMAIN files /\ task' = [task EXCEPT ![t] = s])
  BY DEF Stats
<1> QED
  BY <1>3, <1>4, <1>5

LEMMA IndexesTypes ==
  ASSUME TypeInv, NEW t \in Task, Indexes(t)
  PROVE  TypeInv'
<1>1. Types /\ TaskInv /\ Keyed(rows, issued) /\ task[t] \in TaskState
  BY Splits, Placed
<1>2. /\ task[t].at = "row" /\ task[t].path \in NotePath /\ task[t].text \in Texts
      /\ UNCHANGED <<disk, crashes>>
  BY IndexedRow
<1>3. PICK id \in Nat :
        /\ rows' = Written(rows, task[t].path,
                           [id |-> id, text |-> task[t].text, time |-> task[t].time,
                            target |-> Nothing])
        /\ task' = [task EXCEPT ![t].at = "outgoing", ![t].row = id]
        /\ \/ task[t].path \in DOMAIN rows /\ id = rows[task[t].path].id /\ issued' = issued
           \/ task[t].path \notin DOMAIN rows /\ id = issued + 1 /\ issued' = issued + 1
  BY IndexedRow
<1> DEFINE new == [id |-> id, text |-> task[t].text, time |-> task[t].time, target |-> Nothing]
<1>4. new \in Row /\ new.target = Nothing /\ new.id = id
  BY <1>1, <1>2, ATask DEF Row
<1>5. rows' = Written(rows, task[t].path, new)
  BY <1>3
<1> HIDE DEF new
<1>6. rows' \in Tables
  BY <1>1, <1>2, <1>4, <1>5, TablesKept DEF Types
<1>7. issued' \in Nat /\ issued \in Nat
  BY <1>1, <1>3 DEF Types
<1>8. Keyed(rows', issued')
  BY <1>1, <1>3, <1>4, <1>5, <1>7, KeyedWritten
<1>9. TaskInv'
  <2> DEFINE s == [task[t] EXCEPT !.at = "outgoing", !.row = id]
  <2>1. s \in TaskState
    BY <1>1, PlacesAre, RowedIs
  <2>2. Fits(s)
    BY <1>1, <1>2 DEF Fits, TaskState
  <2>3. task' = [task EXCEPT ![t] = s]
    BY <1>3
  <2> HIDE DEF s
  <2> QED
    BY <1>1, <2>1, <2>2, <2>3, OneTask
<1> QED
  BY <1>2, <1>6, <1>7, <1>8, <1>9, RowStep

LEMMA OutgoingTypes ==
  ASSUME TypeInv, NEW t \in Task, ResolvesOutgoing(t)
  PROVE  TypeInv'
<1>1. Types /\ TaskInv /\ Keyed(rows, issued) /\ rows \in Tables /\ issued \in Nat
  BY Splits DEF Types
<1>2. PICK sources : Relinked(sources)
  BY DEF ResolvesOutgoing
<1>3. rows' \in Tables /\ Keyed(rows', issued)
  BY <1>1, <1>2, RelinkedIs, KeyedRelinked
<1>4. issued' = issued /\ task[t].at = "outgoing" /\ Goes(t, "keys")
  BY DEF ResolvesOutgoing, Place
<1>5. task[t].path \in NotePath
  BY <1>1, <1>4, Placed
<1>6. TaskInv'
  BY <1>1, <1>4, <1>5, GoesFits
<1> QED
  BY <1>1, <1>3, <1>4, <1>6, RowStep DEF ResolvesOutgoing

LEMMA ReresolvesTypes ==
  ASSUME TypeInv, NEW t \in Task, Reresolves(t)
  PROVE  TypeInv'
<1>1. Types /\ TaskInv /\ Keyed(rows, issued) /\ rows \in Tables /\ issued \in Nat
  BY Splits DEF Types
<1>2. PICK sources : Relinked(sources)
  BY DEF Reresolves
<1>3. rows' \in Tables /\ Keyed(rows', issued)
  BY <1>1, <1>2, RelinkedIs, KeyedRelinked
<1>4. issued' = issued /\ Over(t)
  BY DEF Reresolves
<1>5. TaskInv'
  BY <1>1, <1>4, OverFits
<1> QED
  BY <1>1, <1>3, <1>4, <1>5, RowStep DEF Reresolves

LEMMA UnindexesTypes ==
  ASSUME TypeInv, NEW t \in Task, Unindexes(t)
  PROVE  TypeInv'
<1>1. Types /\ TaskInv /\ Keyed(rows, issued) /\ issued \in Nat
  BY Splits DEF Types
<1>2. /\ task[t].path \in NotePath /\ rows' \in Tables /\ Cleared(rows, rows', task[t].path)
      /\ Goes(t, "keys") /\ UNCHANGED <<disk, issued, crashes>>
  BY UnindexedRow
<1>3. Keyed(rows', issued)
  BY <1>1, <1>2, KeyedCleared
<1>4. TaskInv'
  BY <1>1, <1>2, GoesFits
<1> QED
  BY <1>1, <1>2, <1>3, <1>4, RowStep

LEMMA ReindexesTypes ==
  ASSUME TypeInv, NEW t \in Task, Reindexes(t)
  PROVE  TypeInv'
<1>1. Types /\ TaskInv /\ Keyed(rows, issued) /\ rows \in Tables /\ issued \in Nat
  BY Splits DEF Types
<1>2. task[t].at = "rerow" /\ UNCHANGED <<disk, issued, crashes>>
  BY DEF Reindexes, Place
<1>3. task[t].path \in NotePath /\ task[t].to \in NotePath
  BY <1>1, <1>2, Placed
<1>4. CASE task[t].path \in DOMAIN rows /\ task[t].to \in DOMAIN rows
  <2>1. Over(t) /\ rows' = rows
    BY <1>4 DEF Reindexes
  <2> QED
    BY <1>1, <1>2, <2>1, OverFits, RowStep
<1>5. CASE ~(task[t].path \in DOMAIN rows /\ task[t].to \in DOMAIN rows)
  <2>1. Goes(t, "keys") /\ rows' = Renamed(rows, task[t].path, task[t].to)
    BY <1>5 DEF Reindexes
  <2>2. TaskInv'
    BY <1>1, <1>3, <2>1, GoesFits
  <2>3. rows' \in Tables
    BY <1>1, <1>3, <2>1, TablesKept
  <2>4. Keyed(rows', issued)
    <3>1. CASE task[t].path \notin DOMAIN rows
      BY <1>1, <2>1, <3>1 DEF Renamed
    <3>2. CASE task[t].path \in DOMAIN rows
      BY <1>1, <1>5, <2>1, <3>2, KeyedRenamed
    <3> QED
      BY <3>1, <3>2
  <2> QED
    BY <1>1, <1>2, <2>2, <2>3, <2>4, RowStep
<1> QED
  BY <1>4, <1>5

LEMMA TakesBatchTypes ==
  ASSUME TypeInv, TakesBatch
  PROVE  TypeInv'
<1> DEFINE s == [Off EXCEPT !.at = "each", !.todo = events]
<1>1. Types /\ TaskInv
  BY Splits
<1>2. s \in TaskState
  BY <1>1, OffIs, PlacesAre, ToldIs DEF Types
<1>3. Fits(s)
  BY OffIs DEF Fits, Off
<1>4. task' = [task EXCEPT ![Watcher] = s]
  BY DEF TakesBatch
<1> HIDE DEF s
<1>5. TaskInv'
  BY <1>1, <1>2, <1>3, <1>4, TasksAre, OneTask
<1> QED
  BY <1>1, <1>5, FileStep DEF TakesBatch, Types

LEMMA AppliesTypes ==
  ASSUME TypeInv, Applies
  PROVE  TypeInv'
<1>1. Types /\ TaskInv /\ task[Watcher] \in TaskState
  BY Splits, Placed, TasksAre
<1>2. UNCHANGED <<disk, db, crashes>>
  BY DEF Applies
<1>3. CASE task' = [task EXCEPT ![Watcher] = Off]
  BY <1>1, <1>2, <1>3, OffIs, OneTask, TasksAre, TaskStep
<1>4. ASSUME NEW path \in task[Watcher].todo, path \in DOMAIN files,
             Begins(Watcher, "stat", path, files[path])
      PROVE  TypeInv'
  <2>1. path \in NotePath
    BY <1>1, ATask
  <2>2. PICK text \in Texts : text = files[path]
    BY <1>1, <1>4, VaultIs DEF Types
  <2>3. Begins(Watcher, "stat", path, text)
    BY <1>4, <2>2
  <2> QED
    BY <1>1, <1>2, <2>1, <2>3, BeginsFits, TasksAre, TaskStep
<1>5. ASSUME NEW path \in task[Watcher].todo, Begins(Watcher, "unrow", path, Nothing)
      PROVE  TypeInv'
  <2>1. path \in NotePath
    BY <1>1, ATask
  <2>2. Nothing \in Texts \cup {Nothing} /\ "unrow" # "stat"
    OBVIOUS
  <2> QED
    BY <1>1, <1>2, <1>5, <2>1, <2>2, BeginsFits, TasksAre, TaskStep
<1> QED
  BY <1>3, <1>4, <1>5 DEF Applies

LEMMA ScansTypes ==
  ASSUME TypeInv, Scans
  PROVE  TypeInv'
<1> DEFINE s == [task[Reconcile] EXCEPT !.at = "list", !.found = files]
<1>1. Types /\ TaskInv /\ task[Reconcile] \in TaskState
  BY Splits, Placed, TasksAre
<1>2. s \in TaskState
  BY <1>1, PlacesAre, ScannedIs DEF Types
<1>3. Fits(s)
  BY <1>1 DEF Fits, TaskState
<1>4. task' = [task EXCEPT ![Reconcile] = s]
  BY DEF Scans
<1> HIDE DEF s
<1> QED
  BY <1>1, <1>2, <1>3, <1>4, OneTask, TasksAre, TaskStep DEF Scans

LEMMA ListsTypes ==
  ASSUME TypeInv, Lists
  PROVE  TypeInv'
<1> DEFINE todo == DOMAIN task[Reconcile].found \cup DOMAIN rows
           s == [task[Reconcile] EXCEPT !.at = "each", !.listed = rows, !.todo = todo]
<1>1. Types /\ TaskInv /\ task[Reconcile] \in TaskState /\ rows \in Tables
  BY Splits, Placed, TasksAre DEF Types
<1>2. todo \in SUBSET NotePath
  BY <1>1, ATask, TableIs, VaultIs
<1>3. s \in TaskState
  <2> HIDE DEF todo
  <2> QED
    BY <1>1, <1>2, PlacesAre, ListedIs
<1>4. Fits(s)
  BY <1>1 DEF Fits, TaskState
<1>5. task' = [task EXCEPT ![Reconcile] = s]
  BY DEF Lists
<1> HIDE DEF s
<1> QED
  BY <1>1, <1>3, <1>4, <1>5, OneTask, TasksAre, TaskStep DEF Lists

LEMMA ReconcilesTypes ==
  ASSUME TypeInv, Reconciles
  PROVE  TypeInv'
<1>1. Types /\ TaskInv /\ task[Reconcile] \in TaskState /\ task[Reconcile].at = "each"
  BY Splits, Placed, TasksAre DEF Reconciles, Place
<1>2. UNCHANGED <<disk, db, crashes>>
  BY DEF Reconciles
<1>3. CASE task' = [task EXCEPT ![Reconcile] = Off]
  BY <1>1, <1>2, <1>3, OffIs, OneTask, TasksAre, TaskStep
<1>4. ASSUME NEW path \in task[Reconcile].todo,
             task' = [task EXCEPT ![Reconcile].todo = @ \ {path}]
      PROVE  TypeInv'
  <2> DEFINE s == [task[Reconcile] EXCEPT !.at = "each", !.todo = task[Reconcile].todo \ {path}]
  <2>1. task[Reconcile].todo \ {path} \in SUBSET NotePath
    BY <1>1, ATask
  <2>2. s \in TaskState
    BY <1>1, <2>1, PlacesAre, ToldIs
  <2>3. Fits(s)
    BY <1>1 DEF Fits, TaskState
  <2>4. task' = [task EXCEPT ![Reconcile] = s]
    <3>1. s = [task[Reconcile] EXCEPT !.todo = task[Reconcile].todo \ {path}]
      BY <1>1 DEF TaskState
    <3> QED
      BY <1>4, <3>1
  <2> HIDE DEF s
  <2> QED
    BY <1>1, <1>2, <2>2, <2>3, <2>4, OneTask, TasksAre, TaskStep
<1>5. ASSUME NEW path \in task[Reconcile].todo, path \in DOMAIN files,
             Begins(Reconcile, "stat", path, files[path])
      PROVE  TypeInv'
  <2>1. path \in NotePath
    BY <1>1, ATask
  <2>2. PICK text \in Texts : text = files[path]
    BY <1>1, <1>5, VaultIs DEF Types
  <2>3. Begins(Reconcile, "stat", path, text)
    BY <1>5, <2>2
  <2> QED
    BY <1>1, <1>2, <2>1, <2>3, BeginsFits, TasksAre, TaskStep
<1>6. ASSUME NEW path \in task[Reconcile].todo, Begins(Reconcile, "unrow", path, Nothing)
      PROVE  TypeInv'
  <2>1. path \in NotePath
    BY <1>1, ATask
  <2>2. Nothing \in Texts \cup {Nothing} /\ "unrow" # "stat"
    OBVIOUS
  <2> QED
    BY <1>1, <1>2, <1>6, <2>1, <2>2, BeginsFits, TasksAre, TaskStep
<1> QED
  BY <1>3, <1>4, <1>5, <1>6 DEF Reconciles

LEMMA CrashTypes ==
  ASSUME TypeInv, Crash
  PROVE  TypeInv'
<1> DEFINE s == [Off EXCEPT !.at = "scan"]
<1>1. Types
  BY Splits
<1>2. s \in TaskState
  <2>1. "scan" \in Places
    BY DEF Places
  <2> QED
    BY <2>1, OffIs DEF TaskState
<1>3. Fits(s)
  BY OffIs DEF Fits, Off
<1>4. task' = [[t \in Task |-> Off] EXCEPT ![Reconcile] = s]
  BY TasksAre DEF Crash
<1> HIDE DEF s
<1>5. TaskInv'
  BY <1>2, <1>3, <1>4, OffIs, TasksAre DEF TaskInv, AllFit
<1>6. events' \subseteq NotePath /\ crashes' \in Nat
  BY <1>1 DEF Crash, Types
<1> QED
  BY <1>5, <1>6 DEF Crash, TypeInv, Types, TaskInv, db

LEMMA InitialRows ==
  ASSUME Init
  PROVE  /\ rows \in Tables /\ issued \in Nat /\ DOMAIN rows = DOMAIN AtFirst
         /\ \A p \in DOMAIN rows :
              /\ rows[p].id \in 1..issued /\ rows[p].text = AtFirst[p]
              /\ rows[p].target = Resolve(rows[p].text.key)
         /\ \A p, q \in DOMAIN rows : rows[p].id = rows[q].id => p = q
<1> DEFINE D == DOMAIN AtFirst
<1>1. D \subseteq NotePath /\ AtFirst \in [D -> Texts] /\ IsFiniteSet(D)
  BY IndexAssumption
<1>2. issued = Cardinality(D) /\ issued \in Nat
  BY <1>1, FS_CardinalityType DEF Init
<1>3. PICK n \in [D -> 1..issued] :
        /\ \A p, q \in D : n[p] = n[q] => p = q
        /\ rows = [p \in D |-> [id |-> n[p], text |-> AtFirst[p], time |-> AtFirst[p].id,
                                target |-> ResolveAmong(n, AtFirst[p].key)]]
  BY <1>2 DEF Init
<1> HIDE DEF D
<1>4. \A key : ResolveAmong(n, key) \in Nat \cup {Nothing}
  <2>1. ASSUME NEW key PROVE ResolveAmong(n, key) \in Nat \cup {Nothing}
    <3>1. DOMAIN n \subseteq NotePath
      BY <1>1, <1>3
    <3>2. \A p \in DOMAIN n : n[p] \in Nat
      BY <1>2, <1>3
    <3> QED
      BY <3>1, <3>2, ResolvesToOne
  <2> QED
    BY <2>1
<1>5. DOMAIN rows = D /\ \A p \in D : /\ rows[p].id = n[p] /\ rows[p].text = AtFirst[p]
                                      /\ rows[p].target = ResolveAmong(n, AtFirst[p].key)
  BY <1>3
<1>6. rows \in Tables
  <2>1. ASSUME NEW p \in D
        PROVE  [id |-> n[p], text |-> AtFirst[p], time |-> AtFirst[p].id,
                target |-> ResolveAmong(n, AtFirst[p].key)] \in Row
    <3>1. n[p] \in Nat /\ AtFirst[p] \in Texts /\ AtFirst[p].id \in Int
      BY <1>1, <1>2, <1>3 DEF Texts
    <3> QED
      BY <3>1, <1>4 DEF Row
  <2>2. rows \in [D -> Row]
    BY <1>3, <2>1
  <2> QED
    BY <1>1, <2>2 DEF Tables
<1>7. [p \in DOMAIN rows |-> rows[p].id] = n
  BY <1>3, <1>5
<1>8. \A p \in DOMAIN rows : rows[p].target = Resolve(rows[p].text.key)
  BY <1>5, <1>7 DEF Resolve
<1> QED
  BY <1>2, <1>3, <1>5, <1>6, <1>8 DEF D

LEMMA InitTypes ==
  ASSUME Init
  PROVE  TypeInv
<1>1. files \in Vaults
  <2>1. AtFirst \in [DOMAIN AtFirst -> Texts] /\ DOMAIN AtFirst \subseteq NotePath
    BY IndexAssumption
  <2> QED
    BY <2>1 DEF Init, Vaults
<1>2. /\ rows \in Tables /\ issued \in Nat
      /\ \A p \in DOMAIN rows :
           /\ rows[p].id \in 1..issued /\ rows[p].text = AtFirst[p]
           /\ rows[p].target = Resolve(rows[p].text.key)
      /\ \A p, q \in DOMAIN rows : rows[p].id = rows[q].id => p = q
  BY InitialRows
<1>3. Keyed(rows, issued)
  BY <1>2, ResolvesToARow, IdsIn DEF Keyed
<1>4. task = [t \in Task |-> Off] /\ events = {} /\ clock = 0 /\ crashes = 0
  BY DEF Init
<1>5. TaskInv
  BY <1>4, OffIs DEF TaskInv, AllFit
<1> QED
  BY <1>1, <1>2, <1>3, <1>4, <1>5 DEF TypeInv, Types, TaskInv

LEMMA NextTypes ==
  ASSUME TypeInv, [Next]_vars
  PROVE  TypeInv'
<1>1. CASE UNCHANGED vars
  <2>1. /\ files' = files /\ rows' = rows /\ events' = events /\ task' = task
        /\ clock' = clock /\ issued' = issued /\ crashes' = crashes
    BY <1>1 DEF vars
  <2> QED
    BY <2>1 DEF TypeInv, Types, AllFit
<1>2. CASE \E p \in NotePath : ByHand(p)
  BY <1>2, ByHandTypes
<1>3. ASSUME NEW r \in Req, NEW p \in NotePath,
             \/ Read(r, p) \/ Delete(r, p)
             \/ \E key \in Key : Save(r, p, key)
             \/ \E q \in NotePath : Move(r, p, q)
      PROVE  TypeInv'
  BY <1>3, ReadTypes, DeleteTypes, SaveTypes, MoveTypes
<1>4. ASSUME NEW t \in Task,
             \/ Stats(t) \/ Indexes(t) \/ ResolvesOutgoing(t) \/ Reresolves(t)
             \/ Unindexes(t) \/ Reindexes(t)
      PROVE  TypeInv'
  BY <1>4, StatsTypes, IndexesTypes, OutgoingTypes, ReresolvesTypes, UnindexesTypes,
     ReindexesTypes
<1>5. CASE TakesBatch \/ Applies \/ Scans \/ Lists \/ Reconciles \/ Crash
  BY <1>5, TakesBatchTypes, AppliesTypes, ScansTypes, ListsTypes, ReconcilesTypes, CrashTypes
<1> QED
  BY <1>1, <1>2, <1>3, <1>4, <1>5 DEF Next

\* Requests, the watcher and the reconcile keep the rows' ids distinct and their targets
\* rows, and never lose what a step of theirs needs (index.rs:205-354).
THEOREM TypesKept == Spec => []TypeInv
<1>1. Init => TypeInv
  BY InitTypes
<1>2. TypeInv /\ [Next]_vars => TypeInv'
  BY NextTypes
<1> QED
  BY <1>1, <1>2, PTL DEF Spec

\* Row ids are unique and every target is the id of a row, for any notes and requests:
\* the table's primary key and its ON DELETE SET NULL (migrations/0002_vault_index.sql).
THEOREM TypeCorrect == Spec => []TypeOK
<1>1. TypeInv => TypeOK
  BY TableIs, VaultIs DEF TypeInv, Types, Keyed, Ids, TypeOK
<1> QED
  BY <1>1, TypesKept, PTL

-----------------------------------------------------------------------------
(***************************************************************************)
(* Links heal.  Until a crash, a row whose link is not as a lookup would   *)
(* leave it has a task on its way to look it up: the one that wrote the    *)
(* row, or one whose path's keys the link may have meant.                  *)
(***************************************************************************)
Answers(t, key) == key \in KeysFor(t.path) \/ (t.to # Nothing /\ key \in KeysFor(t.to))
Due(t, row) ==
  \/ t.at = "outgoing" /\ t.row = row.id
  \/ t.at \in {"outgoing", "keys"} /\ Answers(t, row.text.key)
Healthy(p) == rows[p].target = Resolve(rows[p].text.key) \/ \E t \in Task : Due(task[t], rows[p])
Healing    == crashes = 0 => \A p \in DOMAIN rows : Healthy(p)

LEMMA LookupKept ==
  ASSUME rows \in Tables, NEW key,
         \A p : key \in KeysFor(p) => /\ p \in DOMAIN rows <=> p \in DOMAIN rows'
                                      /\ p \in DOMAIN rows => rows'[p].id = rows[p].id
  PROVE  Resolve(key)' = Resolve(key)
<1> DEFINE ids    == [p \in DOMAIN rows |-> rows[p].id]
           others == [p \in DOMAIN rows' |-> rows'[p].id]
<1>1. Resolve(key) = ResolveAmong(ids, key) /\ Resolve(key)' = ResolveAmong(others, key)
  BY DEF Resolve
<1>2. DOMAIN ids \subseteq NotePath
  BY TableIs
<1>3. ASSUME NEW p, key \in KeysFor(p)
      PROVE  /\ p \in DOMAIN ids <=> p \in DOMAIN others
             /\ p \in DOMAIN ids => ids[p] = others[p]
  BY <1>3
<1>4. ResolveAmong(ids, key) = ResolveAmong(others, key)
  <2> HIDE DEF ids, others
  <2> QED
    BY <1>2, <1>3, SameAnswers
<1> QED
  BY <1>1, <1>4

\* The tasks but t are as they were.
OnlyTask(t) == \A u \in Task \ {t} : task'[u] = task[u]

\* A row is as healthy as it was when it and the lookup of its key are as they were,
\* and the task that moves was not on its way to look it up.
LEMMA HealthyKept ==
  ASSUME NEW t \in Task, OnlyTask(t), NEW p, NEW q, NEW key, key = rows[p].text.key,
         rows'[q].text.key = key, rows'[q].id = rows[p].id,
         rows'[q].target = rows[p].target, Resolve(key)' = Resolve(key), Healthy(p),
         ~ Due(task[t], rows[p])
  PROVE  Healthy(q)'
<1>1. CASE rows[p].target = Resolve(key)
  <2>1. rows'[q].target = Resolve(key)'
    BY <1>1
  <2>2. PICK k : k = rows'[q].text.key
    OBVIOUS
  <2>3. k = key /\ (rows[q].text.key)' = k
    BY <2>2
  <2>4. Resolve(k)' = Resolve(key)'
    BY <2>3
  <2> QED
    BY <2>1, <2>3, <2>4 DEF Healthy, Resolve
<1>2. CASE rows[p].target # Resolve(key)
  <2>1. PICK u \in Task : Due(task[u], rows[p])
    BY <1>2 DEF Healthy
  <2>2. u # t
    BY <2>1
  <2>3. task'[u] = task[u]
    BY <2>2 DEF OnlyTask
  <2>4. Due(task'[u], rows'[q])
    BY <2>1, <2>3 DEF Due
  <2> QED
    BY <2>4 DEF Healthy
<1> QED
  BY <1>1, <1>2

\* The task that moves leaves the rows alone, and was not on its way to a lookup.
LEMMA QuietHealing ==
  ASSUME TypeInv, Healing, NEW t \in Task, OnlyTask(t), task[t].at \notin {"outgoing", "keys"},
         rows' = rows, crashes' = crashes
  PROVE  Healing'
<1> SUFFICES ASSUME crashes' = 0, NEW p \in DOMAIN rows' PROVE Healthy(p)'
  BY DEF Healing
<1>1. Healthy(p) /\ rows \in Tables
  BY DEF Healing, TypeInv, Types
<1>2. PICK key : key = rows[p].text.key
  OBVIOUS
<1>3. Resolve(key)' = Resolve(key)
  BY DEF Resolve
<1>4. ~ Due(task[t], rows[p])
  BY DEF Due
<1> QED
  BY <1>1, <1>2, <1>3, <1>4, HealthyKept

LEMMA StillHealing ==
  ASSUME Healing, task' = task, rows' = rows, crashes' = crashes
  PROVE  Healing'
BY DEF Healing, Healthy, Resolve, Due

LEMMA IndexesHealing ==
  ASSUME TypeInv, Healing, NEW t \in Task, Indexes(t)
  PROVE  Healing'
<1>1. /\ task[t].at = "row" /\ task[t].path \in NotePath /\ UNCHANGED <<disk, crashes>>
  BY IndexedRow
<1>2. PICK id \in Nat :
        /\ rows' = Written(rows, task[t].path,
                           [id |-> id, text |-> task[t].text, time |-> task[t].time,
                            target |-> Nothing])
        /\ task' = [task EXCEPT ![t].at = "outgoing", ![t].row = id]
        /\ \/ task[t].path \in DOMAIN rows /\ id = rows[task[t].path].id /\ issued' = issued
           \/ task[t].path \notin DOMAIN rows /\ id = issued + 1 /\ issued' = issued + 1
  BY IndexedRow
<1>3. PICK path : path = task[t].path
  OBVIOUS
<1>4. /\ DOMAIN rows' = DOMAIN rows \cup {path} /\ rows'[path].id = id
      /\ \A p \in DOMAIN rows : p # path => rows'[p] = rows[p]
      /\ path \in DOMAIN rows => rows'[path].id = rows[path].id
  BY <1>2, <1>3 DEF Written
<1>5. /\ task'[t].at = "outgoing" /\ task'[t].row = id /\ task'[t].path = path /\ OnlyTask(t)
  <2>1. task \in [Task -> TaskState] /\ task[t] \in TaskState
    BY Splits, Placed DEF TaskInv
  <2> QED
    BY <1>2, <1>3, <2>1 DEF OnlyTask, TaskState
<1> SUFFICES ASSUME crashes' = 0, NEW p \in DOMAIN rows' PROVE Healthy(p)'
  BY DEF Healing
<1>6. CASE p = path
  <2>1. Due(task'[t], rows'[p])
    BY <1>4, <1>5, <1>6 DEF Due
  <2> QED
    BY <2>1 DEF Healthy
<1>7. CASE p # path
  <2>1. PICK key : key = rows[p].text.key
    OBVIOUS
  <2>2. p \in DOMAIN rows /\ rows'[p] = rows[p] /\ Healthy(p)
    BY <1>1, <1>4, <1>7 DEF Healing
  <2>3. CASE key \in KeysFor(path)
    <3>1. Due(task'[t], rows'[p])
      BY <1>5, <2>1, <2>2, <2>3 DEF Due, Answers
    <3> QED
      BY <3>1 DEF Healthy
  <2>4. CASE key \notin KeysFor(path)
    <3>1. Resolve(key)' = Resolve(key)
      BY <1>4, <2>4, LookupKept DEF TypeInv, Types
    <3>2. ~ Due(task[t], rows[p])
      BY <1>1 DEF Due
    <3> QED
      BY <1>5, <2>1, <2>2, <3>1, <3>2, HealthyKept
  <2> QED
    BY <2>3, <2>4
<1> QED
  BY <1>6, <1>7

\* The links of these rows are looked up, and the task had no other on its way.
LEMMA LookupHeals ==
  ASSUME TypeInv, Healing, NEW t \in Task, OnlyTask(t), crashes' = crashes,
         NEW sources, Relinked(sources),
         \A p \in DOMAIN rows \ sources : Due(task[t], rows[p]) => Due(task'[t], rows[p])
  PROVE  Healing'
<1>1. rows \in Tables
  BY DEF TypeInv, Types
<1>2. /\ rows' \in Tables /\ DOMAIN rows' = DOMAIN rows
      /\ \A p \in DOMAIN rows :
           /\ rows'[p].id = rows[p].id /\ rows'[p].text = rows[p].text
           /\ p \in sources => rows'[p].target = Resolve(rows[p].text.key)
           /\ p \notin sources => rows'[p] = rows[p]
  BY <1>1, RelinkedIs
<1> SUFFICES ASSUME crashes' = 0, NEW p \in DOMAIN rows' PROVE Healthy(p)'
  BY DEF Healing
<1>3. PICK key : key = rows[p].text.key
  OBVIOUS
<1>4. Resolve(key)' = Resolve(key)
  BY <1>1, <1>2, LookupKept
<1>5. Healthy(p)
  BY <1>2 DEF Healing
<1>6. CASE p \in sources
  <2>1. rows'[p].target = Resolve(key)' /\ rows'[p].text.key = key
    BY <1>2, <1>3, <1>4, <1>6
  <2> QED
    BY <2>1 DEF Healthy, Resolve
<1>7. CASE p \notin sources /\ Due(task[t], rows[p])
  <2>1. Due(task'[t], rows'[p])
    BY <1>2, <1>7
  <2> QED
    BY <2>1 DEF Healthy
<1>8. CASE p \notin sources /\ ~ Due(task[t], rows[p])
  BY <1>2, <1>3, <1>4, <1>5, <1>8, HealthyKept
<1> QED
  BY <1>6, <1>7, <1>8

LEMMA TaskFunction == TypeInv => task \in [Task -> TaskState]
BY DEF TypeInv, Types

LEMMA AtChanges ==
  ASSUME TypeInv, NEW t \in Task, NEW at, Goes(t, at)
  PROVE  /\ OnlyTask(t) /\ task'[t].at = at /\ task'[t].path = task[t].path
         /\ task'[t].to = task[t].to
<1>1. task \in [Task -> TaskState] /\ task[t] \in TaskState
  BY TaskFunction
<1> QED
  BY <1>1 DEF Goes, OnlyTask, TaskState

LEMMA OverChanges ==
  ASSUME TypeInv, NEW t \in Task, Over(t)
  PROVE  OnlyTask(t)
<1>1. task \in [Task -> TaskState]
  BY TaskFunction
<1> QED
  BY <1>1 DEF Over, OnlyTask

LEMMA OutgoingHealing ==
  ASSUME TypeInv, Healing, NEW t \in Task, ResolvesOutgoing(t)
  PROVE  Healing'
<1>1. /\ task[t].at = "outgoing" /\ Goes(t, "keys") /\ crashes' = crashes
      /\ Relinked({p \in DOMAIN rows : rows[p].id = task[t].row})
  BY DEF ResolvesOutgoing, Place
<1>2. /\ OnlyTask(t) /\ task'[t].at = "keys" /\ task'[t].path = task[t].path
      /\ task'[t].to = task[t].to
  BY <1>1, AtChanges
<1>3. ASSUME NEW p \in DOMAIN rows \ {q \in DOMAIN rows : rows[q].id = task[t].row},
             Due(task[t], rows[p])
      PROVE  Due(task'[t], rows[p])
  BY <1>1, <1>2, <1>3 DEF Due, Answers
<1> QED
  BY <1>1, <1>2, <1>3, LookupHeals

LEMMA ReresolvesHealing ==
  ASSUME TypeInv, Healing, NEW t \in Task, Reresolves(t)
  PROVE  Healing'
<1> DEFINE keys == KeysFor(task[t].path)
                   \cup (IF task[t].to = Nothing THEN {} ELSE KeysFor(task[t].to))
<1>1. /\ task[t].at = "keys" /\ Over(t) /\ crashes' = crashes
      /\ Relinked({p \in DOMAIN rows : rows[p].text.key \in keys})
  BY DEF Reresolves, Place
<1>2. OnlyTask(t)
  BY <1>1, OverChanges
<1>3. ASSUME NEW p \in DOMAIN rows \ {q \in DOMAIN rows : rows[q].text.key \in keys},
             Due(task[t], rows[p])
      PROVE  Due(task'[t], rows[p])
  BY <1>1, <1>3 DEF Due, Answers
<1> QED
  BY <1>1, <1>2, <1>3, LookupHeals

LEMMA UnindexesHealing ==
  ASSUME TypeInv, Healing, NEW t \in Task, Unindexes(t)
  PROVE  Healing'
<1>1. PICK path : path = task[t].path
  OBVIOUS
<1>2. /\ task[t].at = "unrow" /\ path \in NotePath
      /\ Cleared(rows, rows', path) /\ Goes(t, "keys") /\ crashes' = crashes
  BY <1>1, UnindexedRow
<1>3. OnlyTask(t) /\ task'[t].at = "keys" /\ task'[t].path = path
  BY <1>1, <1>2, AtChanges
<1>4. rows \in Tables /\ Keyed(rows, issued)
  BY DEF TypeInv, Types
<1> SUFFICES ASSUME crashes' = 0, NEW p \in DOMAIN rows' PROVE Healthy(p)'
  BY DEF Healing
<1>5. PICK key : key = rows[p].text.key
  OBVIOUS
<1>6. /\ DOMAIN rows' = DOMAIN rows \ {path}
      /\ \A q \in DOMAIN rows' : rows'[q].id = rows[q].id
      /\ rows'[p].text = rows[p].text
      /\ IF path \in DOMAIN rows /\ rows[p].target = rows[path].id THEN rows'[p].target = Nothing
         ELSE rows'[p].target = rows[p].target
  BY <1>2 DEF Cleared
<1>7. Healthy(p) /\ p \in DOMAIN rows
  BY <1>2, <1>6 DEF Healing
<1>8. CASE key \in KeysFor(path)
  <2>1. Due(task'[t], rows'[p])
    BY <1>3, <1>5, <1>6, <1>8 DEF Due, Answers
  <2> QED
    BY <2>1 DEF Healthy
<1>9. CASE key \notin KeysFor(path)
  <2>1. Resolve(key)' = Resolve(key)
    BY <1>4, <1>6, <1>9, LookupKept
  <2>2. ~ Due(task[t], rows[p])
    BY <1>2 DEF Due
  <2>3. CASE rows'[p].target = rows[p].target
    BY <1>3, <1>5, <1>6, <1>7, <2>1, <2>2, <2>3, HealthyKept
  <2>4. CASE rows'[p].target # rows[p].target
    \* It was no lookup that gave it that target: its key is not one of the path's.
    <3>1. rows[p].target # Resolve(key)
      <4>1. SUFFICES ASSUME Resolve(key) = rows[path].id PROVE FALSE
        BY <1>6, <2>4
      <4>2. path \in DOMAIN rows /\ rows[path].id # Nothing
        BY <1>6, <2>4
      <4>3. CASE \E q \in DOMAIN rows : key \in KeysFor(q) /\ Resolve(key) = rows[q].id
        <5>1. PICK q \in DOMAIN rows : key \in KeysFor(q) /\ Resolve(key) = rows[q].id
          BY <4>3
        <5>2. q = path
          BY <1>4, <4>1, <4>2, <5>1 DEF Keyed
        <5> QED
          BY <1>9, <5>1, <5>2
      <4>4. CASE Resolve(key) = Nothing
        BY <4>1, <4>2, <4>4
      <4> QED
        BY <1>4, <4>3, <4>4, ResolvesToARow
    <3>2. PICK u \in Task : Due(task[u], rows[p])
      BY <1>5, <1>7, <3>1 DEF Healthy
    <3>3. task'[u] = task[u]
      BY <1>3, <2>2, <3>2 DEF OnlyTask
    <3>4. Due(task'[u], rows'[p])
      BY <1>6, <1>7, <3>2, <3>3 DEF Due
    <3> QED
      BY <3>4 DEF Healthy
  <2> QED
    BY <1>6, <2>3, <2>4
<1> QED
  BY <1>8, <1>9

LEMMA ReindexesHealing ==
  ASSUME TypeInv, Healing, NEW t \in Task, Reindexes(t)
  PROVE  Healing'
<1>1. PICK path, to : path = task[t].path /\ to = task[t].to
  OBVIOUS
<1>2. task[t].at = "rerow" /\ crashes' = crashes /\ rows \in Tables
  BY DEF Reindexes, Place, TypeInv, Types
<1>3. CASE path \in DOMAIN rows /\ to \in DOMAIN rows
  <2>1. Over(t) /\ rows' = rows
    BY <1>1, <1>3 DEF Reindexes
  <2> QED
    BY <1>2, <2>1, OverChanges, QuietHealing
<1>4. CASE path \notin DOMAIN rows
  <2>1. Goes(t, "keys") /\ rows' = rows
    BY <1>1, <1>4 DEF Reindexes, Renamed
  <2> QED
    BY <1>2, <2>1, AtChanges, QuietHealing
<1>5. CASE path \in DOMAIN rows /\ to \notin DOMAIN rows
  <2>1. Goes(t, "keys") /\ rows' = Renamed(rows, path, to)
    BY <1>1, <1>5 DEF Reindexes
  <2>2. /\ OnlyTask(t) /\ task'[t].at = "keys" /\ task'[t].path = path /\ task'[t].to = to
    BY <1>1, <2>1, AtChanges
  <2>3. to # Nothing
    <3>1. TaskInv
      BY Splits
    <3> QED
      BY <1>1, <1>2, <3>1, Placed, IndexAssumption
  <2>4. RenamedTo(rows, rows', path, to)
    BY <1>5, <2>1, RenamedIs
  <2>5. /\ DOMAIN rows' = (DOMAIN rows \ {path}) \cup {to} /\ rows'[to] = rows[path]
        /\ \A p \in DOMAIN rows \ {path} : rows'[p] = rows[p]
    BY <2>4 DEF RenamedTo
  <2> SUFFICES ASSUME crashes' = 0, NEW q \in DOMAIN rows' PROVE Healthy(q)'
    BY DEF Healing
  <2>6. PICK p \in DOMAIN rows : rows'[q] = rows[p]
    BY <1>5, <2>5
  <2>7. PICK key : key = rows[p].text.key
    OBVIOUS
  <2>8. CASE key \in KeysFor(path) \/ key \in KeysFor(to)
    <3>1. Due(task'[t], rows'[q])
      BY <2>2, <2>3, <2>6, <2>7, <2>8 DEF Due, Answers
    <3> QED
      BY <3>1 DEF Healthy
  <2>9. CASE key \notin KeysFor(path) /\ key \notin KeysFor(to)
    <3>1. Resolve(key)' = Resolve(key)
      BY <1>2, <2>5, <2>9, LookupKept
    <3>2. Healthy(p) /\ ~ Due(task[t], rows[p])
      BY <1>2 DEF Due, Healing
    <3> QED
      BY <2>2, <2>6, <2>7, <3>1, <3>2, HealthyKept
  <2> QED
    BY <2>8, <2>9
<1> QED
  BY <1>3, <1>4, <1>5

LEMMA BeginsOnly ==
  ASSUME NEW t \in Task, NEW at, NEW path, NEW text, TypeInv, Begins(t, at, path, text)
  PROVE  OnlyTask(t)
BY TaskFunction DEF Begins, OnlyTask

LEMMA InitHealing ==
  ASSUME Init
  PROVE  Healing
BY InitialRows DEF Healing, Healthy

LEMMA RequestHealing ==
  ASSUME TypeInv, Healing, NEW r \in Req, NEW p \in NotePath,
         \/ Read(r, p) \/ Delete(r, p)
         \/ \E key \in Key : Save(r, p, key)
         \/ \E q \in NotePath : Move(r, p, q)
  PROVE  Healing'
<1>1. r \in Task
  BY TasksAre
<1>2. task[r].at = "off" /\ rows' = rows /\ crashes' = crashes
  BY DEF Read, Delete, Save, Move, Busy, Place, db
<1>3. OnlyTask(r)
  <2>1. CASE Read(r, p)
    BY <1>1, <2>1, BeginsOnly DEF Read
  <2>2. CASE Delete(r, p)
    BY <1>1, <2>2, BeginsOnly DEF Delete
  <2>3. CASE \E key \in Key : Save(r, p, key)
    BY <1>1, <2>3, BeginsOnly DEF Save
  <2>4. CASE \E q \in NotePath : Move(r, p, q)
    BY <1>1, <2>4, TaskFunction DEF Move, OnlyTask
  <2> QED
    BY <2>1, <2>2, <2>3, <2>4
<1> QED
  BY <1>1, <1>2, <1>3, QuietHealing

\* The steps that pick what to look at write no row.
LEMMA PickingHealing ==
  ASSUME TypeInv, Healing, TakesBatch \/ Applies \/ Scans \/ Lists \/ Reconciles
  PROVE  Healing'
<1>1. rows' = rows /\ crashes' = crashes
  BY DEF TakesBatch, Applies, Scans, Lists, Reconciles, db
<1>2. CASE TakesBatch \/ Applies
  <2>1. task[Watcher].at \notin {"outgoing", "keys"}
    BY <1>2 DEF TakesBatch, Applies, Busy, Place
  <2>2. OnlyTask(Watcher)
    BY <1>2, TaskFunction DEF TakesBatch, Applies, Begins, OnlyTask
  <2> QED
    BY <1>1, <2>1, <2>2, TasksAre, QuietHealing
<1>3. CASE Scans \/ Lists \/ Reconciles
  <2>1. task[Reconcile].at \notin {"outgoing", "keys"}
    BY <1>3 DEF Scans, Lists, Reconciles, Place
  <2>2. OnlyTask(Reconcile)
    BY <1>3, TaskFunction DEF Scans, Lists, Reconciles, Begins, OnlyTask
  <2> QED
    BY <1>1, <2>1, <2>2, TasksAre, QuietHealing
<1> QED
  BY <1>2, <1>3

LEMMA StatsHealing ==
  ASSUME TypeInv, Healing, NEW t \in Task, Stats(t)
  PROVE  Healing'
<1>1. task[t].at = "stat" /\ rows' = rows /\ crashes' = crashes
  BY DEF Stats, Place, db
<1>2. OnlyTask(t)
  <2>1. CASE Over(t)
    BY <2>1, OverChanges
  <2>2. CASE ~Over(t)
    BY <2>2, TaskFunction DEF Stats, OnlyTask
  <2> QED
    BY <2>1, <2>2
<1> QED
  BY <1>1, <1>2, QuietHealing

LEMMA NextHealing ==
  ASSUME TypeInv, Healing, [Next]_vars
  PROVE  Healing'
<1>1. CASE UNCHANGED vars
  <2>1. task' = task /\ rows' = rows /\ crashes' = crashes
    BY <1>1 DEF vars
  <2> QED
    BY <2>1, StillHealing
<1>2. CASE \E p \in NotePath : ByHand(p)
  <2>1. task' = task /\ rows' = rows /\ crashes' = crashes
    BY <1>2 DEF ByHand, db
  <2> QED
    BY <2>1, StillHealing
<1>3. ASSUME NEW r \in Req, NEW p \in NotePath,
             \/ Read(r, p) \/ Delete(r, p)
             \/ \E key \in Key : Save(r, p, key)
             \/ \E q \in NotePath : Move(r, p, q)
      PROVE  Healing'
  BY <1>3, RequestHealing
<1>4. ASSUME NEW t \in Task,
             \/ Stats(t) \/ Indexes(t) \/ ResolvesOutgoing(t) \/ Reresolves(t)
             \/ Unindexes(t) \/ Reindexes(t)
      PROVE  Healing'
  BY <1>4, StatsHealing, IndexesHealing, OutgoingHealing, ReresolvesHealing,
     UnindexesHealing, ReindexesHealing
<1>5. CASE TakesBatch \/ Applies \/ Scans \/ Lists \/ Reconciles
  BY <1>5, PickingHealing
<1>6. CASE Crash
  <2>1. crashes' # 0
    BY <1>6 DEF Crash, TypeInv, Types
  <2> QED
    BY <2>1 DEF Healing
<1> QED
  BY <1>1, <1>2, <1>3, <1>4, <1>5, <1>6 DEF Next

\* However requests, hands, the watcher and the reconcile overlap, and however long the
\* watcher takes: when all have come to rest without a crash, every link's target is
\* what a lookup of its key finds (index.rs:332-354, the lookups after every change).
THEOREM LinksPointWhereTheySay == Spec => []LinksHeal
<1>1. Init => TypeInv /\ Healing
  BY InitTypes, InitHealing
<1>2. TypeInv /\ Healing /\ [Next]_vars => (TypeInv /\ Healing)'
  BY NextTypes, NextHealing
<1>3. TypeInv /\ Healing => LinksHeal
  <2> SUFFICES ASSUME Healing, Settled, crashes = 0, NEW p \in DOMAIN rows
               PROVE  rows[p].target = Resolve(rows[p].text.key)
    BY DEF LinksHeal, Linked
  <2>1. \A t \in Task : ~ Due(task[t], rows[p])
    BY DEF Settled, Busy, Place, Due
  <2> QED
    BY <2>1 DEF Healing, Healthy
<1> QED
  BY <1>1, <1>2, <1>3, PTL DEF Spec

-----------------------------------------------------------------------------
(***************************************************************************)
(* The index follows the files.  Whatever note's row does not match its    *)
(* file, the watcher will be told of it, or the watcher or the reconcile   *)
(* has yet to look at it.  For that: what a task is about to write of a    *)
(* note is what the note holds, or the watcher will be told; and what the  *)
(* reconcile walked is what the files hold, or the watcher will be told.   *)
(***************************************************************************)
\* Row and file are of one text, or a crash left an old text under the file's time.
Matches(p, r, f, c) ==
  /\ p \in DOMAIN r <=> p \in DOMAIN f
  /\ p \in DOMAIN r => r[p].text = f[p] \/ (c > 0 /\ r[p].time = f[p].id)
Current(s, e, f) ==
  /\ s.at \in {"stat", "row"} => s.path \in e \/ (s.path \in DOMAIN f /\ f[s.path] = s.text)
  /\ s.at = "unrow" => s.path \in e \/ s.path \notin DOMAIN f
  /\ s.at = "rerow" => s.path \in e /\ s.to \in e
Acts(s, p)   == s.at \in {"stat", "row", "unrow"} /\ s.path = p
ToCome(s, p) == s.at # "off" /\ (p \in s.todo \/ Acts(s, p) \/ s.at \in {"scan", "list"})
Agrees(found, f, p) ==
  /\ p \in DOMAIN found <=> p \in DOMAIN f
  /\ p \in DOMAIN found => found[p] = f[p]
\* The reconcile passes over a path it found unchanged.
Passed(s, p) ==
  p \in DOMAIN s.found /\ p \in DOMAIN s.listed /\ s.listed[p].time = s.found[p].id

AllCurrent == \A t \in Task : Current(task[t], events, files)
Noticed(p) == \/ p \in events \/ ToCome(task[Watcher], p) \/ ToCome(task[Reconcile], p)
              \/ Matches(p, rows, files, crashes)
AllNoticed == \A p \in NotePath : Noticed(p)
OneLooks   == /\ task[Watcher].at \notin {"scan", "list"}
              /\ task[Reconcile].at # "off" => crashes > 0 /\ task[Watcher].at = "off"
Walked     == task[Reconcile].at \notin {"off", "scan"} =>
                \A p \in NotePath \ events : Agrees(task[Reconcile].found, files, p)
Compared   == task[Reconcile].at \notin {"off", "scan", "list"} =>
                \A p \in NotePath \ events :
                  Passed(task[Reconcile], p) => Matches(p, rows, files, crashes)
Following  == AllCurrent /\ AllNoticed /\ OneLooks /\ Walked /\ Compared

\* Files change, by hand or by a request; the watcher will be told which.
LEMMA FilesFollow ==
  ASSUME Following, NEW C, events' = events \cup C,
         \A p \in NotePath \ C : Agrees(files', files, p),
         rows' = rows, crashes' = crashes, task'[Watcher] = task[Watcher],
         task'[Reconcile] = task[Reconcile],
         \A t \in Task : task'[t] = task[t] \/ Current(task'[t], events', files'),
         \A t \in Task : task[t].at \in {"stat", "row", "unrow"} => task[t].path \in NotePath
  PROVE  Following'
<1>1. ASSUME NEW p \in NotePath, p \notin events', Matches(p, rows, files, crashes)
      PROVE  Matches(p, rows', files', crashes')
  BY <1>1 DEF Matches, Agrees
<1>2. AllCurrent'
  <2>1. ASSUME NEW t \in Task PROVE Current(task'[t], events', files')
    <3>1. CASE task'[t] = task[t]
      <4>1. Current(task[t], events, files)
        BY DEF Following, AllCurrent
      <4> QED
        BY <3>1, <4>1 DEF Current, Agrees
    <3> QED
      BY <3>1
  <2> QED
    BY <2>1 DEF AllCurrent
<1>3. AllNoticed'
  BY <1>1 DEF Following, AllNoticed, Noticed
<1>4. OneLooks'
  BY DEF Following, OneLooks
<1>5. Walked'
  BY DEF Following, Walked, Agrees
<1>6. Compared'
  BY <1>1 DEF Following, Compared
<1> QED
  BY <1>2, <1>3, <1>4, <1>5, <1>6 DEF Following

\* A task goes on with what it is at; it may leave rows matching that did not, and
\* of what it has not to look at any more the rows match.
LEMMA StepFollows ==
  ASSUME Following, NEW t \in Task, OnlyTask(t),
         files' = files, events' = events, crashes' = crashes,
         task[t].at \notin {"off", "scan", "list"}, task'[t].at \notin {"scan", "list"},
         task'[t].at # "off" => /\ task'[t].found = task[t].found
                                /\ task'[t].listed = task[t].listed,
         Current(task'[t], events, files),
         \A p \in NotePath : Matches(p, rows, files, crashes)
                               => p \in events \/ Matches(p, rows', files, crashes),
         t \in {Watcher, Reconcile} =>
           \A p \in NotePath : ToCome(task[t], p)
                => \/ p \in events \/ ToCome(task'[t], p) \/ Matches(p, rows', files, crashes)
  PROVE  Following'
<1>1. Watcher \in Task /\ Reconcile \in Task /\ Watcher # Reconcile
  BY TasksAre, IndexAssumption
<1>2. AllCurrent'
  <2>1. ASSUME NEW u \in Task PROVE Current(task'[u], events', files')
    BY DEF Following, AllCurrent, OnlyTask
  <2> QED
    BY <2>1 DEF AllCurrent
<1>3. AllNoticed'
  <2>1. ASSUME NEW p \in NotePath PROVE Noticed(p)'
    <3>1. Noticed(p)
      BY DEF Following, AllNoticed
    <3>2. CASE p \in events \/ Matches(p, rows, files, crashes)
      BY <3>2 DEF Noticed
    <3>3. ASSUME NEW u \in {Watcher, Reconcile}, ToCome(task[u], p) PROVE Noticed(p)'
      <4>1. CASE u = t
        BY <3>3, <4>1 DEF Noticed
      <4>2. CASE u # t
        BY <1>1, <3>3, <4>2 DEF Noticed, OnlyTask
      <4> QED
        BY <4>1, <4>2
    <3> QED
      BY <3>1, <3>2, <3>3 DEF Noticed
  <2> QED
    BY <2>1 DEF AllNoticed
<1>4. OneLooks'
  BY <1>1 DEF Following, OneLooks, OnlyTask
<1>5. Walked'
  <2>1. CASE t = Reconcile
    BY <2>1 DEF Following, Walked
  <2>2. CASE t # Reconcile
    BY <1>1, <2>2 DEF Following, Walked, OnlyTask
  <2> QED
    BY <2>1, <2>2
<1>6. Compared'
  <2>1. CASE t = Reconcile
    BY <2>1 DEF Following, Compared, Passed
  <2>2. CASE t # Reconcile
    BY <1>1, <2>2 DEF Following, Compared, OnlyTask
  <2> QED
    BY <2>1, <2>2
<1> QED
  BY <1>2, <1>3, <1>4, <1>5, <1>6 DEF Following

LEMMA StillFollows ==
  ASSUME Following, UNCHANGED vars
  PROVE  Following'
<1>1. /\ files' = files /\ rows' = rows /\ events' = events /\ task' = task /\ crashes' = crashes
  BY DEF vars
<1> QED
  BY <1>1 DEF Following, AllCurrent, AllNoticed, Noticed, OneLooks, Walked, Compared

LEMMA InitFollows ==
  ASSUME Init
  PROVE  Following
<1>1. task = [t \in Task |-> Off] /\ files = AtFirst
  BY DEF Init
<1>2. \A t \in Task : task[t].at = "off"
  BY <1>1 DEF Off
<1>3. ASSUME NEW p \in NotePath PROVE Matches(p, rows, files, crashes)
  BY <1>1, InitialRows DEF Matches
<1> QED
  BY <1>2, <1>3, TasksAre
  DEF Following, AllCurrent, AllNoticed, Noticed, OneLooks, Walked, Compared, Current

-----------------------------------------------------------------------------
LEMMA PathsTyped ==
  ASSUME TypeInv
  PROVE  \A t \in Task : task[t].at \in {"stat", "row", "unrow"} => task[t].path \in NotePath
BY Splits, Placed

LEMMA WrittenAgrees ==
  ASSUME NEW path, NEW text, files' = Written(files, path, text)
  PROVE  /\ \A p \in NotePath \ {path} : Agrees(files', files, p)
         /\ path \in DOMAIN files' /\ files'[path] = text
BY DEF Written, Agrees

LEMMA WithoutAgrees ==
  ASSUME NEW path, files' = Without(files, path)
  PROVE  /\ \A p \in NotePath \ {path} : Agrees(files', files, p)
         /\ path \notin DOMAIN files'
BY DEF Without, Restrict, Agrees

LEMMA RenamedAgrees ==
  ASSUME NEW path, NEW to, files' = Renamed(files, path, to), path \in DOMAIN files,
         to \notin DOMAIN files
  PROVE  \A p \in NotePath \ {path, to} : Agrees(files', files, p)
<1>1. RenamedTo(files, files', path, to)
  BY RenamedIs
<1> QED
  BY <1>1 DEF RenamedTo, Agrees

LEMMA ReqsAreOthers ==
  ASSUME NEW r \in Req
  PROVE  r \in Task /\ r # Watcher /\ r # Reconcile
BY IndexAssumption DEF Task

LEMMA BegunTask ==
  ASSUME TypeInv, NEW t \in Task, NEW at, NEW path, NEW text, Begins(t, at, path, text)
  PROVE  /\ OnlyTask(t)
         /\ task'[t].at = at /\ task'[t].path = path /\ task'[t].text = text
         /\ task'[t].todo = task[t].todo \ {path}
         /\ task'[t].found = task[t].found /\ task'[t].listed = task[t].listed
<1>1. task \in [Task -> TaskState] /\ task[t] \in TaskState
  BY TaskFunction
<1>2. OnlyTask(t)
  BY <1>1 DEF Begins, OnlyTask
<1>3. task'[t] = [task[t] EXCEPT !.at = at, !.path = path, !.text = text,
                                 !.todo = task[t].todo \ {path}]
  BY <1>1 DEF Begins
<1>4. PICK todo : todo = task[t].todo \ {path}
  OBVIOUS
<1>5. task'[t] = [task[t] EXCEPT !.at = at, !.path = path, !.text = text, !.todo = todo]
  BY <1>3, <1>4
<1> QED
  BY <1>1, <1>2, <1>4, <1>5 DEF TaskState

LEMMA OverTask ==
  ASSUME TypeInv, NEW t \in Task, Over(t)
  PROVE  /\ OnlyTask(t) /\ task'[t].at \in {"off", "each"}
         /\ t \in Req => task'[t].at = "off"
         /\ t \notin Req => /\ task'[t].at = "each" /\ task'[t].todo = task[t].todo
                            /\ task'[t].found = task[t].found
                            /\ task'[t].listed = task[t].listed
<1>1. task \in [Task -> TaskState]
  BY TaskFunction
<1>2. OnlyTask(t) /\ task'[t] = After(t)
  BY <1>1 DEF Over, OnlyTask
<1> QED
  BY <1>2 DEF After, Off

LEMMA ByHandFollows ==
  ASSUME TypeInv, Following, NEW path \in NotePath, ByHand(path)
  PROVE  Following'
<1>1. rows' = rows /\ crashes' = crashes /\ task' = task /\ events' = events \cup {path}
  BY DEF ByHand, db, Wrote
<1>2. \A p \in NotePath \ {path} : Agrees(files', files, p)
  BY WrittenAgrees, WithoutAgrees DEF ByHand, Wrote
<1> QED
  BY <1>1, <1>2, PathsTyped, FilesFollow

LEMMA SaveFollows ==
  ASSUME TypeInv, Following, NEW r \in Req, NEW path \in NotePath, NEW key \in Key,
         Save(r, path, key)
  PROVE  Following'
<1>1. rows' = rows /\ crashes' = crashes /\ events' = events \cup {path}
  BY DEF Save, db, Wrote
<1>2. PICK text : text = Text(key)
  OBVIOUS
<1>3. /\ \A p \in NotePath \ {path} : Agrees(files', files, p)
      /\ path \in DOMAIN files' /\ files'[path] = text
  BY <1>2, WrittenAgrees DEF Save, Wrote
<1>4. /\ OnlyTask(r) /\ task'[r].at = "stat" /\ task'[r].path = path /\ task'[r].text = text
  BY <1>2, ReqsAreOthers, BegunTask DEF Save
<1>5. Current(task'[r], events', files')
  BY <1>3, <1>4 DEF Current
<1> QED
  BY <1>1, <1>3, <1>4, <1>5, ReqsAreOthers, TasksAre, PathsTyped, FilesFollow DEF OnlyTask

LEMMA ReadFollows ==
  ASSUME TypeInv, Following, NEW r \in Req, NEW path \in NotePath, Read(r, path)
  PROVE  Following'
<1>1. /\ rows' = rows /\ crashes' = crashes /\ events' = events \cup {} /\ files' = files
      /\ path \in DOMAIN files
  BY DEF Read, db, disk
<1>2. \A p \in NotePath \ {} : Agrees(files', files, p)
  BY <1>1 DEF Agrees
<1>3. PICK text : text = files[path]
  OBVIOUS
<1>4. /\ OnlyTask(r) /\ task'[r].at = "stat" /\ task'[r].path = path /\ task'[r].text = text
  BY <1>3, ReqsAreOthers, BegunTask DEF Read
<1>5. Current(task'[r], events', files')
  BY <1>1, <1>3, <1>4 DEF Current
<1> QED
  BY <1>1, <1>2, <1>4, <1>5, ReqsAreOthers, TasksAre, PathsTyped, FilesFollow DEF OnlyTask

LEMMA DeleteFollows ==
  ASSUME TypeInv, Following, NEW r \in Req, NEW path \in NotePath, Delete(r, path)
  PROVE  Following'
<1>1. rows' = rows /\ crashes' = crashes /\ events' = events \cup {path}
  BY DEF Delete, db
<1>2. \A p \in NotePath \ {path} : Agrees(files', files, p)
  BY WithoutAgrees DEF Delete
<1>3. OnlyTask(r) /\ task'[r].at = "unrow" /\ task'[r].path = path
  BY ReqsAreOthers, BegunTask DEF Delete
<1>4. Current(task'[r], events', files')
  BY <1>1, <1>3 DEF Current
<1> QED
  BY <1>1, <1>2, <1>3, <1>4, ReqsAreOthers, TasksAre, PathsTyped, FilesFollow DEF OnlyTask

LEMMA MoveFollows ==
  ASSUME TypeInv, Following, NEW r \in Req, NEW path \in NotePath, NEW to \in NotePath,
         Move(r, path, to)
  PROVE  Following'
<1>1. rows' = rows /\ crashes' = crashes /\ events' = events \cup {path, to}
  BY DEF Move, db
<1>2. \A p \in NotePath \ {path, to} : Agrees(files', files, p)
  BY RenamedAgrees DEF Move
<1>3. task'[r] = [Off EXCEPT !.at = "rerow", !.path = path, !.to = to] /\ OnlyTask(r)
  BY TaskFunction, ReqsAreOthers DEF Move, OnlyTask
<1>4. task'[r].at = "rerow" /\ task'[r].path = path /\ task'[r].to = to
  BY <1>3 DEF Off
<1>5. Current(task'[r], events', files')
  BY <1>1, <1>4 DEF Current
<1> QED
  BY <1>1, <1>2, <1>3, <1>5, ReqsAreOthers, TasksAre, PathsTyped, FilesFollow DEF OnlyTask

LEMMA IsCurrent ==
  ASSUME Following, NEW t \in Task
  PROVE  Current(task[t], events, files)
BY DEF Following, AllCurrent

LEMMA StatsFollows ==
  ASSUME TypeInv, Following, NEW t \in Task, Stats(t)
  PROVE  Following'
<1>1. /\ task[t].at = "stat" /\ rows' = rows /\ files' = files /\ events' = events
      /\ crashes' = crashes
  BY DEF Stats, Place, db, disk
<1>2. PICK path : path = task[t].path
  OBVIOUS
<1>3. path \in events \/ (path \in DOMAIN files /\ files[path] = task[t].text)
  BY <1>1, <1>2, IsCurrent DEF Current
<1>4. CASE /\ Over(t)
           /\ \/ path \notin DOMAIN files
              \/ t = Watcher /\ path \in DOMAIN rows /\ rows[path].text = task[t].text
  <2>1. /\ OnlyTask(t) /\ task'[t].at \in {"off", "each"}
        /\ t \notin Req => /\ task'[t].at = "each" /\ task'[t].todo = task[t].todo
                           /\ task'[t].found = task[t].found
                           /\ task'[t].listed = task[t].listed
        /\ t \in Req => task'[t].at = "off"
    BY <1>4, OverTask
  <2>2. path \in events \/ Matches(path, rows, files, crashes)
    BY <1>3, <1>4 DEF Matches
  <2>3. Current(task'[t], events, files)
    BY <2>1 DEF Current
  <2>4. ASSUME t \in {Watcher, Reconcile}, NEW p \in NotePath, ToCome(task[t], p)
        PROVE  p \in events \/ ToCome(task'[t], p) \/ Matches(p, rows', files, crashes)
    BY <1>1, <1>2, <2>1, <2>2, <2>4, ReqsAreOthers DEF ToCome, Acts
  <2> QED
    BY <1>1, <2>1, <2>3, <2>4, StepFollows
<1>5. CASE task' = [task EXCEPT ![t].at = "row", ![t].time = files[path].id]
  <2>1. task[t] \in TaskState /\ task \in [Task -> TaskState]
    BY TaskFunction
  <2>2. /\ OnlyTask(t) /\ task'[t].at = "row" /\ task'[t].path = path
        /\ task'[t].text = task[t].text /\ task'[t].todo = task[t].todo
        /\ task'[t].found = task[t].found /\ task'[t].listed = task[t].listed
    BY <1>2, <1>5, <2>1 DEF OnlyTask, TaskState
  <2>3. Current(task'[t], events, files)
    BY <1>3, <2>2 DEF Current
  <2>4. ASSUME NEW p \in NotePath, ToCome(task[t], p)
        PROVE  ToCome(task'[t], p)
    BY <1>1, <1>2, <2>2, <2>4 DEF ToCome, Acts
  <2> QED
    BY <1>1, <2>2, <2>3, <2>4, StepFollows
<1> QED
  BY <1>2, <1>4, <1>5 DEF Stats

LEMMA IndexesFollows ==
  ASSUME TypeInv, Following, NEW t \in Task, Indexes(t)
  PROVE  Following'
<1>1. /\ task[t].at = "row" /\ UNCHANGED <<disk, crashes>>
  BY IndexedRow
<1>2. PICK path, text, time : path = task[t].path /\ text = task[t].text /\ time = task[t].time
  OBVIOUS
<1>3. PICK id \in Nat :
        /\ rows' = Written(rows, path,
                           [id |-> id, text |-> text, time |-> time, target |-> Nothing])
        /\ task' = [task EXCEPT ![t].at = "outgoing", ![t].row = id]
  BY <1>2, IndexedRow
<1>4. /\ DOMAIN rows' = DOMAIN rows \cup {path} /\ rows'[path].text = text
      /\ \A p \in DOMAIN rows : p # path => rows'[p] = rows[p]
  BY <1>3 DEF Written
<1>5. /\ OnlyTask(t) /\ task'[t].at = "outgoing" /\ task'[t].todo = task[t].todo
      /\ task'[t].found = task[t].found /\ task'[t].listed = task[t].listed
  <2>1. task[t] \in TaskState /\ task \in [Task -> TaskState]
    BY TaskFunction
  <2> QED
    BY <1>3, <2>1 DEF OnlyTask, TaskState
<1>6. path \in events \/ (path \in DOMAIN files /\ files[path] = text)
  BY <1>1, <1>2, IsCurrent DEF Current
<1>7. path \in events \/ Matches(path, rows', files, crashes)
  BY <1>4, <1>6 DEF Matches
<1>8. ASSUME NEW p \in NotePath, Matches(p, rows, files, crashes)
      PROVE  p \in events \/ Matches(p, rows', files, crashes)
  BY <1>4, <1>7, <1>8 DEF Matches
<1>9. ASSUME NEW p \in NotePath, ToCome(task[t], p)
      PROVE  p \in events \/ ToCome(task'[t], p) \/ Matches(p, rows', files, crashes)
  BY <1>1, <1>2, <1>5, <1>7, <1>9 DEF ToCome, Acts
<1>10. Current(task'[t], events, files)
  BY <1>5 DEF Current
<1> QED
  BY <1>1, <1>5, <1>8, <1>9, <1>10, StepFollows DEF disk

\* A lookup leaves every row matching that did.
LEMMA LookupMatches ==
  ASSUME TypeInv, NEW sources, Relinked(sources), NEW p, Matches(p, rows, files, crashes)
  PROVE  Matches(p, rows', files, crashes)
<1>1. rows \in Tables
  BY DEF TypeInv, Types
<1>2. /\ DOMAIN rows' = DOMAIN rows
      /\ \A q \in DOMAIN rows : rows'[q].text = rows[q].text /\ rows'[q].time = rows[q].time
  BY <1>1, RelinkedIs
<1> QED
  BY <1>2 DEF Matches

LEMMA GoesTask ==
  ASSUME TypeInv, NEW t \in Task, NEW at, Goes(t, at)
  PROVE  /\ OnlyTask(t) /\ task'[t].at = at /\ task'[t].todo = task[t].todo
         /\ task'[t].found = task[t].found /\ task'[t].listed = task[t].listed
<1>1. task \in [Task -> TaskState] /\ task[t] \in TaskState
  BY TaskFunction
<1> QED
  BY <1>1 DEF Goes, OnlyTask, TaskState

LEMMA OutgoingFollows ==
  ASSUME TypeInv, Following, NEW t \in Task, ResolvesOutgoing(t)
  PROVE  Following'
<1>1. /\ task[t].at = "outgoing" /\ Goes(t, "keys") /\ files' = files /\ events' = events
      /\ crashes' = crashes
  BY DEF ResolvesOutgoing, Place, disk
<1>2. PICK sources : Relinked(sources)
  BY DEF ResolvesOutgoing
<1>3. /\ OnlyTask(t) /\ task'[t].at = "keys" /\ task'[t].todo = task[t].todo
      /\ task'[t].found = task[t].found /\ task'[t].listed = task[t].listed
  BY <1>1, GoesTask
<1>4. Current(task'[t], events, files)
  BY <1>3 DEF Current
<1>5. \A p \in NotePath : Matches(p, rows, files, crashes) => Matches(p, rows', files, crashes)
  BY <1>2, LookupMatches
<1>6. \A p \in NotePath : ToCome(task[t], p) => ToCome(task'[t], p)
  BY <1>1, <1>3 DEF ToCome, Acts
<1> QED
  BY <1>1, <1>3, <1>4, <1>5, <1>6, StepFollows

LEMMA ReresolvesFollows ==
  ASSUME TypeInv, Following, NEW t \in Task, Reresolves(t)
  PROVE  Following'
<1>1. /\ task[t].at = "keys" /\ Over(t) /\ files' = files /\ events' = events
      /\ crashes' = crashes
  BY DEF Reresolves, Place, disk
<1>2. PICK sources : Relinked(sources)
  BY DEF Reresolves
<1>3. /\ OnlyTask(t) /\ task'[t].at \in {"off", "each"}
      /\ t \in Req => task'[t].at = "off"
      /\ t \notin Req => /\ task'[t].at = "each" /\ task'[t].todo = task[t].todo
                         /\ task'[t].found = task[t].found /\ task'[t].listed = task[t].listed
  BY <1>1, OverTask
<1>4. Current(task'[t], events, files)
  BY <1>3 DEF Current
<1>5. \A p \in NotePath : Matches(p, rows, files, crashes) => Matches(p, rows', files, crashes)
  BY <1>2, LookupMatches
<1>6. t \in {Watcher, Reconcile} =>
        \A p \in NotePath : ToCome(task[t], p) => ToCome(task'[t], p)
  BY <1>1, <1>3, ReqsAreOthers DEF ToCome, Acts
<1> QED
  BY <1>1, <1>3, <1>4, <1>5, <1>6, StepFollows

LEMMA UnindexesFollows ==
  ASSUME TypeInv, Following, NEW t \in Task, Unindexes(t)
  PROVE  Following'
<1>1. PICK path : path = task[t].path
  OBVIOUS
<1>2. /\ task[t].at = "unrow" /\ Cleared(rows, rows', path)
      /\ Goes(t, "keys") /\ UNCHANGED <<disk, issued, crashes>>
  BY <1>1, UnindexedRow
<1>3. /\ OnlyTask(t) /\ task'[t].at = "keys" /\ task'[t].todo = task[t].todo
      /\ task'[t].found = task[t].found /\ task'[t].listed = task[t].listed
  BY <1>2, GoesTask
<1>4. path \in events \/ path \notin DOMAIN files
  BY <1>1, <1>2, IsCurrent DEF Current
<1>5. path \in events \/ Matches(path, rows', files, crashes)
  BY <1>2, <1>4 DEF Matches, Cleared
<1>6. ASSUME NEW p \in NotePath, Matches(p, rows, files, crashes)
      PROVE  p \in events \/ Matches(p, rows', files, crashes)
  BY <1>2, <1>5, <1>6 DEF Matches, Cleared
<1>7. ASSUME NEW p \in NotePath, ToCome(task[t], p)
      PROVE  p \in events \/ ToCome(task'[t], p) \/ Matches(p, rows', files, crashes)
  BY <1>1, <1>2, <1>3, <1>5, <1>7 DEF ToCome, Acts
<1>8. Current(task'[t], events, files)
  BY <1>3 DEF Current
<1> QED
  BY <1>2, <1>3, <1>6, <1>7, <1>8, StepFollows DEF disk

LEMMA ReindexesFollows ==
  ASSUME TypeInv, Following, NEW t \in Task, Reindexes(t)
  PROVE  Following'
<1>1. PICK path, to : path = task[t].path /\ to = task[t].to
  OBVIOUS
<1>2. /\ task[t].at = "rerow" /\ files' = files /\ events' = events /\ crashes' = crashes
  BY DEF Reindexes, Place, disk
<1>3. path \in events /\ to \in events
  BY <1>1, <1>2, IsCurrent DEF Current
<1>4. /\ OnlyTask(t) /\ task'[t].at \in {"off", "each", "keys"}
      /\ task'[t].at # "off" =>
           task'[t].found = task[t].found /\ task'[t].listed = task[t].listed
      /\ t \notin Req => task'[t].at # "off" /\ task'[t].todo = task[t].todo
  BY GoesTask, OverTask DEF Reindexes
<1>5. ASSUME NEW p \in NotePath, Matches(p, rows, files, crashes)
      PROVE  p \in events \/ Matches(p, rows', files, crashes)
  <2>1. CASE rows' = rows
    BY <1>5, <2>1
  <2>2. CASE path \in DOMAIN rows /\ to \notin DOMAIN rows /\ rows' = Renamed(rows, path, to)
    <3>1. RenamedTo(rows, rows', path, to)
      BY <2>2, RenamedIs
    <3> QED
      BY <1>3, <1>5, <3>1 DEF RenamedTo, Matches
  <2>3. CASE path \notin DOMAIN rows /\ rows' = Renamed(rows, path, to)
    BY <1>5, <2>3 DEF Renamed
  <2> QED
    BY <1>1, <2>1, <2>2, <2>3 DEF Reindexes
<1>6. t \in {Watcher, Reconcile} =>
        \A p \in NotePath : ToCome(task[t], p) => ToCome(task'[t], p)
  BY <1>2, <1>4, ReqsAreOthers DEF ToCome, Acts
<1>7. Current(task'[t], events, files)
  BY <1>4 DEF Current
<1> QED
  BY <1>2, <1>4, <1>5, <1>6, <1>7, StepFollows

LEMMA AppliesFollows ==
  ASSUME TypeInv, Following, Applies
  PROVE  Following'
<1>1. /\ Watcher \in Task /\ task[Watcher].at = "each" /\ files' = files /\ rows' = rows
      /\ events' = events /\ crashes' = crashes
  BY TasksAre DEF Applies, Place, disk, db
<1>2. CASE task[Watcher].todo = {} /\ task' = [task EXCEPT ![Watcher] = Off]
  <2>1. OnlyTask(Watcher) /\ task'[Watcher].at = "off"
    BY <1>1, <1>2, TaskFunction DEF OnlyTask, Off
  <2>2. \A p \in NotePath : ~ ToCome(task[Watcher], p)
    BY <1>1, <1>2 DEF ToCome, Acts
  <2>3. Current(task'[Watcher], events, files)
    BY <2>1 DEF Current
  <2> QED
    BY <1>1, <2>1, <2>2, <2>3, StepFollows
<1>3. ASSUME NEW path \in task[Watcher].todo,
             \/ path \in DOMAIN files /\ Begins(Watcher, "stat", path, files[path])
             \/ path \notin DOMAIN files /\ Begins(Watcher, "unrow", path, Nothing)
      PROVE  Following'
  <2>1. /\ OnlyTask(Watcher)
        /\ task'[Watcher].at \in {"stat", "unrow"} /\ task'[Watcher].path = path
        /\ task'[Watcher].at = "stat" =>
             path \in DOMAIN files /\ task'[Watcher].text = files[path]
        /\ task'[Watcher].at = "unrow" => path \notin DOMAIN files
        /\ task'[Watcher].todo = task[Watcher].todo \ {path}
        /\ task'[Watcher].found = task[Watcher].found
        /\ task'[Watcher].listed = task[Watcher].listed
    BY <1>1, <1>3, BegunTask
  <2>2. Current(task'[Watcher], events, files)
    BY <2>1 DEF Current
  <2>3. \A p \in NotePath : ToCome(task[Watcher], p) => ToCome(task'[Watcher], p)
    BY <1>1, <2>1 DEF ToCome, Acts
  <2> QED
    BY <1>1, <2>1, <2>2, <2>3, StepFollows
<1> QED
  BY <1>2, <1>3 DEF Applies

LEMMA ReconcilesFollows ==
  ASSUME TypeInv, Following, Reconciles
  PROVE  Following'
<1>1. /\ Reconcile \in Task /\ task[Reconcile].at = "each" /\ files' = files /\ rows' = rows
      /\ events' = events /\ crashes' = crashes
  BY TasksAre DEF Reconciles, Place, disk, db
<1>2. task[Reconcile] \in TaskState /\ task \in [Task -> TaskState]
  BY <1>1, TaskFunction
<1>3. /\ \A p \in NotePath \ events : Agrees(task[Reconcile].found, files, p)
      /\ \A p \in NotePath \ events :
           Passed(task[Reconcile], p) => Matches(p, rows, files, crashes)
  BY <1>1 DEF Following, Walked, Compared
<1>4. CASE task[Reconcile].todo = {} /\ task' = [task EXCEPT ![Reconcile] = Off]
  <2>1. OnlyTask(Reconcile) /\ task'[Reconcile].at = "off"
    BY <1>1, <1>4, TaskFunction DEF OnlyTask, Off
  <2>2. \A p \in NotePath : ~ ToCome(task[Reconcile], p)
    BY <1>1, <1>4 DEF ToCome, Acts
  <2>3. Current(task'[Reconcile], events, files)
    BY <2>1 DEF Current
  <2> QED
    BY <1>1, <2>1, <2>2, <2>3, StepFollows
<1>5. ASSUME NEW path \in task[Reconcile].todo, Found(path),
             Unchanged(path) \/ path \notin DOMAIN files,
             task' = [task EXCEPT ![Reconcile].todo = @ \ {path}]
      PROVE  Following'
  <2>1. PICK todo : todo = task[Reconcile].todo \ {path}
    OBVIOUS
  <2>2. task' = [task EXCEPT ![Reconcile].todo = todo]
    BY <1>5, <2>1
  <2>3. /\ OnlyTask(Reconcile) /\ task'[Reconcile].at = "each"
        /\ task'[Reconcile].todo = todo
        /\ task'[Reconcile].found = task[Reconcile].found
        /\ task'[Reconcile].listed = task[Reconcile].listed
    BY <1>1, <1>2, <2>2 DEF OnlyTask, TaskState
  <2>4. path \in NotePath
    BY <1>2, ATask
  <2>5. path \in events \/ Matches(path, rows, files, crashes)
    BY <1>3, <1>5, <2>4 DEF Found, Unchanged, Passed, Agrees
  <2>6. Current(task'[Reconcile], events, files)
    BY <2>3 DEF Current
  <2>7. ASSUME NEW p \in NotePath, ToCome(task[Reconcile], p)
        PROVE  p \in events \/ ToCome(task'[Reconcile], p) \/ Matches(p, rows', files, crashes)
    BY <1>1, <2>1, <2>3, <2>5, <2>7 DEF ToCome, Acts
  <2> QED
    BY <1>1, <2>3, <2>6, <2>7, StepFollows
<1>6. ASSUME NEW path \in task[Reconcile].todo,
             \/ path \in DOMAIN files /\ Begins(Reconcile, "stat", path, files[path])
             \/ ~Found(path) /\ Begins(Reconcile, "unrow", path, Nothing)
      PROVE  Following'
  <2>1. /\ OnlyTask(Reconcile)
        /\ task'[Reconcile].at \in {"stat", "unrow"} /\ task'[Reconcile].path = path
        /\ task'[Reconcile].at = "stat" =>
             path \in DOMAIN files /\ task'[Reconcile].text = files[path]
        /\ task'[Reconcile].at = "unrow" => ~Found(path)
        /\ task'[Reconcile].todo = task[Reconcile].todo \ {path}
        /\ task'[Reconcile].found = task[Reconcile].found
        /\ task'[Reconcile].listed = task[Reconcile].listed
    BY <1>1, <1>6, BegunTask
  <2>2. path \in NotePath
    BY <1>2, ATask
  <2>3. ~Found(path) => path \in events \/ path \notin DOMAIN files
    BY <1>3, <2>2 DEF Found, Agrees
  <2>4. Current(task'[Reconcile], events, files)
    BY <2>1, <2>3 DEF Current
  <2>5. \A p \in NotePath : ToCome(task[Reconcile], p) => ToCome(task'[Reconcile], p)
    BY <1>1, <2>1 DEF ToCome, Acts
  <2> QED
    BY <1>1, <2>1, <2>4, <2>5, StepFollows
<1> QED
  BY <1>4, <1>5, <1>6 DEF Reconciles

LEMMA ScansFollows ==
  ASSUME TypeInv, Following, Scans
  PROVE  Following'
<1>1. /\ Reconcile \in Task /\ Watcher \in Task /\ Watcher # Reconcile
      /\ task[Reconcile] \in TaskState /\ task \in [Task -> TaskState]
  BY TasksAre, TaskFunction, IndexAssumption
<1>2. /\ task[Reconcile].at = "scan" /\ files' = files /\ rows' = rows
      /\ events' = events /\ crashes' = crashes
  BY DEF Scans, Place, disk, db
<1>3. /\ OnlyTask(Reconcile) /\ task'[Reconcile].at = "list" /\ task'[Reconcile].found = files
  BY <1>1 DEF Scans, OnlyTask, TaskState
<1>4. AllCurrent'
  <2>1. ASSUME NEW t \in Task PROVE Current(task'[t], events', files')
    <3>1. CASE t = Reconcile
      BY <1>3, <3>1 DEF Current
    <3>2. CASE t # Reconcile
      BY <1>2, <1>3, <3>2 DEF Following, AllCurrent, OnlyTask
    <3> QED
      BY <3>1, <3>2
  <2> QED
    BY <2>1 DEF AllCurrent
<1>5. AllNoticed'
  BY <1>3 DEF AllNoticed, Noticed, ToCome
<1>6. OneLooks'
  BY <1>1, <1>2, <1>3 DEF Following, OneLooks, OnlyTask
<1>7. Walked' /\ Compared'
  BY <1>2, <1>3 DEF Walked, Compared, Agrees
<1> QED
  BY <1>4, <1>5, <1>6, <1>7 DEF Following

LEMMA ListsFollows ==
  ASSUME TypeInv, Following, Lists
  PROVE  Following'
<1>1. /\ Reconcile \in Task /\ Watcher \in Task /\ Watcher # Reconcile
      /\ task[Reconcile] \in TaskState /\ task \in [Task -> TaskState]
  BY TasksAre, TaskFunction, IndexAssumption
<1>2. /\ task[Reconcile].at = "list" /\ files' = files /\ rows' = rows
      /\ events' = events /\ crashes' = crashes
  BY DEF Lists, Place, disk, db
<1>3. /\ OnlyTask(Reconcile) /\ task'[Reconcile].at = "each"
      /\ task'[Reconcile].found = task[Reconcile].found /\ task'[Reconcile].listed = rows
      /\ task'[Reconcile].todo = DOMAIN task[Reconcile].found \cup DOMAIN rows
  <2>1. PICK todo : todo = DOMAIN task[Reconcile].found \cup DOMAIN rows
    OBVIOUS
  <2>2. task' = [task EXCEPT ![Reconcile].at = "each", ![Reconcile].listed = rows,
                             ![Reconcile].todo = todo]
    BY <2>1 DEF Lists
  <2> QED
    BY <1>1, <2>1, <2>2 DEF OnlyTask, TaskState
<1>4. \A p \in NotePath \ events : Agrees(task[Reconcile].found, files, p)
  BY <1>2 DEF Following, Walked
<1>5. AllCurrent'
  <2>1. ASSUME NEW t \in Task PROVE Current(task'[t], events', files')
    <3>1. CASE t = Reconcile
      BY <1>3, <3>1 DEF Current
    <3>2. CASE t # Reconcile
      BY <1>2, <1>3, <3>2 DEF Following, AllCurrent, OnlyTask
    <3> QED
      BY <3>1, <3>2
  <2> QED
    BY <2>1 DEF AllCurrent
<1>6. AllNoticed'
  <2>1. ASSUME NEW p \in NotePath, p \notin events
        PROVE  ToCome(task'[Reconcile], p) \/ Matches(p, rows, files, crashes)
    BY <1>3, <1>4, <2>1 DEF ToCome, Agrees, Matches
  <2> QED
    BY <1>2, <2>1 DEF AllNoticed, Noticed
<1>7. OneLooks'
  BY <1>1, <1>2, <1>3 DEF Following, OneLooks, OnlyTask
<1>8. Walked'
  BY <1>2, <1>3, <1>4 DEF Walked
<1>9. Compared'
  <2>1. crashes > 0
    BY <1>2 DEF Following, OneLooks
  <2>2. ASSUME NEW p \in NotePath \ events, Passed(task'[Reconcile], p)
        PROVE  Matches(p, rows, files, crashes)
    BY <1>3, <1>4, <2>1, <2>2 DEF Passed, Agrees, Matches
  <2> QED
    BY <1>2, <2>2 DEF Compared
<1> QED
  BY <1>5, <1>6, <1>7, <1>8, <1>9 DEF Following

\* The watcher takes what it is told when no task is at work: what it takes is what
\* may not match.
LEMMA TakesBatchFollows ==
  ASSUME Timely, TypeInv, Following, TakesBatch
  PROVE  Following'
<1>1. /\ Reconcile \in Task /\ Watcher \in Task /\ Watcher # Reconcile
      /\ task \in [Task -> TaskState]
  BY TasksAre, TaskFunction, IndexAssumption
<1>2. /\ \A t \in Task : task[t].at = "off"
      /\ files' = files /\ rows' = rows /\ crashes' = crashes
  BY DEF TakesBatch, Busy, Place, db
<1>3. /\ OnlyTask(Watcher) /\ task'[Watcher].at = "each" /\ task'[Watcher].todo = events
  BY <1>1, OffIs DEF TakesBatch, OnlyTask, Off
<1>4. \A t \in Task : task'[t].at \in {"off", "each"}
  BY <1>2, <1>3 DEF OnlyTask
<1>5. task'[Reconcile].at = "off"
  BY <1>1, <1>2, <1>3 DEF OnlyTask
<1>6. AllCurrent'
  BY <1>4 DEF AllCurrent, Current
<1>7. AllNoticed'
  <2>1. ASSUME NEW p \in NotePath
        PROVE  ToCome(task'[Watcher], p) \/ Matches(p, rows, files, crashes)
    BY <1>1, <1>2, <1>3 DEF Following, AllNoticed, Noticed, ToCome
  <2> QED
    BY <1>2, <2>1 DEF AllNoticed, Noticed
<1> QED
  BY <1>3, <1>5, <1>6, <1>7 DEF Following, OneLooks, Walked, Compared

LEMMA CrashFollows ==
  ASSUME TypeInv, Crash
  PROVE  Following'
<1>1. /\ Reconcile \in Task /\ Watcher \in Task /\ Watcher # Reconcile /\ crashes \in Nat
  BY TasksAre, IndexAssumption DEF TypeInv, Types
<1>2. /\ \A t \in Task : t # Reconcile => task'[t].at = "off"
      /\ task'[Reconcile].at = "scan"
  BY <1>1 DEF Crash, Off
<1>3. crashes' > 0
  BY <1>1 DEF Crash
<1>4. AllCurrent'
  BY <1>2 DEF AllCurrent, Current
<1>5. AllNoticed'
  BY <1>2 DEF AllNoticed, Noticed, ToCome
<1> QED
  BY <1>1, <1>2, <1>3, <1>4, <1>5 DEF Following, OneLooks, Walked, Compared

LEMMA NextFollows ==
  ASSUME Timely, TypeInv, Following, [Next]_vars
  PROVE  Following'
<1>1. CASE UNCHANGED vars
  BY <1>1, StillFollows
<1>2. CASE \E p \in NotePath : ByHand(p)
  BY <1>2, ByHandFollows
<1>3. ASSUME NEW r \in Req, NEW p \in NotePath,
             \/ Read(r, p) \/ Delete(r, p)
             \/ \E key \in Key : Save(r, p, key)
             \/ \E q \in NotePath : Move(r, p, q)
      PROVE  Following'
  BY <1>3, ReadFollows, DeleteFollows, SaveFollows, MoveFollows
<1>4. ASSUME NEW t \in Task,
             \/ Stats(t) \/ Indexes(t) \/ ResolvesOutgoing(t) \/ Reresolves(t)
             \/ Unindexes(t) \/ Reindexes(t)
      PROVE  Following'
  BY <1>4, StatsFollows, IndexesFollows, OutgoingFollows, ReresolvesFollows,
     UnindexesFollows, ReindexesFollows
<1>5. CASE TakesBatch \/ Applies \/ Scans \/ Lists \/ Reconciles \/ Crash
  BY <1>5, TakesBatchFollows, AppliesFollows, ScansFollows, ListsFollows, ReconcilesFollows,
     CrashFollows
<1> QED
  BY <1>1, <1>2, <1>3, <1>4, <1>5 DEF Next

LEMMA FollowsAlways ==
  ASSUME Timely
  PROVE  Spec => [](TypeInv /\ Following)
<1>1. Init => TypeInv /\ Following
  BY InitTypes, InitFollows
<1>2. TypeInv /\ Following /\ [Next]_vars => (TypeInv /\ Following)'
  BY NextTypes, NextFollows
<1> QED
  BY <1>1, <1>2, PTL DEF Spec

\* At rest every row matches its file, and no other path has either.
LEMMA AtRest ==
  ASSUME TypeInv, Following, Settled, NEW p \in NotePath
  PROVE  Matches(p, rows, files, crashes)
<1>1. \A t \in Task : task[t].at = "off"
  BY DEF Settled, Busy, Place
<1> QED
  BY <1>1, TasksAre DEF Following, AllNoticed, Noticed, ToCome, Settled

\* When the requests that overlap a change are over by the time the watcher is told of
\* it, the index catches up with the files whatever order they wrote in, for any notes
\* and requests: what it has is what the last look at each file saw (watch.rs:1-30).
THEOREM CatchesUp ==
  ASSUME Timely
  PROVE  Spec => []IndexCatchesUp
<1>1. ASSUME TypeInv, Following, Settled, crashes = 0 PROVE Indexed
  <2>1. \A p \in NotePath : Matches(p, rows, files, crashes)
    BY <1>1, AtRest
  <2>2. DOMAIN rows \subseteq NotePath /\ DOMAIN files \subseteq NotePath
    BY <1>1, TableIs, VaultIs DEF TypeInv, Types
  <2> QED
    BY <1>1, <2>1, <2>2 DEF Matches, Indexed, HasRow
<1>2. TypeInv /\ Following => IndexCatchesUp
  BY <1>1 DEF IndexCatchesUp
<1> QED
  BY <1>2, FollowsAlways, PTL

\* After crashes too every note has a row and no other path has one, of the note's text
\* unless the row has the file's time: what the walk and the rows of the reconcile say
\* of a path is still so, or the watcher will be told (index.rs:467-520).
THEOREM ReconcileIsComplete ==
  ASSUME Timely
  PROVE  Spec => []ReconcileFindsAll
<1>1. ASSUME TypeInv, Following, Settled
      PROVE  /\ DOMAIN rows = DOMAIN files
             /\ \A p \in DOMAIN files : HasRow(p) \/ rows[p].time = files[p].id
  <2>1. \A p \in NotePath : Matches(p, rows, files, crashes)
    BY <1>1, AtRest
  <2>2. DOMAIN rows \subseteq NotePath /\ DOMAIN files \subseteq NotePath
    BY <1>1, TableIs, VaultIs DEF TypeInv, Types
  <2> QED
    BY <1>1, <2>1, <2>2 DEF Matches, HasRow
<1>2. TypeInv /\ Following => ReconcileFindsAll
  BY <1>1 DEF ReconcileFindsAll
<1> QED
  BY <1>2, FollowsAlways, PTL
=============================================================================
