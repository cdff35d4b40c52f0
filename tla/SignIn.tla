------------------------------- MODULE SignIn -------------------------------
(***************************************************************************)
(* Signing in and staying signed in: the throttle, the local users file    *)
(* and the copy of it in memory, the identity provider's flow, the users   *)
(* and sessions tables, and the cookies of the browsers                    *)
(* (crates/server/src/auth, routes/auth.rs, db.rs).                        *)
(*                                                                         *)
(* Time is told by what is left of each delay.  A password is a version of *)
(* it; a key of the throttle is a browser (its address) and the name it    *)
(* typed; a flow's state, nonce and verifier are its number, and a session *)
(* token is its own hash.                                                  *)
(***************************************************************************)
EXTENDS Integers, Sequences, FiniteSets, Functions, FiniteSetsExt

CONSTANTS
  Browser, Req,
  Account, Password,        \* the names in the users file and their passwords
  Typed,                    \* the names that are typed, those of no account too
  FileAtFirst,              \* account -> its password, or Nothing
  Claims, Admitted,         \* the provider's: subject -> names; those in the group
  Base,                     \* name -> vault directory it sanitises to
  Nothing,
  FreeAttempts, BaseLockout, MaxLockout, ForgetAfter, FloodForget, TableLimit,
  Ttl, FlowTtl,
  MaxRequests, MaxEdits, MaxRestarts, MaxSuffix    \* bounds

Subject == DOMAIN Claims
Half    == Ttl \div 2
Key     == Browser \X Typed

ASSUME SignInAssumption ==
  /\ {FreeAttempts, BaseLockout, MaxLockout, ForgetAfter, FloodForget, TableLimit} \subseteq Nat \ {0}
  /\ BaseLockout <= MaxLockout /\ FloodForget <= MaxLockout /\ MaxLockout < ForgetAfter
  /\ Ttl \in Nat \ {0} /\ FlowTtl \in Nat \ {0} /\ Admitted \subseteq Subject
  /\ FileAtFirst \in [Account -> Password \cup {Nothing}]

VARIABLES
  entries,   \* the throttle: key -> [failures, locked, quiet], the times left and since
  file, stamp,      \* the users file: account -> password or Nothing, or Nothing if broken; its time
  cache,     \* the copy in memory: [users, stamp]
  editor,    \* what a go-notes command has loaded and not yet saved, or Nothing
  booted,    \* the file's time as the server last started, or 0 as it starts
  users,     \* the users table: a sequence of [who, name, dir]
  sessions,  \* token -> [row, left], with who proved to be whom and how long ago it was used
  flows,     \* flow -> what is left
  codes,     \* the provider's answers: [flow, subject, name], and where the flow began
  jar,       \* browser -> [token, life, flow, flowLife]
  task,      \* each request's place and locals
  issued,    \* tokens and flows so far
  requests, edits, restarts

throttleVars == <<entries>>
fileVars     == <<file, stamp, editor, edits>>
memory       == <<cache, booted>>
tables       == <<users, sessions, flows, issued>>
browsers     == <<jar, codes>>
counts       == <<requests, restarts>>
vars == <<throttleVars, fileVars, memory, tables, browsers, task, counts>>

Off  == [at |-> "off", browser |-> Nothing, name |-> Nothing, password |-> Nothing, stamp |-> 0,
         users |-> Nothing, who |-> Nothing, row |-> 0, suffix |-> 0, code |-> Nothing, token |-> 0]
NoCookies == [token |-> 0, life |-> 0, flow |-> 0, flowLife |-> 0]

Init ==
  /\ entries = <<>> /\ file = FileAtFirst /\ stamp = 1
  /\ cache = [users |-> file, stamp |-> 1] /\ editor = Nothing /\ booted = 1
  /\ users = <<>> /\ sessions = <<>> /\ flows = <<>> /\ codes = {}
  /\ jar = [b \in Browser |-> NoCookies] /\ task = [r \in Req |-> Off]
  /\ issued = 0 /\ requests = 0 /\ edits = 0 /\ restarts = 0

Place(r, at) == task[r].at = at
Goes(r, at)  == task' = [task EXCEPT ![r].at = at]
Ends(r)      == task' = [task EXCEPT ![r] = Off]
Asks(r, b)   == Place(r, "off") /\ requests < MaxRequests /\ requests' = requests + 1
                /\ booted # 0

-----------------------------------------------------------------------------
(***************************************************************************)
(* The throttle.                                                           *)
(***************************************************************************)
Locked(key) == key \in DOMAIN entries /\ entries[key].locked > 0

\* What a failed attempt forgets first: quiet keys, or when the table is full all but
\* the held back and the recent.
Pruned_Full(e) == Restrict(e, {k \in DOMAIN e : e[k].quiet < FloodForget})
Pruned(e) ==
  Restrict(e, {k \in DOMAIN e :
    IF Cardinality(DOMAIN e) < TableLimit THEN e[k].quiet < ForgetAfter
    ELSE e[k].locked > 0 \/ e[k].quiet < FloodForget})

Lockout(failures) ==
  LET over == failures - FreeAttempts - 1
  IN  Min({BaseLockout * 2 ^ Min({over, 16}), MaxLockout})
Failed(key) ==
  LET kept     == Pruned(entries)
      failures == 1 + (IF key \in DOMAIN kept THEN kept[key].failures ELSE 0)
      before   == IF key \in DOMAIN kept THEN kept[key].locked ELSE 0
      entry    == [failures |-> failures, quiet |-> 0,
                   locked |-> IF failures > FreeAttempts THEN Lockout(failures) ELSE before]
  IN  entries' = [k \in DOMAIN kept \cup {key} |-> IF k = key THEN entry ELSE kept[k]]
Cleared(key) == entries' = Restrict(entries, DOMAIN entries \ {key})

-----------------------------------------------------------------------------
(***************************************************************************)
(* A password.  The file is looked at, loaded and cached in steps, beside  *)
(* other sign-ins.                                                         *)
(***************************************************************************)
Login(r, b, name, password) ==
  /\ Asks(r, b)
  /\ IF Locked(<<b, name>>) THEN UNCHANGED task
     ELSE task' = [task EXCEPT ![r] = [Off EXCEPT !.at = "stat", !.browser = b, !.name = name,
                                                 !.password = password]]
  /\ UNCHANGED <<throttleVars, fileVars, memory, tables, browsers, restarts>>
Stats(r) ==
  /\ Place(r, "stat")
  /\ IF cache.stamp = stamp THEN Goes(r, "verify")
     ELSE task' = [task EXCEPT ![r].at = "load", ![r].stamp = stamp]
  /\ UNCHANGED <<throttleVars, fileVars, memory, tables, browsers, counts>>
\* A file that does not parse leaves the copy, and its time, as they were.
Loads(r) ==
  /\ Place(r, "load")
  /\ task' = IF file = Nothing THEN [task EXCEPT ![r].at = "verify", ![r].stamp = 0]
             ELSE [task EXCEPT ![r].at = "store", ![r].users = file]
  /\ UNCHANGED <<throttleVars, fileVars, memory, tables, browsers, counts>>
\* Mutant: the time kept with the copy is that of the file as it is by then.
Stores_Late(r) ==
  /\ Place(r, "store") /\ cache' = [users |-> task[r].users, stamp |-> stamp]
  /\ task' = [task EXCEPT ![r].at = "verify", ![r].users = Nothing, ![r].stamp = 0]
  /\ UNCHANGED <<throttleVars, fileVars, booted, tables, browsers, counts>>
Stores(r) ==
  /\ Place(r, "store") /\ cache' = [users |-> task[r].users, stamp |-> task[r].stamp]
  /\ task' = [task EXCEPT ![r].at = "verify", ![r].users = Nothing, ![r].stamp = 0]
  /\ UNCHANGED <<throttleVars, fileVars, booted, tables, browsers, counts>>
RightPassword(t) == t.name \in Account /\ cache.users[t.name] = t.password
Verifies(r) ==
  /\ Place(r, "verify")
  /\ task' = [task EXCEPT ![r].at = IF RightPassword(task[r]) THEN "right" ELSE "wrong",
                          ![r].password = Nothing]
  /\ UNCHANGED <<throttleVars, fileVars, memory, tables, browsers, counts>>
\* The throttle is told; other attempts may have been counted since.
Records(r) ==
  LET t == task[r]
  IN  /\ \/ /\ Place(r, "right") /\ Cleared(<<t.browser, t.name>>)
            /\ task' = [task EXCEPT ![r].at = "find", ![r].who = <<"local", t.name>>]
         \/ Place(r, "wrong") /\ Failed(<<t.browser, t.name>>) /\ Ends(r)
      /\ UNCHANGED <<fileVars, memory, tables, browsers, counts>>

\* The go-notes command: it loads the file, asks for the password, and saves.
CommandLoads ==
  /\ editor = Nothing /\ file # Nothing /\ edits < MaxEdits /\ edits' = edits + 1 /\ editor' = file
  /\ UNCHANGED <<throttleVars, file, stamp, memory, tables, browsers, task, counts>>
Upserted(accounts, name, password) == [accounts EXCEPT ![name] = password]
Without(accounts, name)            == [accounts EXCEPT ![name] = Nothing]
\* add takes any name, passwd and remove one that is there.
UserCommand(accounts) ==
  {Upserted(accounts, name, password) : name \in Account, password \in Password}
  \cup {Without(accounts, name) : name \in {n \in Account : accounts[n] # Nothing}}
CommandSaves ==
  /\ editor # Nothing /\ editor' = Nothing /\ stamp' = stamp + 1
  /\ file' \in UserCommand(editor)
  /\ UNCHANGED <<throttleVars, edits, memory, tables, browsers, task, counts>>
\* Someone leaves it half edited.
BreaksFile ==
  /\ edits < MaxEdits /\ edits' = edits + 1 /\ stamp' = stamp + 1 /\ file' = Nothing
  /\ UNCHANGED <<throttleVars, editor, memory, tables, browsers, task, counts>>

-----------------------------------------------------------------------------
(***************************************************************************)
(* An identity provider.                                                   *)
(***************************************************************************)
StoreFlow(f) == flows' = [g \in DOMAIN flows \cup {f} |-> IF g = f THEN FlowTtl ELSE flows[g]]
Parked(f)    == f \in DOMAIN flows /\ flows[f] > 0
TakeFlow(f)  == flows' = IF Parked(f) THEN Restrict(flows, DOMAIN flows \ {f}) ELSE flows

\* What the provider is asked: its answer will name the flow.
Begin(f, b) ==
  codes' = codes \cup {[flow |-> f, browser |-> b, subject |-> Nothing, name |-> Nothing]}
OidcLogin(b) ==
  /\ requests < MaxRequests /\ requests' = requests + 1 /\ booted # 0
  /\ issued' = issued + 1 /\ StoreFlow(issued + 1)
  /\ jar' = [jar EXCEPT ![b].flow = issued + 1, ![b].flowLife = FlowTtl]
  /\ Begin(issued + 1, b)
  /\ UNCHANGED <<throttleVars, fileVars, memory, users, sessions, task, restarts>>
\* The person signs in there, under whatever name they have now.
ProviderAnswers(c, s, name) ==
  /\ c.subject = Nothing
  /\ codes' = (codes \ {c}) \cup {[c EXCEPT !.subject = s, !.name = name]}
  /\ UNCHANGED <<throttleVars, fileVars, memory, tables, jar, task, counts>>

\* The row is deleted as it is read, and the answer must be to the flow it names.  Any
\* browser may bring any answer.
\* Mutant: an answer to another flow will do.
Callback_AnyState(r, b, c) ==
  LET f == IF jar[b].flowLife > 0 THEN jar[b].flow ELSE 0
  IN  /\ c.subject # Nothing /\ Asks(r, b)
      /\ TakeFlow(f)
      /\ IF Parked(f)
         THEN task' = [task EXCEPT ![r] = [Off EXCEPT !.at = "exchange", !.browser = b, !.code = c]]
         ELSE UNCHANGED task
      /\ UNCHANGED <<throttleVars, fileVars, memory, users, sessions, issued, browsers, restarts>>
Callback(r, b, c) ==
  LET f == IF jar[b].flowLife > 0 THEN jar[b].flow ELSE 0
  IN  /\ c.subject # Nothing /\ Asks(r, b)
      /\ TakeFlow(f)
      /\ IF Parked(f) /\ c.flow = f
         THEN task' = [task EXCEPT ![r] = [Off EXCEPT !.at = "exchange", !.browser = b, !.code = c]]
         ELSE UNCHANGED task
      /\ UNCHANGED <<throttleVars, fileVars, memory, users, sessions, issued, browsers, restarts>>
Exchanges(r) ==
  LET c == task[r].code
  IN  /\ Place(r, "exchange")
      /\ \/ c.subject \in Admitted
            /\ task' = [task EXCEPT ![r].at = "find", ![r].who = <<"oidc", c.subject>>,
                                    ![r].name = c.name]
         \/ Ends(r)
      /\ UNCHANGED <<throttleVars, fileVars, memory, tables, browsers, counts>>

-----------------------------------------------------------------------------
(***************************************************************************)
(* The row of an identity, found or inserted; then the session.            *)
(***************************************************************************)
RowsOf(who)   == {n \in DOMAIN users : users[n].who = who}
RowsNamed(nm) == {n \in DOMAIN users : users[n].name = nm}
WithRow(r, n) == task' = [task EXCEPT ![r].at = "session", ![r].row = n]

Finds(r) ==
  /\ Place(r, "find")
  /\ IF RowsOf(task[r].who) = {} THEN Goes(r, "insert")
     ELSE WithRow(r, CHOOSE n \in RowsOf(task[r].who) : TRUE)
  /\ UNCHANGED <<throttleVars, fileVars, memory, tables, browsers, counts>>

\* Mutant: a name that is taken is taken to be one's own.
Inserts_ByName(r) ==
  LET t   == task[r]
      dir == <<Base[t.name], t.suffix>>
      own == RowsNamed(t.name)
  IN  /\ Place(r, "insert")
      /\ IF own # {} THEN WithRow(r, CHOOSE n \in own : TRUE) /\ UNCHANGED users
         ELSE IF \E n \in DOMAIN users : users[n].dir = dir
         THEN /\ UNCHANGED users
              /\ IF t.suffix < MaxSuffix THEN task' = [task EXCEPT ![r].suffix = t.suffix + 1]
                 ELSE Ends(r)
         ELSE /\ users' = Append(users, [who |-> t.who, name |-> t.name, dir |-> dir])
              /\ WithRow(r, Len(users) + 1)
      /\ UNCHANGED <<throttleVars, fileVars, memory, sessions, flows, issued, browsers, counts>>
\* Mutant: the row goes in whatever rows there are.
Inserts_Blind(r) ==
  LET t   == task[r]
      dir == <<Base[t.name], t.suffix>>
  IN  /\ Place(r, "insert")
      /\ users' = Append(users, [who |-> t.who, name |-> t.name, dir |-> dir])
      /\ WithRow(r, Len(users) + 1)
      /\ UNCHANGED <<throttleVars, fileVars, memory, sessions, flows, issued, browsers, counts>>
\* The table refuses a name first, then a directory, then an identity.
Inserts(r) ==
  LET t   == task[r]
      dir == <<Base[t.name], t.suffix>>
  IN  /\ Place(r, "insert")
      /\ \/ RowsNamed(t.name) # {} /\ Goes(r, "again") /\ UNCHANGED users
         \/ /\ RowsNamed(t.name) = {} /\ \E n \in DOMAIN users : users[n].dir = dir
            /\ UNCHANGED users
            /\ IF t.suffix < MaxSuffix THEN task' = [task EXCEPT ![r].suffix = t.suffix + 1]
               ELSE Ends(r)
         \/ /\ RowsNamed(t.name) = {} /\ \A n \in DOMAIN users : users[n].dir # dir
            /\ IF RowsOf(t.who) # {} THEN Ends(r) /\ UNCHANGED users
               ELSE /\ users' = Append(users, [who |-> t.who, name |-> t.name, dir |-> dir])
                    /\ WithRow(r, Len(users) + 1)
      /\ UNCHANGED <<throttleVars, fileVars, memory, sessions, flows, issued, browsers, counts>>

\* The name is taken: by this identity, in another request, or the sign-in fails.
FindsAgain(r) ==
  /\ Place(r, "again")
  /\ IF RowsOf(task[r].who) = {} THEN Ends(r)
     ELSE WithRow(r, CHOOSE n \in RowsOf(task[r].who) : TRUE)
  /\ UNCHANGED <<throttleVars, fileVars, memory, tables, browsers, counts>>

Create(token, t) ==
  sessions' = [s \in DOMAIN sessions \cup {token} |->
                 IF s = token THEN [row |-> t.row, left |-> Ttl, who |-> t.who, used |-> 0]
                 ELSE sessions[s]]
Establishes(r) ==
  LET token == issued + 1
  IN  /\ Place(r, "session") /\ issued' = token /\ Create(token, task[r])
      /\ task' = [task EXCEPT ![r].at = "answer", ![r].token = token]
      /\ UNCHANGED <<throttleVars, fileVars, memory, users, flows, browsers, counts>>
\* The answer with its cookie, which may not arrive; nor is it sent when the login
\* cannot be recorded.
Answers(r) ==
  LET t == task[r]
  IN  /\ Place(r, "answer") /\ Ends(r)
      /\ \/ jar' = [jar EXCEPT ![t.browser].token = t.token, ![t.browser].life = Ttl,
                               ![t.browser].flow = IF t.code = Nothing THEN @ ELSE 0,
                               ![t.browser].flowLife = IF t.code = Nothing THEN @ ELSE 0]
         \/ UNCHANGED jar
      /\ UNCHANGED <<throttleVars, fileVars, memory, tables, codes, counts>>

-----------------------------------------------------------------------------
(***************************************************************************)
(* Being signed in, and out.                                               *)
(***************************************************************************)
Presents(b, s) == jar[b].token = s /\ jar[b].life > 0 /\ s \in DOMAIN sessions

\* Mutant: the time is renewed while more than half of it is left.
Resolve_Early(s) ==
  /\ sessions[s].left > 0
  /\ sessions' = [sessions EXCEPT ![s].used = 0, ![s].left = IF @ > Half THEN Ttl ELSE @]
\* Mutant: whatever the time is.
Resolve_Over(s) ==
  sessions' = [sessions EXCEPT ![s].used = 0, ![s].left = IF @ < Half THEN Ttl ELSE @]
\* Every request slides the expiry, once more than half of it is gone.
Resolve(s) ==
  /\ sessions[s].left > 0
  /\ sessions' = [sessions EXCEPT ![s].used = 0, ![s].left = IF @ < Half THEN Ttl ELSE @]
UsesSession(b) ==
  /\ booted # 0 /\ \E s \in DOMAIN sessions : Presents(b, s) /\ Resolve(s)
  /\ UNCHANGED <<throttleVars, fileVars, memory, users, flows, issued, browsers, task, counts>>
Destroy(s) == sessions' = Restrict(sessions, DOMAIN sessions \ {s})
\* The browser keeps its cookie when the answer does not arrive.
Logout(b) ==
  /\ booted # 0 /\ jar[b].life > 0
  /\ Destroy(jar[b].token)
  /\ jar' = [jar EXCEPT ![b].token = 0, ![b].life = 0] \/ UNCHANGED jar
  /\ UNCHANGED <<throttleVars, fileVars, memory, users, flows, issued, codes, task, counts>>
PurgeExpired ==
  /\ booted # 0
  /\ sessions' = Restrict(sessions, {s \in DOMAIN sessions : sessions[s].left > 0})
  /\ flows' = Restrict(flows, {f \in DOMAIN flows : flows[f] > 0})
  /\ UNCHANGED <<throttleVars, fileVars, memory, users, issued, browsers, task, counts>>

\* The server stops, loads the users file, and then looks at its time.
Stop ==
  /\ restarts < MaxRestarts /\ restarts' = restarts + 1
  /\ entries' = <<>> /\ task' = [r \in Req |-> Off] /\ booted' = 0
  /\ cache' = [users |-> Nothing, stamp |-> 0]
  /\ UNCHANGED <<fileVars, tables, browsers, requests>>
Boots ==
  /\ booted = 0 /\ cache.users = Nothing /\ file # Nothing /\ cache' = [cache EXCEPT !.users = file]
  /\ UNCHANGED <<throttleVars, fileVars, booted, tables, browsers, task, counts>>
Starts ==
  /\ booted = 0 /\ cache.users # Nothing /\ booted' = stamp /\ cache' = [cache EXCEPT !.stamp = stamp]
  /\ UNCHANGED <<throttleVars, fileVars, tables, browsers, task, counts>>

Down(n) == Max({n - 1, 0})
Tick ==
  /\ entries' = [k \in DOMAIN entries |->
       [entries[k] EXCEPT !.locked = Down(@), !.quiet = Min({@ + 1, ForgetAfter})]]
  /\ sessions' = [s \in DOMAIN sessions |->
       [sessions[s] EXCEPT !.left = Down(@), !.used = IF sessions[s].left = 0 THEN @ ELSE @ + 1]]
  /\ flows' = [f \in DOMAIN flows |-> Down(flows[f])]
  /\ jar' = [b \in Browser |-> [jar[b] EXCEPT !.life = Down(@), !.flowLife = Down(@)]]
  /\ UNCHANGED <<fileVars, memory, users, issued, codes, task, counts>>

Next ==
  \/ \E r \in Req :
       \/ \E b \in Browser, name \in Typed, password \in Password : Login(r, b, name, password)
       \/ Stats(r) \/ Loads(r) \/ Stores(r) \/ Verifies(r) \/ Records(r)
       \/ \E b \in Browser, c \in codes : Callback(r, b, c)
       \/ Exchanges(r) \/ Finds(r) \/ Inserts(r) \/ FindsAgain(r) \/ Establishes(r) \/ Answers(r)
  \/ \E b \in Browser : OidcLogin(b) \/ UsesSession(b) \/ Logout(b)
  \/ \E c \in codes, s \in Subject : \E name \in Claims[s] : ProviderAnswers(c, s, name)
  \/ CommandLoads \/ CommandSaves \/ BreaksFile \/ PurgeExpired \/ Stop \/ Boots \/ Starts \/ Tick

Spec == Init /\ [][Next]_vars

-----------------------------------------------------------------------------
(***************************************************************************)
(* Correctness.                                                            *)
(***************************************************************************)
\* The tables keep their keys: no two rows share an identity, a name or a vault, and
\* every session has a row (migrations/0001_identity.sql).
TypeOK ==
  /\ DOMAIN entries \subseteq Key /\ file \in [Account -> Password \cup {Nothing}] \cup {Nothing}
  /\ \A m, n \in DOMAIN users :
       m # n => /\ users[m].who # users[n].who /\ users[m].name # users[n].name
                /\ users[m].dir # users[n].dir
  /\ \A s \in DOMAIN sessions : sessions[s].row \in DOMAIN users /\ sessions[s].left \in 0..Ttl
  /\ DOMAIN sessions \cap DOMAIN flows = {}

\* Nobody is signed in as another: a session is of the row of the identity that was
\* proved, whatever names two identities share or change to (db.rs:169-175).
SignedInAsProved == \A s \in DOMAIN sessions : users[sessions[s].row].who = sessions[s].who

\* A key that is held back stays held back until its time is over or its password is
\* given, whatever other keys make the table forget (throttle.rs:103-114).
HeldBack ==
  [][\A k \in DOMAIN entries : entries[k].locked > 0 =>
       \/ k \in DOMAIN entries' /\ entries'[k].locked >= entries[k].locked
       \/ Tick \/ Stop
       \/ \E r \in Req : /\ Place(r, "right") /\ Records(r)
                         /\ <<task[r].browser, task[r].name>> = k]_vars

\* A session lives half its time at least, and its time at most, after it was last used
\* (session.rs:75-80).
LivesByUse ==
  \A s \in DOMAIN sessions : sessions[s].left > 0 => sessions[s].left + sessions[s].used \in Half..Ttl

\* What is over stays over: a session that has run out, was signed out of or was purged
\* is not live again, whatever cookie is left of it (session.rs:75-100).
OverStaysOver ==
  [][\A s \in DOMAIN sessions' : sessions'[s].left > 0 =>
       s > issued \/ (s \in DOMAIN sessions /\ sessions[s].left > 0)]_vars

\* Who signs in at the provider is signed in where the flow began, whichever answers the
\* browsers bring (routes/auth.rs:184-210).
SignedInWhereBegun ==
  \A r \in Req : task[r].code # Nothing => task[r].code.browser = task[r].browser

\* The copy in memory that has the time of the file has what the file has, unless it is
\* the one the server started with (local.rs:189-200).
CopyFollowsFile ==
  booted # 0 /\ cache.stamp = stamp /\ stamp # booted => cache.users = file
=============================================================================
