---------------------------- MODULE SignIn_proof ----------------------------
(***************************************************************************)
(* Theorems about SignIn, for every set of browsers, requests, accounts    *)
(* and identities, every limit of the throttle and every lifetime.         *)
(***************************************************************************)
EXTENDS SignIn, TLAPS

-----------------------------------------------------------------------------
(***************************************************************************)
(* The inductive invariant.                                                *)
(***************************************************************************)
\* Who can prove to be whom, and the names an identity can come with.
Who      == ({"local"} \X Account) \cup ({"oidc"} \X Subject)
Name     == Account \cup UNION {Claims[s] : s \in Subject}
Accounts == [Account -> Password \cup {Nothing}]
Row      == [who : Who, name : Name, dir : {Base[n] : n \in Name} \X Nat]
Entry    == [failures : Nat, locked : 0..MaxLockout, quiet : 0..ForgetAfter]
Session  == [row : Nat, left : 0..Ttl, who : Who, used : Nat]
Code     == [flow : Nat, browser : Browser, subject : Subject \cup {Nothing},
             name : Name \cup {Nothing}]
Task     == [at : {"off", "stat", "load", "store", "verify", "right", "wrong", "exchange",
                   "find", "insert", "again", "session", "answer"},
             browser : Browser \cup {Nothing}, name : Typed \cup Name \cup {Nothing},
             password : Password \cup {Nothing}, stamp : Nat,
             users : Accounts \cup {Nothing}, who : Who \cup {Nothing}, row : Nat,
             suffix : Nat, code : Code \cup {Nothing}, token : Nat]
Jar      == [token : Nat, life : Nat, flow : Nat, flowLife : Nat]

\* An answer of the provider names who signed in there.
Answered(c) == c.subject # Nothing => c.subject \in Subject /\ c.name \in Name

\* A key held back has failed too often, is held back for no longer than its failures
\* earn it, and is not quiet for longer than it was held back.
HeldBriefly(e) == e.locked > 0 => /\ e.locked + e.quiet <= MaxLockout
                                  /\ e.failures > FreeAttempts
                                  /\ e.locked <= Lockout(e.failures)
ThrottleOK == /\ DOMAIN entries \subseteq Key
              /\ \A k \in DOMAIN entries : entries[k] \in Entry /\ HeldBriefly(entries[k])

\* What a request has loaded under the time the file has now is what the file has now.
LoadedAsIs(t) == /\ t.at \in {"load", "store"} => t.stamp <= stamp
                 /\ t.at = "store" => /\ t.users \in Accounts
                                      /\ t.stamp = stamp => t.users = file
FileOK == /\ file \in Accounts \cup {Nothing} /\ editor \in Accounts \cup {Nothing}
          /\ stamp \in Nat \ {0} /\ booted \in 0..stamp
          /\ cache \in [users : Accounts \cup {Nothing}, stamp : 0..stamp]
          /\ CopyFollowsFile
          /\ \A r \in Req : LoadedAsIs(task[r])
          /\ booted = 0 => \A r \in Req : task[r] = Off

\* A request past the password or the provider has proved an identity, and at the last
\* step holds the row of it.
Proved(t) == /\ t.at \in {"stat", "load", "store", "verify", "right", "wrong"} =>
                  t.browser \in Browser /\ t.name \in Typed
             /\ t.at = "right" => t.name \in Account
             /\ t.code # Nothing => t.code.browser = t.browser
             /\ t.at = "exchange" => t.browser \in Browser /\ t.code \in codes /\ t.code.subject # Nothing
             /\ t.at \in {"find", "insert", "again", "session"} => t.who \in Who /\ t.name \in Name
             /\ t.at = "session" => t.row \in DOMAIN users /\ users[t.row].who = t.who
TasksOK == /\ task \in [Req -> Task] /\ codes \subseteq Code
           /\ \A c \in codes : Answered(c)
           /\ \A r \in Req : Proved(task[r])

\* A flow's number is handed out once, to a browser that keeps it: an answer to the flow
\* a browser has is to the one it began.
FlowsOK == /\ jar \in [Browser -> Jar]
           /\ \A b \in Browser : jar[b].flow \in 0..issued
           /\ \A c \in codes : c.flow \in 1..issued
           /\ \A c \in codes, b \in Browser : c.flow = jar[b].flow => c.browser = b

\* Every token is of a number handed out, and of a session or of a flow.
TablesOK == /\ users \in Seq(Row) /\ issued \in Nat
            /\ DOMAIN sessions \subseteq 1..issued /\ DOMAIN flows \subseteq 1..issued
            /\ \A s \in DOMAIN sessions : sessions[s] \in Session
            /\ \A f \in DOMAIN flows : flows[f] \in 0..FlowTtl

IInv == ThrottleOK /\ FileOK /\ TasksOK /\ FlowsOK /\ TablesOK /\ TypeOK /\ SignedInAsProved /\ LivesByUse

-----------------------------------------------------------------------------
(***************************************************************************)
(* Which actions touch what.                                               *)
(***************************************************************************)
LEMMA ChangesEntries ==
  [Next]_vars => \/ UNCHANGED entries \/ Stop \/ Tick
                 \/ \E r \in Req : Records(r)
<1>1. ASSUME NEW r \in Req, \/ Stats(r) \/ Loads(r) \/ Stores(r) \/ Verifies(r) \/ Exchanges(r)
                            \/ Finds(r) \/ Inserts(r) \/ FindsAgain(r) \/ Establishes(r)
                            \/ Answers(r)
                            \/ \E b \in Browser, c \in codes : Callback(r, b, c)
                            \/ \E b \in Browser, name \in Typed, password \in Password :
                                 Login(r, b, name, password)
      PROVE  UNCHANGED entries
  BY <1>1 DEF throttleVars, Stats, Loads, Stores, Verifies, Exchanges, Finds, Inserts, FindsAgain,
              Establishes, Answers, Callback, Login
<1>2. ASSUME NEW b \in Browser, OidcLogin(b) \/ UsesSession(b) \/ Logout(b) PROVE UNCHANGED entries
  BY <1>2 DEF throttleVars, OidcLogin, UsesSession, Logout
<1>3. ASSUME NEW c, NEW u, NEW name, ProviderAnswers(c, u, name) PROVE UNCHANGED entries
  BY <1>3 DEF throttleVars, ProviderAnswers
<1>4. CASE CommandLoads \/ CommandSaves \/ BreaksFile \/ PurgeExpired \/ Boots \/ Starts
  BY <1>4 DEF throttleVars, CommandLoads, CommandSaves, BreaksFile, PurgeExpired, Boots, Starts
<1>5. CASE UNCHANGED vars
  BY <1>5 DEF vars, throttleVars
<1> QED
  BY <1>1, <1>2, <1>3, <1>4, <1>5 DEF Next

LEMMA ChangesFile ==
  [Next]_vars => \/ UNCHANGED <<file, stamp, editor, cache, booted>>
                 \/ Stop \/ Boots \/ Starts \/ CommandLoads \/ CommandSaves \/ BreaksFile
                 \/ \E r \in Req : Stores(r)
<1> DEFINE Same == UNCHANGED <<file, stamp, editor, cache, booted>>
<1>1. ASSUME NEW r \in Req, \/ Stats(r) \/ Loads(r) \/ Verifies(r) \/ Records(r) \/ Exchanges(r)
                            \/ Finds(r) \/ Inserts(r) \/ FindsAgain(r) \/ Establishes(r)
                            \/ Answers(r)
                            \/ \E b \in Browser, c \in codes : Callback(r, b, c)
                            \/ \E b \in Browser, name \in Typed, password \in Password :
                                 Login(r, b, name, password)
      PROVE  Same
  BY <1>1 DEF fileVars, memory, Stats, Loads, Verifies, Records, Exchanges, Finds, Inserts, FindsAgain,
              Establishes, Answers, Callback, Login
<1>2. ASSUME NEW b \in Browser, OidcLogin(b) \/ UsesSession(b) \/ Logout(b) PROVE Same
  BY <1>2 DEF fileVars, memory, OidcLogin, UsesSession, Logout
<1>3. ASSUME NEW c, NEW u, NEW name, ProviderAnswers(c, u, name) PROVE Same
  BY <1>3 DEF fileVars, memory, ProviderAnswers
<1>4. CASE PurgeExpired \/ Tick
  BY <1>4 DEF fileVars, memory, PurgeExpired, Tick
<1>5. CASE UNCHANGED vars
  BY <1>5 DEF vars, fileVars, memory
<1> QED
  BY <1>1, <1>2, <1>3, <1>4, <1>5 DEF Next

LEMMA ChangesTask ==
  [Next]_vars => \/ UNCHANGED task \/ Stop
                 \/ \E r \in Req :
                      \/ \E b \in Browser, name \in Typed, password \in Password :
                           Login(r, b, name, password)
                      \/ Stats(r) \/ Loads(r) \/ Stores(r) \/ Verifies(r) \/ Records(r)
                      \/ \E b \in Browser, c \in codes : Callback(r, b, c)
                      \/ Exchanges(r) \/ Finds(r) \/ Inserts(r) \/ FindsAgain(r)
                      \/ Establishes(r) \/ Answers(r)
  BY DEF Next, vars, OidcLogin, UsesSession, Logout, ProviderAnswers, CommandLoads, CommandSaves,
         BreaksFile, PurgeExpired, Boots, Starts, Tick

LEMMA ChangesTables ==
  [Next]_vars => \/ UNCHANGED <<users, sessions, flows, issued>>
                 \/ PurgeExpired \/ Tick
                 \/ \E b \in Browser : OidcLogin(b) \/ UsesSession(b) \/ Logout(b)
                 \/ \E r \in Req : \/ \E b \in Browser, c \in codes : Callback(r, b, c)
                                   \/ Inserts(r) \/ Establishes(r)
  BY DEF Next, vars, tables, Login, Stats, Loads, Stores, Verifies, Records, Exchanges, Finds,
         FindsAgain, Answers, ProviderAnswers, CommandLoads, CommandSaves, BreaksFile, Stop, Boots, Starts

LEMMA ChangesCodes ==
  [Next]_vars => \/ UNCHANGED codes
                 \/ \E b \in Browser : OidcLogin(b)
                 \/ \E c \in codes, s \in Subject : \E name \in Claims[s] : ProviderAnswers(c, s, name)
<1>1. ASSUME NEW r \in Req, \/ Stats(r) \/ Loads(r) \/ Stores(r) \/ Verifies(r) \/ Records(r)
                            \/ Exchanges(r) \/ Finds(r) \/ Inserts(r) \/ FindsAgain(r)
                            \/ Establishes(r) \/ Answers(r)
      PROVE  UNCHANGED codes
  BY <1>1 DEF browsers, Stats, Loads, Stores, Verifies, Records, Exchanges, Finds, Inserts, FindsAgain,
              Establishes, Answers
<1>2. ASSUME NEW r \in Req, NEW b \in Browser, NEW name, NEW password, Login(r, b, name, password)
      PROVE  UNCHANGED codes
  BY <1>2 DEF browsers, Login
<1>3. ASSUME NEW r \in Req, NEW b, NEW c, Callback(r, b, c) PROVE UNCHANGED codes
  BY <1>3 DEF browsers, Callback
<1>4. ASSUME NEW b \in Browser, UsesSession(b) \/ Logout(b) PROVE UNCHANGED codes
  BY <1>4 DEF browsers, UsesSession, Logout
<1>5. CASE CommandLoads \/ CommandSaves \/ BreaksFile \/ PurgeExpired \/ Stop \/ Boots \/ Starts \/ Tick
  BY <1>5 DEF browsers, CommandLoads, CommandSaves, BreaksFile, PurgeExpired, Stop, Boots, Starts, Tick
<1>6. CASE UNCHANGED vars
  BY <1>6 DEF vars, browsers
<1> QED
  BY <1>1, <1>2, <1>3, <1>4, <1>5, <1>6 DEF Next

LEMMA ChangesJar ==
  [Next]_vars => \/ UNCHANGED jar
                 \/ Tick
                 \/ \E b \in Browser : OidcLogin(b) \/ Logout(b)
                 \/ \E r \in Req : Answers(r)
<1>1. ASSUME NEW r \in Req, \/ Stats(r) \/ Loads(r) \/ Stores(r) \/ Verifies(r) \/ Records(r)
                            \/ Exchanges(r) \/ Finds(r) \/ Inserts(r) \/ FindsAgain(r)
                            \/ Establishes(r)
                            \/ \E b \in Browser, c \in codes : Callback(r, b, c)
                            \/ \E b \in Browser, name \in Typed, password \in Password :
                                 Login(r, b, name, password)
      PROVE  UNCHANGED jar
  BY <1>1 DEF browsers, Stats, Loads, Stores, Verifies, Records, Exchanges, Finds, Inserts, FindsAgain,
              Establishes, Callback, Login
<1>2. ASSUME NEW b \in Browser, UsesSession(b) PROVE UNCHANGED jar
  BY <1>2 DEF browsers, UsesSession
<1>3. ASSUME NEW c, NEW u, NEW name, ProviderAnswers(c, u, name) PROVE UNCHANGED jar
  BY <1>3 DEF ProviderAnswers
<1>4. CASE CommandLoads \/ CommandSaves \/ BreaksFile \/ PurgeExpired \/ Stop \/ Boots \/ Starts
  BY <1>4 DEF browsers, CommandLoads, CommandSaves, BreaksFile, PurgeExpired, Stop, Boots, Starts
<1>5. CASE UNCHANGED vars
  BY <1>5 DEF vars, browsers
<1> QED
  BY <1>1, <1>2, <1>3, <1>4, <1>5 DEF Next

-----------------------------------------------------------------------------
(***************************************************************************)
(* Arithmetic: the lesser and the greater of two, and the lockout, which   *)
(* never falls as failures mount (throttle.rs:91-94).                      *)
(***************************************************************************)
LEMMA LesserOfTwo == \A i, j \in Int : Min({i, j}) = IF i <= j THEN i ELSE j
  BY DEF Min

LEMMA GreaterOfTwo == \A i, j \in Int : Max({i, j}) = IF i <= j THEN j ELSE i
  BY DEF Max

LEMMA DownIsLess == \A n \in Nat : Down(n) = IF n = 0 THEN 0 ELSE n - 1
  BY GreaterOfTwo DEF Down

LEMMA PowersOfTwo == \A m \in 0..16 : 2 ^ m \in Nat \ {0} /\ (m < 16 => 2 ^ m <= 2 ^ (m + 1))
<1> SUFFICES ASSUME NEW m \in 0..16
             PROVE  2 ^ m \in Nat \ {0} /\ (m < 16 => 2 ^ m <= 2 ^ (m + 1))
  OBVIOUS
<1>1. CASE m = 0  BY <1>1
<1>2. CASE m = 1  BY <1>2
<1>3. CASE m = 2  BY <1>3
<1>4. CASE m = 3  BY <1>4
<1>5. CASE m = 4  BY <1>5
<1>6. CASE m = 5  BY <1>6
<1>7. CASE m = 6  BY <1>7
<1>8. CASE m = 7  BY <1>8
<1>9. CASE m = 8  BY <1>9
<1>10. CASE m = 9  BY <1>10
<1>11. CASE m = 10  BY <1>11
<1>12. CASE m = 11  BY <1>12
<1>13. CASE m = 12  BY <1>13
<1>14. CASE m = 13  BY <1>14
<1>15. CASE m = 14  BY <1>15
<1>16. CASE m = 15  BY <1>16
<1>17. CASE m = 16  BY <1>17
<1> QED
  BY <1>1, <1>2, <1>3, <1>4, <1>5, <1>6, <1>7, <1>8, <1>9,
     <1>10, <1>11, <1>12, <1>13, <1>14, <1>15, <1>16, <1>17

LEMMA LockoutGrows ==
  ASSUME NEW n \in Nat, n > FreeAttempts, NEW m \in Nat, m = n + 1
  PROVE  Lockout(n) \in 1..MaxLockout /\ Lockout(n) <= Lockout(m)
<1> DEFINE e == Min({n - FreeAttempts - 1, 16})
           f == Min({m - FreeAttempts - 1, 16})
           x == BaseLockout * 2 ^ e
           y == BaseLockout * 2 ^ f
<1>1. /\ e \in 0..16 /\ f \in 0..16 /\ (f = e \/ (e < 16 /\ f = e + 1))
  <2>1. n - FreeAttempts - 1 \in Nat /\ m - FreeAttempts - 1 = (n - FreeAttempts - 1) + 1
    BY SignInAssumption
  <2>2. \A k \in Nat : Min({k, 16}) = IF k <= 16 THEN k ELSE 16
    BY LesserOfTwo
  <2> QED
    BY <2>1, <2>2
<1>2. Lockout(n) = Min({x, MaxLockout}) /\ Lockout(m) = Min({y, MaxLockout})
  BY DEF Lockout
<1> HIDE DEF e, f
<1>3. 2 ^ e \in Nat \ {0} /\ 2 ^ f \in Nat \ {0} /\ 2 ^ e <= 2 ^ f
  <2>1. 2 ^ e \in Nat \ {0} /\ (e < 16 => 2 ^ e <= 2 ^ (e + 1))
    BY <1>1, PowersOfTwo, Zenon
  <2>2. 2 ^ f \in Nat \ {0}
    BY <1>1, PowersOfTwo, Zenon
  <2>3. CASE f = e
    BY <2>1, <2>3
  <2>4. CASE e < 16 /\ f = e + 1
    BY <2>1, <2>2, <2>4, Zenon
  <2>5. QED
    BY <1>1, <2>3, <2>4
<1>4. x \in Nat \ {0} /\ y \in Nat \ {0} /\ x <= y
  <2>1. \A a, b \in Nat \ {0} : a <= b => /\ BaseLockout * a \in Nat \ {0}
                                         /\ BaseLockout * b \in Nat \ {0}
                                         /\ BaseLockout * a <= BaseLockout * b
    BY SignInAssumption
  <2>2. QED
    BY <1>3, <2>1
<1> HIDE DEF x, y
<1>5. QED
  BY <1>2, <1>4, LesserOfTwo, SignInAssumption

-----------------------------------------------------------------------------
(***************************************************************************)
(* The throttle.                                                           *)
(***************************************************************************)
\* A failed attempt forgets no key that is held back, in a full table either.
LEMMA PrunedKeepsHeld ==
  ASSUME ThrottleOK, NEW k \in DOMAIN entries, entries[k].locked > 0
  PROVE  k \in DOMAIN Pruned(entries)
<1>1. entries[k].quiet < ForgetAfter
  BY SignInAssumption DEF ThrottleOK, HeldBriefly, Entry
<1>2. QED
  BY <1>1 DEF Pruned, Restrict

LEMMA PrunedIsPart == /\ DOMAIN Pruned(entries) \subseteq DOMAIN entries
                      /\ \A k \in DOMAIN Pruned(entries) : Pruned(entries)[k] = entries[k]
  BY DEF Pruned, Restrict

LEMMA FailedOK ==
  ASSUME ThrottleOK, NEW key \in Key, Failed(key)
  PROVE  /\ ThrottleOK'
         /\ \A k \in DOMAIN entries : entries[k].locked > 0 =>
              k \in DOMAIN entries' /\ entries'[k].locked >= entries[k].locked
<1> DEFINE kept     == Pruned(entries)
           failures == 1 + (IF key \in DOMAIN kept THEN kept[key].failures ELSE 0)
           before   == IF key \in DOMAIN kept THEN kept[key].locked ELSE 0
           entry    == [failures |-> failures, quiet |-> 0,
                        locked |-> IF failures > FreeAttempts THEN Lockout(failures) ELSE before]
<1>1. entries' = [k \in DOMAIN kept \cup {key} |-> IF k = key THEN entry ELSE kept[k]]
  BY DEF Failed
<1>2. \A k \in DOMAIN kept : k \in DOMAIN entries /\ kept[k] = entries[k] /\ kept[k] \in Entry
                             /\ HeldBriefly(kept[k])
  BY PrunedIsPart DEF ThrottleOK
<1> HIDE DEF kept
<1>3. failures \in Nat \ {0} /\ before \in 0..MaxLockout
  BY <1>2, SignInAssumption DEF Entry
<1>4. failures <= FreeAttempts => before = 0
  BY <1>2, SignInAssumption DEF Entry, HeldBriefly
<1>5. entry \in Entry /\ HeldBriefly(entry)
  <2> HIDE DEF failures, before
  <2>1. CASE failures > FreeAttempts
    <3>1. Lockout(failures) \in 1..MaxLockout
      BY <1>3, <2>1, LockoutGrows
    <3>2. QED
      BY <1>3, <2>1, <3>1, SignInAssumption DEF Entry, HeldBriefly
  <2>2. CASE ~(failures > FreeAttempts)
    BY <1>3, <1>4, <2>2, SignInAssumption DEF Entry, HeldBriefly
  <2>3. QED
    BY <2>1, <2>2
<1>6. \A k \in DOMAIN entries' : entries'[k] \in Entry /\ HeldBriefly(entries'[k])
  <2> HIDE DEF entry
  <2>1. QED
    BY <1>1, <1>2, <1>5
<1>7. DOMAIN entries' \subseteq Key
  BY <1>1, <1>2 DEF ThrottleOK
<1>8. ASSUME NEW k \in DOMAIN entries, entries[k].locked > 0
      PROVE  k \in DOMAIN entries' /\ entries'[k].locked >= entries[k].locked
  <2>1. k \in DOMAIN kept /\ kept[k] = entries[k]
    BY <1>8, <1>2, PrunedKeepsHeld DEF kept
  <2>2. CASE k # key
    BY <1>1, <2>1, <2>2, <1>8 DEF ThrottleOK, Entry
  <2>3. CASE k = key
    <3>1. /\ entries[k].failures \in Nat /\ entries[k].failures > FreeAttempts
          /\ entries[k].locked <= Lockout(entries[k].failures) /\ entries[k].locked \in Nat
      BY <1>8 DEF ThrottleOK, HeldBriefly, Entry
    <3>2. failures = entries[k].failures + 1
      BY <2>1, <2>3, <3>1
    <3>3. /\ Lockout(entries[k].failures) \in Nat
          /\ Lockout(entries[k].failures) <= Lockout(failures) /\ Lockout(failures) \in Nat
      <4> HIDE DEF failures
      <4>1. failures \in Nat /\ failures > FreeAttempts
        BY <3>1, <3>2, SignInAssumption
      <4>2. Lockout(entries[k].failures) \in 1..MaxLockout
            /\ Lockout(entries[k].failures) <= Lockout(failures)
        BY <3>1, <3>2, <4>1, LockoutGrows
      <4>3. failures + 1 \in Nat
        BY <4>1
      <4>4. Lockout(failures) \in 1..MaxLockout
        BY <4>1, <4>3, LockoutGrows
      <4>5. QED
        BY <4>2, <4>4, SignInAssumption
    <3>4. entries'[k].locked = Lockout(failures)
      <4> HIDE DEF failures, before
      <4>1. failures > FreeAttempts
        BY <3>1, <3>2, SignInAssumption
      <4>2. QED
        BY <1>1, <2>3, <4>1
    <3>5. QED
      <4> HIDE DEF entry, failures
      <4>1. k \in DOMAIN entries'
        BY <1>1, <2>3
      <4>2. QED
        BY <3>1, <3>3, <3>4, <4>1
  <2>4. QED
    BY <2>2, <2>3
<1>9. QED
  BY <1>6, <1>7, <1>8 DEF ThrottleOK

LEMMA ThrottleStep == ThrottleOK /\ TasksOK /\ [Next]_vars => ThrottleOK'
<1> SUFFICES ASSUME ThrottleOK, TasksOK, [Next]_vars PROVE ThrottleOK'
  OBVIOUS
<1>1. CASE UNCHANGED entries
  BY <1>1 DEF ThrottleOK
<1>2. CASE Stop
  BY <1>2 DEF Stop, ThrottleOK
<1>3. CASE Tick
  <2>1. DOMAIN entries' = DOMAIN entries
    BY <1>3 DEF Tick
  <2>2. ASSUME NEW k \in DOMAIN entries
        PROVE  entries'[k] \in Entry /\ HeldBriefly(entries'[k])
    <3>1. entries[k] \in Entry /\ HeldBriefly(entries[k])
      BY DEF ThrottleOK
    <3>2. entries'[k] = [entries[k] EXCEPT !.locked = Down(@), !.quiet = Min({@ + 1, ForgetAfter})]
      BY <1>3 DEF Tick
    <3>3. /\ entries'[k].failures = entries[k].failures
          /\ entries'[k].locked = Down(entries[k].locked)
          /\ entries'[k].quiet = Min({entries[k].quiet + 1, ForgetAfter})
          /\ entries'[k] = [failures |-> entries[k].failures, locked |-> Down(entries[k].locked),
                            quiet |-> Min({entries[k].quiet + 1, ForgetAfter})]
      BY <3>1, <3>2 DEF Entry
    <3>4. /\ Down(entries[k].locked) = IF entries[k].locked = 0 THEN 0 ELSE entries[k].locked - 1
          /\ Min({entries[k].quiet + 1, ForgetAfter})
               = IF entries[k].quiet + 1 <= ForgetAfter THEN entries[k].quiet + 1 ELSE ForgetAfter
      BY <3>1, DownIsLess, LesserOfTwo, SignInAssumption DEF Entry
    <3>5. entries'[k] \in Entry
      BY <3>1, <3>3, <3>4, SignInAssumption DEF Entry
    <3>6. ASSUME entries'[k].locked > 0
          PROVE  entries'[k].locked + entries'[k].quiet <= MaxLockout
                 /\ entries'[k].failures > FreeAttempts
                 /\ entries'[k].locked <= Lockout(entries'[k].failures)
      <4>1. entries[k].locked > 0 /\ entries[k].locked \in Nat /\ entries[k].quiet \in Nat
            /\ entries[k].failures \in Nat
        BY <3>1, <3>3, <3>4, <3>6 DEF Entry
      <4>2. Lockout(entries[k].failures) \in 1..MaxLockout
        <5>1. entries[k].failures + 1 \in Nat /\ entries[k].failures > FreeAttempts
          BY <3>1, <4>1 DEF HeldBriefly
        <5>2. QED
          BY <4>1, <5>1, LockoutGrows
      <4>3. QED
        BY <3>1, <3>3, <3>4, <4>1, <4>2, SignInAssumption DEF HeldBriefly
    <3>7. QED
      BY <3>5, <3>6 DEF HeldBriefly
  <2>3. QED
    BY <2>1, <2>2 DEF ThrottleOK
<1>4. ASSUME NEW r \in Req, Records(r) PROVE ThrottleOK'
  <2> DEFINE key == <<task[r].browser, task[r].name>>
  <2>1. key \in Key
    BY <1>4 DEF TasksOK, Proved, Records, Place, Key
  <2>2. CASE Cleared(key)
    BY <2>2 DEF Cleared, ThrottleOK, Restrict
  <2>3. CASE Failed(key)
    BY <2>1, <2>3, FailedOK
  <2>4. QED
    BY <1>4, <2>2, <2>3 DEF Records
<1>5. QED
  BY <1>1, <1>2, <1>3, <1>4, ChangesEntries

\* What a step may do to a key that is held back, in a state where the throttle is as
\* it should be (throttle.rs:76-118).
LEMMA HeldBackStep ==
  ASSUME ThrottleOK, TasksOK, [Next]_vars, NEW k \in DOMAIN entries, entries[k].locked > 0
  PROVE  \/ k \in DOMAIN entries' /\ entries'[k].locked >= entries[k].locked
         \/ Tick \/ Stop
         \/ \E r \in Req : /\ Place(r, "right") /\ Records(r)
                           /\ <<task[r].browser, task[r].name>> = k
<1>1. CASE UNCHANGED entries
  BY <1>1 DEF ThrottleOK, Entry
<1>2. ASSUME NEW r \in Req, Records(r), ~Tick, ~Stop,
             ~(Place(r, "right") /\ <<task[r].browser, task[r].name>> = k)
      PROVE  k \in DOMAIN entries' /\ entries'[k].locked >= entries[k].locked
  <2> DEFINE key == <<task[r].browser, task[r].name>>
  <2>1. key \in Key
    BY <1>2 DEF TasksOK, Proved, Records, Place, Key
  <2>2. CASE Place(r, "right")
    <3>1. Cleared(key) /\ k # key
      BY <1>2, <2>2 DEF Records, Place
    <3>2. QED
      BY <3>1 DEF Cleared, ThrottleOK, Restrict, Entry
  <2>3. CASE ~Place(r, "right")
    <3>1. Failed(key)
      BY <1>2, <2>3 DEF Records
    <3>2. QED
      BY <2>1, <3>1, FailedOK
  <2>4. QED
    BY <2>2, <2>3
<1>3. QED
  BY <1>1, <1>2, ChangesEntries

-----------------------------------------------------------------------------
(***************************************************************************)
(* The users file and the copy of it in memory.                            *)
(***************************************************************************)
LEMMA UserCommandType ==
  ASSUME NEW accounts \in Accounts PROVE UserCommand(accounts) \subseteq Accounts
  BY DEF UserCommand, Upserted, Without, Accounts

\* A request that goes elsewhere leaves what the others have loaded as it was.
LEMMA GoesElsewhere ==
  ASSUME FileOK, UNCHANGED <<file, stamp>>, NEW r \in Req,
         \A q \in Req : q # r => task'[q] = task[q],
         task'[r].at \notin {"load", "store"}
  PROVE  \A q \in Req : LoadedAsIs(task[q])'
  BY DEF FileOK, LoadedAsIs

LEMMA FileStep == FileOK /\ TasksOK /\ [Next]_vars => FileOK'
<1> SUFFICES ASSUME FileOK, TasksOK, [Next]_vars PROVE FileOK'
  OBVIOUS
<1>1. CASE Stop
  BY <1>1, SignInAssumption DEF Stop, fileVars, FileOK, CopyFollowsFile, LoadedAsIs, Off
<1>2. CASE Boots
  BY <1>2 DEF Boots, fileVars, FileOK, CopyFollowsFile, LoadedAsIs
<1>3. CASE Starts
  BY <1>3 DEF Starts, fileVars, FileOK, CopyFollowsFile, LoadedAsIs
<1>4. CASE CommandLoads
  BY <1>4 DEF CommandLoads, memory, FileOK, CopyFollowsFile, LoadedAsIs
<1>5. CASE CommandSaves
  <2>1. file' \in Accounts
    BY <1>5, UserCommandType DEF CommandSaves, FileOK
  <2>2. stamp' = stamp + 1 /\ stamp' \in Nat \ {0} /\ editor' = Nothing
    BY <1>5 DEF CommandSaves, FileOK
  <2>3. cache' = cache /\ booted' = booted /\ task' = task
    BY <1>5 DEF CommandSaves, memory
  <2>4. CopyFollowsFile'
    BY <2>2, <2>3 DEF CopyFollowsFile, FileOK
  <2>5. \A r \in Req : LoadedAsIs(task[r])'
    BY <2>2, <2>3 DEF LoadedAsIs, FileOK, TasksOK, Task
  <2>6. QED
    BY <2>1, <2>2, <2>3, <2>4, <2>5 DEF FileOK
<1>6. CASE BreaksFile
  <2>1. file' = Nothing /\ editor' = editor
    BY <1>6 DEF BreaksFile
  <2>2. stamp' = stamp + 1 /\ stamp' \in Nat \ {0}
    BY <1>6 DEF BreaksFile, FileOK
  <2>3. cache' = cache /\ booted' = booted /\ task' = task
    BY <1>6 DEF BreaksFile, memory
  <2>4. CopyFollowsFile'
    BY <2>2, <2>3 DEF CopyFollowsFile, FileOK
  <2>5. \A r \in Req : LoadedAsIs(task[r])'
    BY <2>2, <2>3 DEF LoadedAsIs, FileOK, TasksOK, Task
  <2>6. QED
    BY <2>1, <2>2, <2>3, <2>4, <2>5 DEF FileOK
<1>7. ASSUME NEW r \in Req, Stores(r) PROVE FileOK'
  <2>1. task[r].at = "store" /\ booted # 0
    BY <1>7 DEF Stores, Place, FileOK, Off
  <2>2. cache' = [users |-> task[r].users, stamp |-> task[r].stamp]
        /\ UNCHANGED <<file, stamp, editor, booted>>
    BY <1>7 DEF Stores, fileVars
  <2>3. cache' \in [users : Accounts \cup {Nothing}, stamp : 0..stamp]
    BY <2>1, <2>2 DEF FileOK, LoadedAsIs, TasksOK, Task
  <2>4. CopyFollowsFile'
    BY <2>1, <2>2 DEF FileOK, LoadedAsIs, CopyFollowsFile
  <2>5. \A q \in Req : LoadedAsIs(task[q])'
    BY <1>7, <2>2 DEF Stores, FileOK, LoadedAsIs, TasksOK, Task
  <2>6. QED
    BY <2>1, <2>2, <2>3, <2>4, <2>5 DEF FileOK
<1>8. CASE UNCHANGED <<file, stamp, editor, cache, booted>>
  <2>1. CopyFollowsFile'
    BY <1>8 DEF CopyFollowsFile, FileOK
  <2>2. ASSUME NEW r \in Req, NEW b \in Browser, NEW name \in Typed, NEW password \in Password,
               Login(r, b, name, password)
        PROVE  (\A q \in Req : LoadedAsIs(task[q])') /\ booted # 0
    <3>1. booted # 0
      BY <2>2 DEF Login, Asks
    <3>2. CASE Locked(<<b, name>>)
      BY <1>8, <2>2, <3>1, <3>2 DEF Login, FileOK, LoadedAsIs
    <3>3. CASE ~Locked(<<b, name>>)
      <4>1. task' = [task EXCEPT ![r] = [Off EXCEPT !.at = "stat", !.browser = b, !.name = name,
                                                    !.password = password]]
        BY <2>2, <3>3 DEF Login
      <4>2. \A q \in Req : q # r => task'[q] = task[q]
        BY <4>1 DEF TasksOK
      <4>3. task'[r].at = "stat"
        BY <4>1 DEF TasksOK, Off
      <4>4. QED
        BY <1>8, <3>1, <4>2, <4>3, GoesElsewhere
    <3>4. QED
      BY <3>2, <3>3
  <2>3. ASSUME NEW r \in Req, Stats(r)
        PROVE  (\A q \in Req : LoadedAsIs(task[q])') /\ booted # 0
    BY <1>8, <2>3 DEF Stats, Goes, Place, FileOK, LoadedAsIs, TasksOK, Task, Off
  <2>4. ASSUME NEW r \in Req, Loads(r)
        PROVE  (\A q \in Req : LoadedAsIs(task[q])') /\ booted # 0
    BY <1>8, <2>4 DEF Loads, Place, FileOK, LoadedAsIs, TasksOK, Task, Off
  <2>5. ASSUME NEW r \in Req, Stores(r)
        PROVE  FileOK'
    BY <2>5, <1>7
  <2>6. ASSUME NEW r \in Req, Verifies(r)
        PROVE  (\A q \in Req : LoadedAsIs(task[q])') /\ booted # 0
    <3>1. booted # 0 /\ r \in DOMAIN task
      BY <2>6 DEF Verifies, Place, FileOK, TasksOK, Off
    <3>2. /\ \A q \in Req : q # r => task'[q] = task[q]
          /\ task'[r].at \notin {"load", "store"}
      BY <2>6, <3>1 DEF Verifies, TasksOK, Task
    <3>3. QED
      BY <1>8, <3>1, <3>2, GoesElsewhere
  <2>6a. ASSUME NEW r \in Req, Records(r)
         PROVE  (\A q \in Req : LoadedAsIs(task[q])') /\ booted # 0
    <3>1. booted # 0 /\ r \in DOMAIN task
      BY <2>6a DEF Records, Place, FileOK, TasksOK, Off
    <3>2. /\ \A q \in Req : q # r => task'[q] = task[q]
          /\ task'[r].at \notin {"load", "store"}
      BY <2>6a, <3>1 DEF Records, Ends, Off, TasksOK, Task
    <3>3. QED
      BY <1>8, <3>1, <3>2, GoesElsewhere
  <2>7. ASSUME NEW r \in Req, NEW b \in Browser, NEW c \in codes, Callback(r, b, c)
        PROVE  (\A q \in Req : LoadedAsIs(task[q])') /\ booted # 0
    <3>1. booted # 0
      BY <2>7 DEF Callback, Asks
    <3>2. CASE UNCHANGED task
      BY <1>8, <3>1, <3>2 DEF FileOK, LoadedAsIs
    <3>3. CASE task' = [task EXCEPT ![r] = [Off EXCEPT !.at = "exchange", !.browser = b,
                                                       !.code = c]]
      <4>1. \A q \in Req : q # r => task'[q] = task[q]
        BY <3>3 DEF TasksOK
      <4>2. task'[r].at = "exchange"
        BY <3>3 DEF TasksOK, Off
      <4>3. QED
        BY <1>8, <3>1, <4>1, <4>2, GoesElsewhere
    <3>4. QED
      BY <2>7, <3>2, <3>3 DEF Callback
  <2>8. ASSUME NEW r \in Req, Exchanges(r)
        PROVE  (\A q \in Req : LoadedAsIs(task[q])') /\ booted # 0
    BY <1>8, <2>8 DEF Exchanges, Ends, Place, FileOK, LoadedAsIs, TasksOK, Task, Off
  <2>9. ASSUME NEW r \in Req, Finds(r)
        PROVE  (\A q \in Req : LoadedAsIs(task[q])') /\ booted # 0
    BY <1>8, <2>9 DEF Finds, Goes, WithRow, Place, FileOK, LoadedAsIs, TasksOK, Task, Off
  <2>10. ASSUME NEW r \in Req, Inserts(r)
         PROVE  (\A q \in Req : LoadedAsIs(task[q])') /\ booted # 0
    <3>1. booted # 0
      BY <2>10 DEF Inserts, Place, FileOK, Off
    <3>2. task[r].at = "insert" /\ r \in DOMAIN task
      BY <2>10 DEF Inserts, Place, TasksOK
    <3>3. ASSUME NEW n, WithRow(r, n)
          PROVE  \A q \in Req : LoadedAsIs(task[q])'
      BY <1>8, <3>2, <3>3, GoesElsewhere DEF WithRow, TasksOK, Task
    <3>4. ASSUME Ends(r)
          PROVE  \A q \in Req : LoadedAsIs(task[q])'
      BY <1>8, <3>2, <3>4, GoesElsewhere DEF Ends, TasksOK, Task, Off
    <3>5. ASSUME NEW n, task' = [task EXCEPT ![r].suffix = n]
          PROVE  \A q \in Req : LoadedAsIs(task[q])'
      BY <1>8, <3>2, <3>5, GoesElsewhere DEF TasksOK, Task
    <3>6. ASSUME Goes(r, "again")
          PROVE  \A q \in Req : LoadedAsIs(task[q])'
      BY <1>8, <3>2, <3>6, GoesElsewhere DEF Goes, TasksOK, Task
    <3>7. QED
      BY <2>10, <3>1, <3>3, <3>4, <3>5, <3>6 DEF Inserts
  <2>10a. ASSUME NEW r \in Req, FindsAgain(r)
          PROVE  (\A q \in Req : LoadedAsIs(task[q])') /\ booted # 0
    BY <1>8, <2>10a DEF FindsAgain, Ends, WithRow, Place, FileOK, LoadedAsIs, TasksOK, Task, Off
  <2>11. ASSUME NEW r \in Req, Establishes(r)
         PROVE  (\A q \in Req : LoadedAsIs(task[q])') /\ booted # 0
    BY <1>8, <2>11 DEF Establishes, Place, FileOK, LoadedAsIs, TasksOK, Task, Off
  <2>11a. ASSUME NEW r \in Req, Answers(r)
          PROVE  (\A q \in Req : LoadedAsIs(task[q])') /\ booted # 0
    BY <1>8, <2>11a DEF Answers, Ends, Place, FileOK, LoadedAsIs, TasksOK, Task, Off
  <2>12. CASE UNCHANGED task
    BY <1>8, <2>1, <2>12 DEF FileOK, LoadedAsIs
  <2>13. CASE (\A q \in Req : LoadedAsIs(task[q])') /\ booted # 0
    BY <1>8, <2>1, <2>13 DEF FileOK
  <2>14. QED
    BY <1>1, <2>2, <2>3, <2>4, <2>5, <2>6, <2>6a, <2>7, <2>8, <2>9, <2>10, <2>10a, <2>11, <2>11a,
       <2>12, <2>13, ChangesTask
<1>9. QED
  BY <1>1, <1>2, <1>3, <1>4, <1>5, <1>6, <1>7, <1>8, ChangesFile

-----------------------------------------------------------------------------
(***************************************************************************)
(* The requests: what each has proved.                                     *)
(***************************************************************************)
\* No row of the users table is changed or taken away.
LEMMA RowsStay ==
  ASSUME TablesOK, TasksOK, [Next]_vars
  PROVE  /\ users' \in Seq(Row)
         /\ \A n \in DOMAIN users : n \in DOMAIN users' /\ users'[n] = users[n]
<1>1. CASE users' = users
  BY <1>1 DEF TablesOK
<1>2. ASSUME NEW r \in Req, Inserts(r),
             users' = Append(users, [who |-> task[r].who, name |-> task[r].name,
                                     dir |-> <<Base[task[r].name], task[r].suffix>>])
      PROVE  /\ users' \in Seq(Row)
             /\ \A n \in DOMAIN users : n \in DOMAIN users' /\ users'[n] = users[n]
  <2>1. task[r].who \in Who /\ task[r].name \in Name /\ task[r].suffix \in Nat
    BY <1>2 DEF Inserts, Place, TasksOK, Proved, Task
  <2>2. [who |-> task[r].who, name |-> task[r].name,
         dir |-> <<Base[task[r].name], task[r].suffix>>] \in Row
    BY <2>1 DEF Row
  <2>3. QED
    BY <1>2, <2>2 DEF TablesOK
<1>3. ASSUME NEW r \in Req, Inserts(r)
      PROVE  users' = users
             \/ users' = Append(users, [who |-> task[r].who, name |-> task[r].name,
                                        dir |-> <<Base[task[r].name], task[r].suffix>>])
  BY <1>3 DEF Inserts
<1>4. (\E r \in Req : Inserts(r)) \/ users' = users
  BY ChangesTables DEF PurgeExpired, Tick, OidcLogin, UsesSession, Logout, Callback, Establishes
<1>5. QED
  BY <1>1, <1>2, <1>3, <1>4

LEMMA CodesStep ==
  ASSUME TasksOK, TablesOK, [Next]_vars
  PROVE  /\ codes' \subseteq Code
         /\ \A c \in codes' : Answered(c)
         /\ \A c \in codes : c.subject # Nothing => c \in codes'
<1>1. CASE UNCHANGED codes
  BY <1>1 DEF TasksOK
<1>2. ASSUME NEW b \in Browser, OidcLogin(b)
      PROVE  /\ codes' \subseteq Code
             /\ \A c \in codes' : Answered(c)
             /\ \A c \in codes : c.subject # Nothing => c \in codes'
  BY <1>2 DEF OidcLogin, Begin, TasksOK, TablesOK, Code, Answered
<1>3. ASSUME NEW c \in codes, NEW s \in Subject, NEW name \in Claims[s], ProviderAnswers(c, s, name)
      PROVE  /\ codes' \subseteq Code
             /\ \A d \in codes' : Answered(d)
             /\ \A d \in codes : d.subject # Nothing => d \in codes'
  <2>1. name \in Name
    BY DEF Name
  <2>2. [c EXCEPT !.subject = s, !.name = name] \in Code
        /\ Answered([c EXCEPT !.subject = s, !.name = name])
    BY <2>1 DEF TasksOK, Code, Answered
  <2>3. QED
    BY <1>3, <2>2 DEF ProviderAnswers, TasksOK
<1>4. QED
  BY <1>1, <1>2, <1>3, ChangesCodes

LEMMA ProvedStays ==
  ASSUME TablesOK, TasksOK, [Next]_vars, NEW t, Proved(t) PROVE Proved(t)'
  BY RowsStay, CodesStep DEF Proved

\* A request that moves leaves the others where they are.
LEMMA Moves ==
  ASSUME TablesOK, TasksOK, [Next]_vars, NEW r \in Req, NEW t \in Task, Proved(t)',
         task' = [task EXCEPT ![r] = t]
  PROVE  TasksOK'
<1>1. task' \in [Req -> Task]
  BY DEF TasksOK
<1>2. ASSUME NEW q \in Req PROVE Proved(task[q])'
  <2>1. CASE q = r
    BY <2>1 DEF TasksOK, Proved
  <2>2. CASE q # r
    <3>1. task'[q] = task[q] /\ Proved(task[q])
      BY <2>2 DEF TasksOK
    <3>2. QED
      BY <3>1, RowsStay, CodesStep DEF Proved
  <2>3. QED
    BY <2>1, <2>2
<1>3. QED
  BY <1>1, <1>2, CodesStep DEF TasksOK

LEMMA FlowsStep == FlowsOK /\ TasksOK /\ TablesOK /\ [Next]_vars => FlowsOK'
<1> SUFFICES ASSUME FlowsOK, TasksOK, TablesOK, [Next]_vars PROVE FlowsOK'
  OBVIOUS
<1>1. issued \in Nat /\ issued' \in Nat /\ issued <= issued'
  <2>1. issued' = issued \/ issued' = issued + 1
    <3>1. ASSUME NEW b \in Browser, OidcLogin(b) \/ UsesSession(b) \/ Logout(b)
          PROVE  issued' = issued \/ issued' = issued + 1
      BY <3>1 DEF OidcLogin, UsesSession, Logout
    <3>2. ASSUME NEW r \in Req, \/ Inserts(r) \/ Establishes(r)
                                \/ \E b \in Browser, c \in codes : Callback(r, b, c)
          PROVE  issued' = issued \/ issued' = issued + 1
      BY <3>2 DEF Inserts, Establishes, Callback
    <3>3. CASE PurgeExpired \/ Tick
      BY <3>3 DEF PurgeExpired, Tick
    <3>4. QED
      BY <3>1, <3>2, <3>3, ChangesTables
  <2>2. QED
    BY <2>1 DEF TablesOK
<1>2. ASSUME NEW b \in Browser, OidcLogin(b) PROVE FlowsOK'
  <2>1. /\ issued' = issued + 1
        /\ jar' = [jar EXCEPT ![b].flow = issued + 1, ![b].flowLife = FlowTtl]
        /\ codes' = codes \cup {[flow |-> issued + 1, browser |-> b, subject |-> Nothing, name |-> Nothing]}
    BY <1>2 DEF OidcLogin, Begin
  <2>2. jar' \in [Browser -> Jar] /\ jar'[b].flow = issued + 1
    BY <1>1, <2>1, SignInAssumption DEF FlowsOK, Jar
  <2>3. \A a \in Browser : a # b => jar'[a] = jar[a]
    BY <2>1 DEF FlowsOK
  <2>4. \A a \in Browser : jar'[a].flow \in 0..issued'
    BY <1>1, <2>1, <2>2, <2>3 DEF FlowsOK
  <2>5. ASSUME NEW c \in codes' PROVE c.flow \in 1..issued' /\ (c \in codes \/ c.flow = issued + 1)
    BY <1>1, <2>1, <2>5 DEF FlowsOK
  <2>6. ASSUME NEW c \in codes', NEW a \in Browser, c.flow = jar'[a].flow PROVE c.browser = a
    <3>1. CASE c \in codes /\ a # b
      BY <2>3, <2>6, <3>1 DEF FlowsOK
    <3>2. CASE c \in codes /\ a = b
      <4>1. c.flow \in 1..issued /\ c.flow = issued + 1
        BY <2>2, <2>6, <3>2 DEF FlowsOK
      <4>2. QED
        BY <1>1, <4>1
    <3>3. CASE c \notin codes
      <4>1. c.flow = issued + 1 /\ c.browser = b
        BY <2>1, <3>3
      <4>2. CASE a # b
        <5>1. jar[a].flow = issued + 1 /\ jar[a].flow \in 0..issued
          BY <2>3, <2>6, <4>1, <4>2 DEF FlowsOK
        <5>2. QED
          BY <1>1, <5>1
      <4>3. QED
        BY <4>1, <4>2
    <3>4. QED
      BY <3>1, <3>2, <3>3
  <2>7. QED
    BY <2>2, <2>4, <2>5, <2>6 DEF FlowsOK
\* No browser's flow becomes another but by beginning it.
<1>3. ASSUME jar' \in [Browser -> Jar], \A b \in Browser : jar'[b].flow \in {0, jar[b].flow},
             codes' = codes
      PROVE  FlowsOK'
  BY <1>1, <1>3 DEF FlowsOK
<1>4. CASE UNCHANGED jar /\ UNCHANGED codes
  BY <1>3, <1>4 DEF FlowsOK
<1>5. ASSUME NEW c \in codes, NEW s \in Subject, NEW name \in Claims[s], ProviderAnswers(c, s, name)
      PROVE  FlowsOK'
  <2>1. /\ codes' = (codes \ {c}) \cup {[c EXCEPT !.subject = s, !.name = name]} /\ jar' = jar
        /\ issued' = issued
    BY <1>5 DEF ProviderAnswers, tables
  <2>2. PICK d : d = [c EXCEPT !.subject = s, !.name = name]
    OBVIOUS
  <2>3. d.flow = c.flow /\ d.browser = c.browser
    BY <2>2 DEF TasksOK, Code
  <2>4. ASSUME NEW e \in codes'
        PROVE  \E k \in codes : e.flow = k.flow /\ e.browser = k.browser
    <3>1. e \in codes \/ e = d
      BY <2>1, <2>2
    <3>2. QED
      BY <2>3, <3>1
  <2>5. jar' = jar /\ issued' = issued
    BY <2>1
  <2>6. QED
    BY <2>4, <2>5 DEF FlowsOK
<1>6. CASE Tick
  <2>1. jar' = [b \in Browser |-> [jar[b] EXCEPT !.life = Down(@), !.flowLife = Down(@)]] /\ codes' = codes
    BY <1>6 DEF Tick
  <2>2. ASSUME NEW b \in Browser PROVE jar'[b] \in Jar /\ jar'[b].flow = jar[b].flow
    <3>1. jar[b] \in Jar /\ Down(jar[b].life) \in Nat /\ Down(jar[b].flowLife) \in Nat
      BY DownIsLess DEF FlowsOK, Jar
    <3>2. jar'[b] = [jar[b] EXCEPT !.life = Down(@), !.flowLife = Down(@)]
      BY <2>1
    <3>3. QED
      BY <3>1, <3>2 DEF Jar
  <2>3. QED
    BY <1>3, <2>1, <2>2
<1>7. ASSUME NEW b \in Browser, Logout(b) PROVE FlowsOK'
  BY <1>3, <1>7 DEF Logout, FlowsOK, Jar
<1>8. ASSUME NEW r \in Req, Answers(r) PROVE FlowsOK'
  <2>1. codes' = codes
    BY <1>8 DEF Answers
  <2>2. PICK t : t = task[r] /\ t.token \in Nat
    BY DEF TasksOK, Task
  <2>3. CASE UNCHANGED jar
    BY <1>4, <2>1, <2>3
  <2>4. CASE jar' = [jar EXCEPT ![t.browser].token = t.token, ![t.browser].life = Ttl,
                                ![t.browser].flow = IF t.code = Nothing THEN @ ELSE 0,
                                ![t.browser].flowLife = IF t.code = Nothing THEN @ ELSE 0]
    <3>1. CASE t.browser \notin Browser
      <4>1. jar' = jar
        BY <2>4, <3>1 DEF FlowsOK
      <4>2. QED
        BY <1>4, <2>1, <4>1
    <3>2. CASE t.browser \in Browser
      <4>1. PICK b : b = t.browser
        OBVIOUS
      <4>2. PICK old : old = jar[b] /\ old \in Jar
        BY <3>2, <4>1 DEF FlowsOK
      <4>3. PICK f, l : /\ f = IF t.code = Nothing THEN old.flow ELSE 0
                        /\ l = IF t.code = Nothing THEN old.flowLife ELSE 0
        OBVIOUS
      <4>4. PICK new : new = [token |-> t.token, life |-> Ttl, flow |-> f, flowLife |-> l]
        OBVIOUS
      <4>5. new \in Jar /\ new.flow \in {0, old.flow}
        BY ONLY <2>2, <4>2, <4>3, <4>4, SignInAssumption DEF Jar
      <4>6. jar'[b] = new
        BY <2>4, <3>2, <4>1, <4>2, <4>3, <4>4 DEF FlowsOK, Jar
      <4>7. jar' = [jar EXCEPT ![b] = new]
        BY <2>4, <3>2, <4>1, <4>6 DEF FlowsOK
      <4>8. jar' \in [Browser -> Jar] /\ \A a \in Browser : jar'[a].flow \in {0, jar[a].flow}
        BY <3>2, <4>1, <4>2, <4>5, <4>7 DEF FlowsOK
      <4>9. QED
        BY <1>3, <2>1, <4>8
    <3>3. QED
      BY <3>1, <3>2
  <2>5. QED
    BY <1>8, <2>2, <2>3, <2>4 DEF Answers
<1>9. QED
  BY <1>2, <1>4, <1>5, <1>6, <1>7, <1>8, ChangesJar, ChangesCodes DEF OidcLogin, ProviderAnswers, Tick,
     Logout, Answers

LEMMA OffIsTask == Off \in Task /\ Proved(Off) /\ (Proved(Off))'
  BY DEF Off, Task, Proved

LEMMA TasksStep == TasksOK /\ FlowsOK /\ TablesOK /\ FileOK /\ [Next]_vars => TasksOK'
<1> SUFFICES ASSUME TasksOK, FlowsOK, TablesOK, FileOK, [Next]_vars PROVE TasksOK'
  OBVIOUS
<1>1. ASSUME NEW r \in Req, NEW b \in Browser, NEW name \in Typed, NEW password \in Password,
             Login(r, b, name, password), task' # task
      PROVE  TasksOK'
  <2> DEFINE t == [Off EXCEPT !.at = "stat", !.browser = b, !.name = name, !.password = password]
  <2>1. t \in Task /\ (Proved(t))'
    BY DEF Off, Task, Proved
  <2>2. task' = [task EXCEPT ![r] = t]
    BY <1>1 DEF Login
  <2>3. QED
    BY <2>1, <2>2, Moves
<1>2. ASSUME NEW r \in Req, Stats(r) PROVE TasksOK'
  <2>0. PICK t : t = IF cache.stamp = stamp THEN [task[r] EXCEPT !.at = "verify"]
                     ELSE [task[r] EXCEPT !.at = "load", !.stamp = stamp]
    OBVIOUS
  <2>a. t \in Task /\ t.at \in {"verify", "load"} /\ t.browser = task[r].browser
        /\ t.name = task[r].name /\ t.code = task[r].code
    <3>1. task[r] \in Task /\ stamp \in Nat
      BY DEF TasksOK, FileOK
    <3>2. [task[r] EXCEPT !.at = "verify"] \in Task /\ [task[r] EXCEPT !.at = "load", !.stamp = stamp] \in Task
      BY ONLY <3>1 DEF Task
    <3> QED
      BY ONLY <2>0, <3>1, <3>2 DEF Task
  <2>1. t \in Task /\ (Proved(t))'
    BY <1>2, <2>a DEF Stats, Place, TasksOK, Proved
  <2>2. task' = [task EXCEPT ![r] = t]
    BY <2>0, <1>2 DEF Stats, Goes, TasksOK, Task
  <2>3. QED
    BY <2>1, <2>2, Moves
<1>3. ASSUME NEW r \in Req, Loads(r) PROVE TasksOK'
  <2>0. PICK t : t = IF file = Nothing THEN [task[r] EXCEPT !.at = "verify", !.stamp = 0]
                     ELSE [task[r] EXCEPT !.at = "store", !.users = file]
    OBVIOUS
  <2>a. t \in Task /\ t.at \in {"verify", "store"} /\ t.browser = task[r].browser
        /\ t.name = task[r].name /\ t.code = task[r].code
    <3>1. task[r] \in Task /\ (file = Nothing \/ file \in Accounts)
      BY DEF TasksOK, FileOK
    <3>2. [task[r] EXCEPT !.at = "verify", !.stamp = 0] \in Task
      BY ONLY <3>1 DEF Task
    <3>3. file \in Accounts => [task[r] EXCEPT !.at = "store", !.users = file] \in Task
      BY ONLY <3>1 DEF Task
    <3> QED
      BY ONLY <2>0, <3>1, <3>2, <3>3 DEF Task
  <2>1. t \in Task /\ (Proved(t))'
    BY <1>3, <2>a DEF Loads, Place, TasksOK, Proved
  <2>2. task' = [task EXCEPT ![r] = t]
    BY <2>0, <1>3 DEF Loads, TasksOK, Task
  <2>3. QED
    BY <2>1, <2>2, Moves
<1>4. ASSUME NEW r \in Req, Stores(r) PROVE TasksOK'
  <2>0. PICK t : t = [task[r] EXCEPT !.at = "verify", !.users = Nothing, !.stamp = 0]
    OBVIOUS
  <2>a. /\ task[r] \in Task /\ task[r].browser \in Browser /\ task[r].name \in Typed
        /\ task[r].code # Nothing => task[r].code.browser = task[r].browser
    BY <1>4 DEF Stores, Place, TasksOK, Proved
  <2>b. /\ t \in Task /\ t.at = "verify" /\ t.browser = task[r].browser /\ t.name = task[r].name
        /\ t.code = task[r].code
    BY ONLY <2>0, <2>a DEF Task
  <2>1. t \in Task /\ (Proved(t))'
    BY <2>a, <2>b DEF Proved
  <2>2. task' = [task EXCEPT ![r] = t]
    BY <2>0, <1>4 DEF Stores, TasksOK, Task
  <2>3. QED
    BY <2>1, <2>2, Moves
<1>5. ASSUME NEW r \in Req, Ends(r) PROVE TasksOK'
  BY <1>5, OffIsTask, Moves DEF Ends
<1>6. ASSUME NEW r \in Req, Verifies(r) PROVE TasksOK'
  <2>0. PICK t : t = [task[r] EXCEPT !.at = IF RightPassword(task[r]) THEN "right" ELSE "wrong",
                                     !.password = Nothing]
    OBVIOUS
  <2>a. /\ task[r] \in Task /\ task[r].browser \in Browser /\ task[r].name \in Typed
        /\ task[r].code # Nothing => task[r].code.browser = task[r].browser
    BY <1>6 DEF Verifies, Place, TasksOK, Proved
  <2>b. /\ t \in Task /\ t.browser = task[r].browser /\ t.name = task[r].name
        /\ t.code = task[r].code /\ t.at \in {"right", "wrong"}
        /\ t.at = "right" => RightPassword(task[r])
    BY ONLY <2>0, <2>a DEF Task
  <2>1. t \in Task /\ (Proved(t))'
    BY <2>a, <2>b DEF Proved, RightPassword
  <2>2. task' = [task EXCEPT ![r] = t]
    BY <2>0, <1>6 DEF Verifies, TasksOK, Task
  <2>3. QED
    BY <2>1, <2>2, Moves
<1>6a. ASSUME NEW r \in Req, Records(r), ~Ends(r) PROVE TasksOK'
  <2>0. PICK t : t = [task[r] EXCEPT !.at = "find", !.who = <<"local", task[r].name>>]
    OBVIOUS
  <2>a. /\ task[r] \in Task /\ task[r].name \in Account /\ <<"local", task[r].name>> \in Who
        /\ task[r].code # Nothing => task[r].code.browser = task[r].browser
    BY <1>6a DEF Records, Place, TasksOK, Proved, Who
  <2>b. /\ t \in Task /\ t.at = "find" /\ t.who \in Who /\ t.name = task[r].name
        /\ t.code = task[r].code /\ t.browser = task[r].browser
    BY ONLY <2>0, <2>a DEF Task
  <2>1. t \in Task /\ (Proved(t))'
    BY <2>a, <2>b DEF Proved, Name
  <2>2. task' = [task EXCEPT ![r] = t]
    BY <2>0, <1>6a DEF Records, TasksOK, Task
  <2>3. QED
    BY <2>1, <2>2, Moves
<1>7. ASSUME NEW r \in Req, NEW b \in Browser, NEW c \in codes, Callback(r, b, c), task' # task
      PROVE  TasksOK'
  <2> DEFINE t == [Off EXCEPT !.at = "exchange", !.browser = b, !.code = c]
  <2>1. c \in Code /\ c.subject # Nothing /\ c \in codes'
    BY <1>7, CodesStep DEF Callback, TasksOK
  <2>2. c.browser = b
    <3>1. c.flow = (IF jar[b].flowLife > 0 THEN jar[b].flow ELSE 0) /\ c.flow \in 1..issued
      BY <1>7 DEF Callback, FlowsOK
    <3>2. issued \in Nat
      BY DEF TablesOK
    <3>3. c.flow = jar[b].flow
      BY <3>1, <3>2
    <3>4. QED
      BY <3>3 DEF FlowsOK
  <2>3. t \in Task /\ (Proved(t))'
    BY <2>1, <2>2 DEF Off, Task, Proved, Code
  <2>4. task' = [task EXCEPT ![r] = t]
    BY <1>7 DEF Callback
  <2>5. QED
    BY <2>3, <2>4, Moves
<1>8. ASSUME NEW r \in Req, Exchanges(r), ~Ends(r) PROVE TasksOK'
  <2> DEFINE c == task[r].code
  <2>0. PICK t : t = [task[r] EXCEPT !.at = "find", !.who = <<"oidc", c.subject>>, !.name = c.name]
    OBVIOUS
  <2>1. /\ c.subject \in Subject /\ c.name \in Name /\ task[r].browser \in Browser
        /\ c # Nothing => c.browser = task[r].browser
    BY <1>8 DEF Exchanges, Place, TasksOK, Proved, Answered
  <2>2. <<"oidc", c.subject>> \in Who
    BY <2>1 DEF Who
  <2>a. /\ t \in Task /\ t.at = "find" /\ t.who \in Who /\ t.name \in Name
        /\ t.code = c /\ t.browser = task[r].browser
    <3>1. task[r] \in Task
      BY DEF TasksOK
    <3> QED
      BY ONLY <2>0, <2>1, <2>2, <3>1 DEF Task
  <2>3. t \in Task /\ (Proved(t))'
    BY <2>1, <2>a DEF Proved
  <2>4. task' = [task EXCEPT ![r] = t]
    BY <1>8, <2>0 DEF Exchanges, TasksOK, Task
  <2>5. QED
    BY <2>3, <2>4, Moves
\* A row of the identity that was proved, in the table as the step leaves it.
<1>9. ASSUME NEW r \in Req, task[r].at \in {"find", "insert", "again"},
             NEW n \in DOMAIN users', users'[n].who = task[r].who, WithRow(r, n)
      PROVE  TasksOK'
  <2>0. PICK t : t = [task[r] EXCEPT !.at = "session", !.row = n]
    OBVIOUS
  <2>1. n \in Nat
    BY <2>0, RowsStay
  <2>a. /\ task[r] \in Task /\ task[r].who \in Who /\ task[r].name \in Name
        /\ task[r].code # Nothing => task[r].code.browser = task[r].browser
    BY <1>9 DEF TasksOK, Proved
  <2>b. /\ t \in Task /\ t.at = "session" /\ t.row = n /\ t.who = task[r].who
        /\ t.name = task[r].name /\ t.code = task[r].code /\ t.browser = task[r].browser
    BY ONLY <2>0, <2>1, <2>a DEF Task
  <2>2. t \in Task /\ (Proved(t))'
    BY <1>9, <2>a, <2>b DEF Proved
  <2>3. task' = [task EXCEPT ![r] = t]
    BY <1>9, <2>0 DEF WithRow, TasksOK, Task
  <2>4. QED
    BY <2>2, <2>3, Moves
<1>10. ASSUME NEW r \in Req, Finds(r) PROVE TasksOK'
  <2>1. CASE RowsOf(task[r].who) = {}
    <3>0. PICK t : t = [task[r] EXCEPT !.at = "insert"]
      OBVIOUS
    <3>1. t \in Task /\ (Proved(t))'
      BY <3>0, <1>10 DEF Finds, Place, TasksOK, Task, Proved
    <3>2. task' = [task EXCEPT ![r] = t]
      BY <3>0, <1>10, <2>1 DEF Finds, Goes, TasksOK, Task
    <3>3. QED
      BY <3>1, <3>2, Moves
  <2>2. CASE RowsOf(task[r].who) # {}
    <3> DEFINE n == CHOOSE m \in RowsOf(task[r].who) : TRUE
    <3>1. n \in RowsOf(task[r].who)
      BY <2>2
    <3>2. n \in DOMAIN users' /\ users'[n].who = task[r].who
      BY <3>1, RowsStay DEF RowsOf
    <3>3. task[r].at = "find" /\ WithRow(r, n)
      BY <1>10, <2>2 DEF Finds, Place
    <3>4. QED
      BY <3>2, <3>3, <1>9
  <2>3. QED
    BY <2>1, <2>2
<1>11. ASSUME NEW r \in Req, Inserts(r) PROVE TasksOK'
  <2> DEFINE new == [who |-> task[r].who, name |-> task[r].name,
                     dir |-> <<Base[task[r].name], task[r].suffix>>]
  <2>1. task[r].at = "insert"
    BY <1>11 DEF Inserts, Place
  <2>2. CASE Goes(r, "again")
    <3>0. PICK t : t = [task[r] EXCEPT !.at = "again"]
      OBVIOUS
    <3>1. t \in Task /\ (Proved(t))'
      BY <3>0, <2>1 DEF TasksOK, Task, Proved
    <3>2. task' = [task EXCEPT ![r] = t]
      BY <3>0, <2>2 DEF Goes, TasksOK, Task
    <3>3. QED
      BY <3>1, <3>2, Moves
  <2>3. CASE task' = [task EXCEPT ![r].suffix = task[r].suffix + 1]
    <3>0. PICK t : t = [task[r] EXCEPT !.suffix = task[r].suffix + 1]
      OBVIOUS
    <3>1. t \in Task /\ (Proved(t))'
      BY <3>0, <2>1 DEF TasksOK, Task, Proved
    <3>2. task' = [task EXCEPT ![r] = t]
      BY <3>0, <2>3 DEF TasksOK, Task
    <3>3. QED
      BY <3>1, <3>2, Moves
  <2>4. CASE users' = Append(users, new) /\ WithRow(r, Len(users) + 1)
    <3>1. new \in Row
      BY <2>1 DEF Row, TasksOK, Task, Proved
    <3>2. Len(users) + 1 \in DOMAIN users' /\ users'[Len(users) + 1] = new
      BY <2>4, <3>1 DEF TablesOK
    <3>3. QED
      BY <2>1, <2>4, <3>2, <1>9
  <2>5. QED
    BY <1>5, <1>11, <2>2, <2>3, <2>4 DEF Inserts
<1>11a. ASSUME NEW r \in Req, FindsAgain(r), ~Ends(r) PROVE TasksOK'
  <2> DEFINE n == CHOOSE m \in RowsOf(task[r].who) : TRUE
  <2>1. n \in RowsOf(task[r].who) /\ task[r].at = "again" /\ WithRow(r, n)
    BY <1>11a DEF FindsAgain, Place
  <2>2. n \in DOMAIN users' /\ users'[n].who = task[r].who
    BY <2>1, RowsStay DEF RowsOf
  <2>3. QED
    BY <2>1, <2>2, <1>9
<1>11b. ASSUME NEW r \in Req, Establishes(r) PROVE TasksOK'
  <2>0. PICK t : t = [task[r] EXCEPT !.at = "answer", !.token = issued + 1]
    OBVIOUS
  <2>a. /\ task[r] \in Task /\ issued + 1 \in Nat
        /\ task[r].code # Nothing => task[r].code.browser = task[r].browser
    BY DEF TasksOK, TablesOK, Proved
  <2>b. t \in Task /\ t.at = "answer" /\ t.code = task[r].code /\ t.browser = task[r].browser
    BY ONLY <2>0, <2>a DEF Task
  <2>1. t \in Task /\ (Proved(t))'
    BY <2>a, <2>b DEF Proved
  <2>2. task' = [task EXCEPT ![r] = t]
    BY <2>0, <1>11b DEF Establishes, TasksOK, Task
  <2>3. QED
    BY <2>1, <2>2, Moves
<1>12. CASE Stop
  BY <1>12, OffIsTask, CodesStep DEF Stop, TasksOK, Proved, Off
<1>13. CASE UNCHANGED task
  BY <1>13, ProvedStays, CodesStep, RowsStay DEF TasksOK, Proved
<1>14. QED
  BY <1>1, <1>2, <1>3, <1>4, <1>5, <1>6, <1>6a, <1>7, <1>8, <1>10, <1>11, <1>11a, <1>11b, <1>12, <1>13,
     ChangesTask DEF Answers

-----------------------------------------------------------------------------
(***************************************************************************)
(* The users and sessions tables.                                          *)
(***************************************************************************)
SessionsInv == TablesOK /\ TypeOK /\ SignedInAsProved /\ LivesByUse

\* The rows keep their keys: a row goes in under a name, a vault and an identity that no
\* other has.
LEMMA KeysStay ==
  ASSUME TablesOK, TasksOK, TypeOK, [Next]_vars
  PROVE  \A m, n \in DOMAIN users' :
           m # n => /\ users'[m].who # users'[n].who /\ users'[m].name # users'[n].name
                    /\ users'[m].dir # users'[n].dir
<1>1. CASE users' = users
  BY <1>1 DEF TypeOK
<1>2. ASSUME NEW r \in Req, Inserts(r), users' # users
      PROVE  \A m, n \in DOMAIN users' :
               m # n => /\ users'[m].who # users'[n].who /\ users'[m].name # users'[n].name
                        /\ users'[m].dir # users'[n].dir
  <2> DEFINE new == [who |-> task[r].who, name |-> task[r].name,
                     dir |-> <<Base[task[r].name], task[r].suffix>>]
  <2>1. /\ RowsNamed(task[r].name) = {} /\ RowsOf(task[r].who) = {}
        /\ \A n \in DOMAIN users : users[n].dir # new.dir
        /\ users' = Append(users, new)
    BY <1>2 DEF Inserts
  <2>2. \A n \in DOMAIN users : /\ users[n].who # new.who /\ users[n].name # new.name
                                /\ users[n].dir # new.dir
    BY <2>1 DEF RowsNamed, RowsOf
  <2> HIDE DEF new
  <2>3. /\ DOMAIN users' = DOMAIN users \cup {Len(users) + 1}
        /\ \A n \in DOMAIN users : users'[n] = users[n]
        /\ users'[Len(users) + 1] = new
    BY <2>1 DEF TablesOK
  <2>4. QED
    BY <2>2, <2>3 DEF TypeOK
<1>3. (\E r \in Req : Inserts(r)) \/ users' = users
  BY ChangesTables DEF PurgeExpired, Tick, OidcLogin, UsesSession, Logout, Callback, Establishes
<1>4. QED
  BY <1>1, <1>2, <1>3

\* A session that is what it was, renewed, or older by a tick.
SessionOK(s) == /\ sessions[s] \in Session /\ sessions[s].row \in DOMAIN users
                /\ users[sessions[s].row].who = sessions[s].who
                /\ sessions[s].left > 0 => sessions[s].left + sessions[s].used \in Half..Ttl

LEMMA SessionsInvParts ==
  SessionsInv <=> /\ users \in Seq(Row) /\ issued \in Nat
                  /\ DOMAIN sessions \subseteq 1..issued /\ DOMAIN flows \subseteq 1..issued
                  /\ \A f \in DOMAIN flows : flows[f] \in 0..FlowTtl
                  /\ \A s \in DOMAIN sessions : SessionOK(s)
                  /\ TypeOK
  BY DEF SessionsInv, TablesOK, TypeOK, SignedInAsProved, LivesByUse, SessionOK, Session

LEMMA HalfOfTtl == Half \in Nat /\ Half <= Ttl /\ Ttl \in Nat \ {0} /\ FlowTtl \in Nat
  BY SignInAssumption DEF Half

\* A session of a row that is there, with its times as they should be, is one.
LEMMA MakesSession ==
  ASSUME NEW s, NEW row \in Nat, NEW who \in Who, NEW left \in 0..Ttl, NEW used \in Nat,
         row \in DOMAIN users', users'[row].who = who,
         left > 0 => left + used \in Half..Ttl,
         sessions'[s] = [row |-> row, left |-> left, who |-> who, used |-> used]
  PROVE  SessionOK(s)'
  BY DEF SessionOK, Session

LEMMA TimesOfSession ==
  ASSUME NEW x \in Session, NEW l, NEW u
  PROVE  [x EXCEPT !.left = l, !.used = u] = [row |-> x.row, left |-> l, who |-> x.who, used |-> u]
<1>1. PICK y : y = [x EXCEPT !.left = l]
  OBVIOUS
<1>2. y = [row |-> x.row, left |-> l, who |-> x.who, used |-> x.used]
  BY <1>1 DEF Session
<1>3. [x EXCEPT !.left = l, !.used = u] = [y EXCEPT !.used = u]
  BY <1>1
<1>4. QED
  BY <1>2, <1>3

LEMMA SessionsStep ==
  ThrottleOK' /\ FileOK' /\ TasksOK /\ SessionsInv /\ [Next]_vars => SessionsInv'
<1> SUFFICES ASSUME ThrottleOK', FileOK', TasksOK, SessionsInv, [Next]_vars PROVE SessionsInv'
  OBVIOUS
<1> DEFINE Kept(s) == s \in DOMAIN sessions /\ sessions'[s] = sessions[s]
<1>1. /\ users' \in Seq(Row)
      /\ \A n \in DOMAIN users : n \in DOMAIN users' /\ users'[n] = users[n]
      /\ \A m, n \in DOMAIN users' :
           m # n => /\ users'[m].who # users'[n].who /\ users'[m].name # users'[n].name
                    /\ users'[m].dir # users'[n].dir
  BY RowsStay, KeysStay DEF SessionsInv
<1>2. DOMAIN entries' \subseteq Key /\ file' \in Accounts \cup {Nothing}
  BY DEF ThrottleOK, FileOK
<1>3. ASSUME NEW s, Kept(s) PROVE SessionOK(s)'
  BY <1>1, <1>3, SessionsInvParts DEF SessionOK
<1>4. SUFFICES /\ issued' \in Nat
               /\ DOMAIN sessions' \subseteq 1..issued' /\ DOMAIN flows' \subseteq 1..issued'
               /\ DOMAIN sessions' \cap DOMAIN flows' = {}
               /\ \A f \in DOMAIN flows' : flows'[f] \in 0..FlowTtl
               /\ \A s \in DOMAIN sessions' : SessionOK(s)'
  BY <1>1, <1>2 DEF SessionsInv, TablesOK, TypeOK, SignedInAsProved, LivesByUse, SessionOK, Session,
                    Accounts
<1> USE HalfOfTtl
<1>5. CASE UNCHANGED <<sessions, flows, issued>>
  BY <1>3, <1>5, SessionsInvParts DEF TypeOK
<1>6. ASSUME NEW b \in Browser, OidcLogin(b)
      PROVE  /\ issued' \in Nat
             /\ DOMAIN sessions' \subseteq 1..issued' /\ DOMAIN flows' \subseteq 1..issued'
             /\ DOMAIN sessions' \cap DOMAIN flows' = {}
             /\ \A f \in DOMAIN flows' : flows'[f] \in 0..FlowTtl
             /\ \A s \in DOMAIN sessions' : SessionOK(s)'
  BY <1>3, <1>6, SessionsInvParts DEF OidcLogin, StoreFlow, TypeOK
<1>7. ASSUME NEW r \in Req, NEW b \in Browser, NEW c \in codes, Callback(r, b, c)
      PROVE  /\ issued' \in Nat
             /\ DOMAIN sessions' \subseteq 1..issued' /\ DOMAIN flows' \subseteq 1..issued'
             /\ DOMAIN sessions' \cap DOMAIN flows' = {}
             /\ \A f \in DOMAIN flows' : flows'[f] \in 0..FlowTtl
             /\ \A s \in DOMAIN sessions' : SessionOK(s)'
  BY <1>3, <1>7, SessionsInvParts DEF Callback, TakeFlow, Restrict, TypeOK
<1>8. CASE PurgeExpired
  BY <1>3, <1>8, SessionsInvParts DEF PurgeExpired, Restrict, TypeOK
<1>9. CASE Tick
  <2>1. issued' = issued /\ DOMAIN sessions' = DOMAIN sessions /\ DOMAIN flows' = DOMAIN flows
    BY <1>9 DEF Tick
  <2>2. \A f \in DOMAIN flows' : flows'[f] \in 0..FlowTtl
    <3>1. ASSUME NEW f \in DOMAIN flows PROVE flows'[f] \in 0..FlowTtl
      <4>1. flows[f] \in 0..FlowTtl /\ flows'[f] = Down(flows[f])
        BY <1>9, SessionsInvParts DEF Tick
      <4>2. QED
        BY <4>1, DownIsLess
    <3>2. QED
      BY <2>1, <3>1
  <2>3. ASSUME NEW s \in DOMAIN sessions PROVE SessionOK(s)'
    <3>1. SessionOK(s)
      BY SessionsInvParts
    <3>2. sessions'[s] = [sessions[s] EXCEPT !.left = Down(@),
                                             !.used = IF sessions[s].left = 0 THEN @ ELSE @ + 1]
      BY <1>9 DEF Tick
    <3>3. Down(sessions[s].left) = IF sessions[s].left = 0 THEN 0 ELSE sessions[s].left - 1
      BY <3>1, DownIsLess DEF SessionOK, Session
    <3>4. PICK row, who, left, used : sessions[s] = [row |-> row, left |-> left, who |-> who, used |-> used]
                                      /\ row \in Nat /\ who \in Who /\ left \in 0..Ttl /\ used \in Nat
      BY <3>1 DEF SessionOK, Session
    <3>5. /\ row \in DOMAIN users' /\ users'[row].who = who
          /\ left > 0 => left + used \in Half..Ttl
      BY <1>1, <3>1, <3>4 DEF SessionOK
    <3>5a. sessions[s] \in Session /\ sessions[s].row = row /\ sessions[s].who = who
      BY <3>1, <3>4 DEF SessionOK
    <3>6. CASE left = 0
      <4>1. sessions'[s] = [sessions[s] EXCEPT !.left = 0, !.used = used]
        BY <3>2, <3>3, <3>4, <3>6
      <4>2. sessions'[s] = [row |-> row, left |-> 0, who |-> who, used |-> used]
        BY <3>4, <3>5a, <4>1, TimesOfSession
      <4>3. QED
        BY <3>4, <3>5, <3>6, <4>2, MakesSession
    <3>7. CASE left # 0
      <4>0. sessions'[s] = [sessions[s] EXCEPT !.left = left - 1, !.used = used + 1]
        BY <3>2, <3>3, <3>4, <3>7
      <4>1. sessions'[s] = [row |-> row, left |-> left - 1, who |-> who, used |-> used + 1]
        BY <3>4, <3>5a, <4>0, TimesOfSession
      <4>2. left - 1 \in 0..Ttl /\ used + 1 \in Nat /\ (left - 1) + (used + 1) \in Half..Ttl
        BY <3>4, <3>5, <3>7
      <4>3. QED
        BY <3>4, <3>5, <4>1, <4>2, MakesSession
    <3>8. QED
      BY <3>6, <3>7
  <2>4. QED
    BY <2>1, <2>2, <2>3, SessionsInvParts DEF TypeOK
<1>10. ASSUME NEW b \in Browser, UsesSession(b)
       PROVE  /\ issued' \in Nat
              /\ DOMAIN sessions' \subseteq 1..issued' /\ DOMAIN flows' \subseteq 1..issued'
              /\ DOMAIN sessions' \cap DOMAIN flows' = {}
              /\ \A f \in DOMAIN flows' : flows'[f] \in 0..FlowTtl
              /\ \A s \in DOMAIN sessions' : SessionOK(s)'
  <2>1. PICK u \in DOMAIN sessions : Presents(b, u) /\ Resolve(u)
    BY <1>10 DEF UsesSession
  <2>2. /\ issued' = issued /\ flows' = flows /\ DOMAIN sessions' = DOMAIN sessions
        /\ \A s \in DOMAIN sessions \ {u} : Kept(s)
    BY <1>10, <2>1 DEF UsesSession, Resolve
  <2>3. SessionOK(u)'
    <3>1. SessionOK(u) /\ sessions[u].left > 0
      BY <2>1, SessionsInvParts DEF Resolve
    <3>2. sessions'[u] = [row |-> sessions[u].row,
                          left |-> IF sessions[u].left < Half THEN Ttl ELSE sessions[u].left,
                          who |-> sessions[u].who, used |-> 0]
      <4>1. sessions[u] \in Session
        BY <3>1 DEF SessionOK
      <4>2. PICK x : x = sessions[u]
        OBVIOUS
      <4>3. PICK y : y = [x EXCEPT !.used = 0]
        OBVIOUS
      <4>4. y = [row |-> x.row, left |-> x.left, who |-> x.who, used |-> 0]
        BY <4>1, <4>2, <4>3 DEF Session
      <4>5. sessions'[u] = [y EXCEPT !.left = IF x.left < Half THEN Ttl ELSE x.left]
        BY <2>1, <4>2, <4>3 DEF Resolve
      <4>6. QED
        BY <4>2, <4>4, <4>5
    <3>3. PICK row, who, left, used : sessions[u] = [row |-> row, left |-> left, who |-> who, used |-> used]
                                      /\ row \in Nat /\ who \in Who /\ left \in 0..Ttl /\ used \in Nat
      BY <3>1 DEF SessionOK, Session
    <3>4. row \in DOMAIN users' /\ users'[row].who = who
      BY <1>1, <3>1, <3>3 DEF SessionOK
    <3>5. PICK now : now = IF left < Half THEN Ttl ELSE left
      OBVIOUS
    <3>6. sessions'[u] = [row |-> row, left |-> now, who |-> who, used |-> 0]
      BY <3>2, <3>3, <3>5
    <3>7. now \in 0..Ttl /\ now + 0 \in Half..Ttl
      BY <3>3, <3>5
    <3>8. QED
      BY <3>3, <3>4, <3>6, <3>7, MakesSession
  <2>4. QED
    BY <1>3, <2>2, <2>3, SessionsInvParts DEF TypeOK
<1>11. ASSUME NEW b \in Browser, Logout(b)
       PROVE  /\ issued' \in Nat
              /\ DOMAIN sessions' \subseteq 1..issued' /\ DOMAIN flows' \subseteq 1..issued'
              /\ DOMAIN sessions' \cap DOMAIN flows' = {}
              /\ \A f \in DOMAIN flows' : flows'[f] \in 0..FlowTtl
              /\ \A s \in DOMAIN sessions' : SessionOK(s)'
  BY <1>3, <1>11, SessionsInvParts DEF Logout, Destroy, Restrict, TypeOK
<1>12. ASSUME NEW r \in Req, Establishes(r)
       PROVE  /\ issued' \in Nat
              /\ DOMAIN sessions' \subseteq 1..issued' /\ DOMAIN flows' \subseteq 1..issued'
              /\ DOMAIN sessions' \cap DOMAIN flows' = {}
              /\ \A f \in DOMAIN flows' : flows'[f] \in 0..FlowTtl
              /\ \A s \in DOMAIN sessions' : SessionOK(s)'
  <2>0. PICK token, row, who : token = issued + 1 /\ row = task[r].row /\ who = task[r].who
    OBVIOUS
  <2>1. /\ issued' = token /\ flows' = flows
        /\ DOMAIN sessions' = DOMAIN sessions \cup {token}
        /\ \A s \in DOMAIN sessions : Kept(s)
        /\ sessions'[token] = [row |-> row, left |-> Ttl, who |-> who, used |-> 0]
    <3>1. token \notin DOMAIN sessions
      BY <2>0, SessionsInvParts
    <3>2. QED
      BY <1>12, <2>0, <3>1 DEF Establishes, Create
  <2>2. SessionOK(token)'
    <3>1. row \in DOMAIN users /\ users[row].who = who /\ who \in Who /\ row \in Nat
      BY <1>12, <2>0 DEF Establishes, Place, TasksOK, Proved, Task
    <3>2. row \in DOMAIN users' /\ users'[row].who = who
      BY <1>1, <3>1
    <3>3. QED
      BY <2>1, <3>1, <3>2, MakesSession
  <2>3. /\ issued \in Nat /\ DOMAIN sessions \subseteq 1..issued /\ DOMAIN flows \subseteq 1..issued
        /\ DOMAIN sessions \cap DOMAIN flows = {}
        /\ \A f \in DOMAIN flows : flows[f] \in 0..FlowTtl
    BY SessionsInvParts DEF TypeOK
  <2>4. issued' \in Nat /\ 1..issued \subseteq 1..issued' /\ token \in 1..issued' /\ token \notin 1..issued
    BY <2>0, <2>1, <2>3
  <2>5. \A s \in DOMAIN sessions' : SessionOK(s)'
    BY <1>3, <2>1, <2>2
  <2>6. QED
    BY <2>1, <2>3, <2>4, <2>5
<1>13. ASSUME NEW r \in Req, Inserts(r) PROVE UNCHANGED <<sessions, flows, issued>>
  BY <1>13 DEF Inserts
<1>14. QED
  BY <1>5, <1>6, <1>7, <1>8, <1>9, <1>10, <1>11, <1>12, <1>13, ChangesTables

-----------------------------------------------------------------------------
(***************************************************************************)
(* The theorems.                                                           *)
(***************************************************************************)
\* What is live was live already, or has just been issued (session.rs:49-100).
LEMMA OverStep ==
  ASSUME TablesOK, [Next]_vars, NEW s \in DOMAIN sessions', sessions'[s].left > 0
  PROVE  s > issued \/ (s \in DOMAIN sessions /\ sessions[s].left > 0)
<1>1. CASE sessions' = sessions
  BY <1>1
<1>2. CASE PurgeExpired
  BY <1>2 DEF PurgeExpired, Restrict
<1>3. CASE Tick
  <2>1. s \in DOMAIN sessions /\ sessions'[s].left = Down(sessions[s].left)
    BY <1>3 DEF Tick, TablesOK, Session
  <2>2. sessions[s].left \in Nat
    BY <2>1, SignInAssumption DEF TablesOK, Session
  <2>3. QED
    BY <2>1, <2>2, DownIsLess
<1>4. ASSUME NEW b \in Browser, UsesSession(b)
      PROVE  s \in DOMAIN sessions /\ sessions[s].left > 0
  BY <1>4 DEF UsesSession, Resolve
<1>5. ASSUME NEW b \in Browser, Logout(b)
      PROVE  s \in DOMAIN sessions /\ sessions[s].left > 0
  BY <1>5 DEF Logout, Destroy, Restrict
<1>6. ASSUME NEW r \in Req, Establishes(r)
      PROVE  s > issued \/ (s \in DOMAIN sessions /\ sessions[s].left > 0)
  BY <1>6 DEF Establishes, Create, TablesOK
<1>7. QED
  BY <1>1, <1>2, <1>3, <1>4, <1>5, <1>6, ChangesTables DEF OidcLogin, Callback, Inserts

LEMMA InitIInv == Init => IInv
<1> SUFFICES ASSUME Init PROVE IInv
  OBVIOUS
<1> USE SignInAssumption
<1>1. ThrottleOK
  BY DEF Init, ThrottleOK
<1>2. FileOK
  BY DEF Init, FileOK, Accounts, CopyFollowsFile, LoadedAsIs, Off
<1>3. TasksOK
  BY OffIsTask DEF Init, TasksOK
<1>3a. FlowsOK
  BY DEF Init, FlowsOK, Jar, NoCookies
<1>4. TablesOK /\ TypeOK /\ SignedInAsProved /\ LivesByUse
  BY <1>1, <1>2 DEF Init, TablesOK, TypeOK, SignedInAsProved, LivesByUse
<1>5. QED
  BY <1>1, <1>2, <1>3, <1>3a, <1>4 DEF IInv

LEMMA StepIInv == IInv /\ [Next]_vars => IInv'
<1> SUFFICES ASSUME IInv, [Next]_vars PROVE IInv'
  OBVIOUS
<1>1. ThrottleOK'
  BY ThrottleStep DEF IInv
<1>2. FileOK'
  BY FileStep DEF IInv
<1>3. TasksOK'
  BY TasksStep DEF IInv
<1>4. FlowsOK'
  BY FlowsStep DEF IInv
<1>5. SessionsInv'
  BY <1>1, <1>2, SessionsStep DEF IInv, SessionsInv
<1>6. QED
  BY <1>1, <1>2, <1>3, <1>4, <1>5 DEF IInv, SessionsInv

\* Through every interleaving of requests, edits of the users file and restarts, what a
\* request has proved or loaded stays true until it uses it (routes/auth.rs, local.rs).
THEOREM Invariance == Spec => []IInv
<1>1. QED
  BY InitIInv, StepIInv, PTL DEF Spec

\* The tables keep their keys through every race of two first sign-ins and every name
\* the provider changes (migrations/0001_identity.sql, db.rs:148-190).
THEOREM TypeCorrect == Spec => []TypeOK
<1>1. IInv => TypeOK
  BY DEF IInv
<1>2. QED
  BY <1>1, Invariance, PTL

\* Nobody is signed in as another (db.rs:169-175).
THEOREM SignedInOnlyAsProved == Spec => []SignedInAsProved
<1>1. IInv => SignedInAsProved
  BY DEF IInv
<1>2. QED
  BY <1>1, Invariance, PTL

\* A session that is used lives on, and one that is not used ends (session.rs:75-80).
THEOREM SessionsLiveByUse == Spec => []LivesByUse
<1>1. IInv => LivesByUse
  BY DEF IInv
<1>2. QED
  BY <1>1, Invariance, PTL

\* Who signs in at the provider is signed in where the flow began (routes/auth.rs:184-210).
THEOREM SignsInWhereBegun == Spec => []SignedInWhereBegun
<1>1. IInv => SignedInWhereBegun
  BY DEF IInv, TasksOK, Proved, SignedInWhereBegun
<1>2. QED
  BY <1>1, Invariance, PTL

\* No session that is over is live again, through lost answers, kept cookies and purges
\* (session.rs:75-100).
THEOREM NothingRevived == Spec => OverStaysOver
<1> DEFINE Stays(s) == sessions'[s].left > 0 =>
                         s > issued \/ (s \in DOMAIN sessions /\ sessions[s].left > 0)
<1>1. IInv /\ [Next]_vars => \A s \in DOMAIN sessions' : Stays(s)
  BY OverStep DEF IInv
<1>2. IInv /\ [Next]_vars => [\A s \in DOMAIN sessions' : Stays(s)]_vars
  BY <1>1
<1>3. QED
  BY <1>2, Invariance, PTL DEF Spec, OverStaysOver

\* A password that was changed or taken away is not accepted once the server has looked:
\* the copy under the file's time is the file (local.rs:189-200).
THEOREM CopyIsOfFile == Spec => []CopyFollowsFile
<1>1. IInv => CopyFollowsFile
  BY DEF IInv, FileOK
<1>2. QED
  BY <1>1, Invariance, PTL

\* Filling the throttle's table with other keys frees none that is held back
\* (throttle.rs:103-114).
THEOREM StaysHeldBack == Spec => HeldBack
<1> DEFINE Holds(k) ==
      entries[k].locked > 0 =>
        \/ k \in DOMAIN entries' /\ entries'[k].locked >= entries[k].locked
        \/ Tick \/ Stop
        \/ \E r \in Req : /\ Place(r, "right") /\ Records(r)
                          /\ <<task[r].browser, task[r].name>> = k
<1>1. IInv /\ [Next]_vars => \A k \in DOMAIN entries : Holds(k)
  BY HeldBackStep DEF IInv
<1>2. IInv /\ [Next]_vars => [\A k \in DOMAIN entries : Holds(k)]_vars
  BY <1>1
<1>3. QED
  BY <1>2, Invariance, PTL DEF Spec, HeldBack
=============================================================================
