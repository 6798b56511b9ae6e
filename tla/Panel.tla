------------------------------- MODULE Panel --------------------------------
(***************************************************************************)
(* The web panel (website/app.py) and the accounts behind it (adminx.py):  *)
(* the count of failed logins with its lock-out, signed session cookies,   *)
(* and adminx.json, which the panel's threads and the bot read, change and *)
(* write back.  The request counter, the headers and the addresses that    *)
(* before_request looks at may turn any request away: nothing changes.     *)
(*                                                                         *)
(* The entry of an address in LOGIN_ATTEMPTS is a dictionary that threads  *)
(* share and change in place, and a thread that finds none makes one of    *)
(* its own, so entries have an identity: heap maps each to its count, kept *)
(* up to MaxAttempts, and the ticks left until blocked_until.  Requests    *)
(* take milliseconds; time passes between them.                            *)
(***************************************************************************)
EXTENDS Integers, FiniteSets, FiniteSetsExt

CONSTANTS
    Ips,            \* client addresses, each with one browser
    Users,          \* adminX accounts
    Threads,        \* of the web server: one under gunicorn, more under app.run
    MaxAttempts,    \* MAX_LOGIN_ATTEMPTS
    Block,          \* LOGIN_BLOCK_MINUTES
    Timeout,        \* SESSION_TIMEOUT
    MaxEntries,     \* _MAX_LOGIN_ENTRIES
    Settings,       \* what a behaviour may start from, see Setting
    None

Actors == Threads \cup {"bot"}
\* "keys" are the key routes of the panel, "create" the one that makes a key for an
\* account (POST /api/adminx/my-keys)
Kinds == {"page", "login", "logout", "keys", "create", "toggle", "delete"}
States == {"none", "inactive", "active"}

\* Which requests and commands come, from where, how many threads there are, the
\* cookies handed out and the accounts made before, and how often the process may end.
Setting == [kinds : SUBSET Kinds, commands : BOOLEAN, ips : SUBSET Ips, threads : SUBSET Threads,
            cookie : {None, "admin"} \cup Users, accounts : States, restarts : Nat]

ASSUME PanelAssumption ==
    /\ Settings \subseteq Setting
    /\ {MaxAttempts, Block, Timeout, MaxEntries} \subseteq Nat \ {0}
    /\ IsFiniteSet(Ips) /\ IsFiniteSet(Threads)
    /\ "bot" \notin Threads
    /\ "admin" \notin Users
    /\ None \notin Users \cup Ips \cup Nat \cup [Users -> States]

VARIABLES
    heap,       \* the dictionaries of failed logins: [count, left]
    attempts,   \* LOGIN_ATTEMPTS
    accounts,   \* adminx.json
    cookie,     \* the session each browser holds: whose, and ticks since last_activity
    pc, local,  \* where each thread is, and its variables
    tries,      \* history: failed logins since a success, an eviction, a restart or a block
    fails,      \* history: failed logins since a success, up to MaxAttempts
    told,       \* history: the state of an account last answered, and the ticks since
    upset,      \* history: what overlapped that the code does not keep apart
    setting     \* what comes, and the restarts still to come

vars == <<heap, attempts, accounts, cookie, pc, local, tries, fails, told, upset, setting>>
history == <<tries, fails, told, upset>>

Dicts == 0 .. Cardinality(Ips) + Cardinality(Threads)
Entry == [count : 0 .. MaxAttempts, left : 0 .. Block]
Blank == [count |-> 0, left |-> 0]
Session == [user : {None, "admin"} \cup Users, idle : 0 .. Timeout + 1]
NoSession == [user |-> None, idle |-> 0]

Local == [ip : Ips \cup {None}, kind : Kinds \cup {None}, session : Session,
          entry : Dicts \cup {None}, user : Users \cup {None},
          goal : States, copy : [Users -> States] \cup {None}]
NoLocals == [ip |-> None, kind |-> None, session |-> NoSession, entry |-> None, user |-> None,
             goal |-> "none", copy |-> None]
Phases == {"idle", "serve", "check", "make", "load", "save"}

Goto(t, phase) == pc' = [pc EXCEPT ![t] = phase]

\* The request ends: the browser gets this session in its cookie.
Reply(t, session) ==
    /\ cookie' = [cookie EXCEPT ![local[t].ip] = session]
    /\ Goto(t, "idle")
    /\ local' = [local EXCEPT ![t] = NoLocals]

NewDict == Min(Dicts \ ({attempts[ip] : ip \in Ips} \cup {local[t].entry : t \in Threads}))
AtMost(n, limit) == IF n < limit THEN n ELSE limit

\* When a thread is done with its entry and this one is in the store for its address,
\* those that no one refers to are gone.
Collect(t, stored, entries) ==
    heap' = [d \in Dicts |-> IF \/ d = stored
                                \/ \E u \in Threads \ {t} : local[u].entry = d
                                \/ \E ip \in Ips \ {local[t].ip} : attempts[ip] = d
                             THEN entries[d] ELSE Blank]

-----------------------------------------------------------------------------
(* before_request *)

Renewed(session) == IF session.user = None THEN session ELSE [session EXCEPT !.idle = 0]

\* The session was idle too long or made in another browser and is cleared; or the
\* request goes on to its route.
Arrive(t) ==
    /\ pc[t] = "idle"
    /\ t \in setting.threads
    /\ \E ip \in setting.ips, kind \in setting.kinds, user \in Users :
         LET session == cookie[ip] IN
         \/ /\ session.user # None
            /\ cookie' = [cookie EXCEPT ![ip] = NoSession]
            /\ UNCHANGED <<pc, local>>
         \/ /\ session.user # None => session.idle <= Timeout
            /\ local' = [local EXCEPT ![t] = [NoLocals EXCEPT !.ip = ip, !.kind = kind,
                                                  !.user = user, !.session = Renewed(session)]]
            /\ Goto(t, "serve")
            /\ UNCHANGED cookie
    /\ UNCHANGED <<heap, attempts, accounts, setting, history>>

-----------------------------------------------------------------------------
(* api_login, api_logout, and the other routes *)

Checking(ip) == {t \in Threads : pc[t] = "check" /\ local[t].ip = ip}

\* LOGIN_ATTEMPTS.get; a blocked address is turned away.
LoginStart(t) ==
    LET ip == local[t].ip
        d == IF attempts[ip] = None THEN NewDict ELSE attempts[ip]
        entry == IF attempts[ip] = None THEN Blank ELSE heap[d]
    IN
    /\ pc[t] = "serve"
    /\ local[t].kind = "login"
    /\ IF entry.left > 0
       THEN Reply(t, local[t].session) /\ UNCHANGED heap
       ELSE /\ heap' = [heap EXCEPT ![d] = entry]
            /\ local' = [local EXCEPT ![t].entry = d]
            /\ Goto(t, "check")
            /\ UNCHANGED cookie
    /\ UNCHANGED <<attempts, accounts, setting, history>>

BugKeepAttempts(t, user) ==
    LET ip == local[t].ip IN
    /\ pc[t] = "check"
    /\ user # "admin" => accounts[user] = "active"
    /\ Reply(t, [user |-> user, idle |-> 0])
    /\ tries' = [tries EXCEPT ![ip] = 0]
    /\ fails' = [fails EXCEPT ![ip] = 0]
    /\ upset' = IF Checking(ip) = {t} THEN upset ELSE upset \cup {"login"}
    /\ UNCHANGED <<heap, attempts, accounts, told, setting>>

\* The administrator's password, or the key of an account, as adminx.json has it now.
LoginSucceeds(t, user) ==
    LET ip == local[t].ip IN
    /\ pc[t] = "check"
    /\ user # "admin" => accounts[user] = "active"
    /\ Reply(t, [user |-> user, idle |-> 0])
    /\ attempts' = [attempts EXCEPT ![ip] = None]
    /\ Collect(t, None, heap)
    /\ tries' = [tries EXCEPT ![ip] = 0]
    /\ fails' = [fails EXCEPT ![ip] = 0]
    /\ upset' = IF Checking(ip) = {t} THEN upset ELSE upset \cup {"login"}
    /\ UNCHANGED <<accounts, told, setting>>

\* The key of an account that is not active: refused, not counted.
LoginInactive(t) ==
    /\ pc[t] = "check"
    /\ \E user \in Users : accounts[user] = "inactive"
    /\ Reply(t, local[t].session)
    /\ Collect(t, attempts[local[t].ip], heap)
    /\ UNCHANGED <<attempts, accounts, setting, history>>

BugNeverBlocks(t) ==
    LET ip == local[t].ip  d == local[t].entry IN
    /\ pc[t] = "check"
    /\ Collect(t, d, [heap EXCEPT ![d].count = AtMost(@ + 1, MaxAttempts)])
    /\ attempts' = [attempts EXCEPT ![ip] = d]
    /\ tries' = [tries EXCEPT ![ip] = @ + 1]
    /\ fails' = [fails EXCEPT ![ip] = AtMost(@ + 1, MaxAttempts)]
    /\ Reply(t, local[t].session)
    /\ UNCHANGED <<accounts, told, upset, setting>>

\* The count is not reset when a block ends.
LoginFails(t) ==
    LET ip == local[t].ip
        d == local[t].entry
        blocks == heap[d].count + 1 >= MaxAttempts
    IN
    /\ pc[t] = "check"
    /\ Collect(t, d, [heap EXCEPT ![d].count = AtMost(@ + 1, MaxAttempts),
                                  ![d].left = IF blocks THEN Block ELSE @])
    /\ attempts' = [attempts EXCEPT ![ip] = d]
    /\ tries' = [tries EXCEPT ![ip] = IF blocks THEN 0 ELSE @ + 1]
    /\ fails' = [fails EXCEPT ![ip] = AtMost(@ + 1, MaxAttempts)]
    /\ Reply(t, local[t].session)
    /\ UNCHANGED <<accounts, told, upset, setting>>

Logout(t) ==
    /\ pc[t] = "serve"
    /\ local[t].kind = "logout"
    /\ Reply(t, NoSession)
    /\ UNCHANGED <<heap, attempts, accounts, setting, history>>

\* A route that changes none of this, or one the session is not good for
Page(t) ==
    /\ pc[t] = "serve"
    /\ \/ local[t].kind = "page"
       \/ local[t].kind = "keys" /\ local[t].session.user = None
       \/ local[t].kind = "create" /\ local[t].session.user \notin Users
       \/ local[t].kind \in {"toggle", "delete"} /\ local[t].session.user # "admin"
    /\ Reply(t, local[t].session)
    /\ UNCHANGED <<heap, attempts, accounts, setting, history>>

\* api_create_key, api_extend_key, api_refresh_key, api_revoke_key_ip, api_delete_key,
\* api_fps_generate, and adminx_delete_key for an account's session: any session is good
\* for them, and nobody looks at the account. KeyLedger has what they do to the keys.
UseKeys(t) ==
    /\ pc[t] = "serve"
    /\ local[t].kind = "keys"
    /\ local[t].session.user # None
    /\ Reply(t, local[t].session)
    /\ UNCHANGED <<heap, attempts, accounts, setting, history>>

\* adminx_create_key: is the session's account there and active?
CheckAccount(t) ==
    /\ pc[t] = "serve"
    /\ local[t].kind = "create"
    /\ local[t].session.user \in Users
    /\ IF accounts[local[t].session.user] = "active"
       THEN Goto(t, "make") /\ UNCHANGED <<local, cookie>>
       ELSE Reply(t, local[t].session)
    /\ UNCHANGED <<heap, attempts, accounts, setting, history>>

\* generate_key, for the account
MakeAccountKey(t) ==
    /\ pc[t] = "make"
    /\ Reply(t, local[t].session)
    /\ UNCHANGED <<heap, attempts, accounts, setting, history>>

-----------------------------------------------------------------------------
(* adminx.py: create_user, remove_user, set_active *)

\* api_adminx_toggle_user looks first what the state is, then has the other one set.
Toggle(t) ==
    LET state == accounts[local[t].user] IN
    /\ pc[t] = "serve"
    /\ local[t].kind = "toggle"
    /\ local[t].session.user = "admin"
    /\ IF state = "none"
       THEN Reply(t, local[t].session)
       ELSE /\ local' = [local EXCEPT ![t].goal = IF state = "active" THEN "inactive" ELSE "active"]
            /\ Goto(t, "load")
            /\ UNCHANGED cookie
    /\ UNCHANGED <<heap, attempts, accounts, setting, history>>

Delete(t) ==
    /\ pc[t] = "serve"
    /\ local[t].kind = "delete"
    /\ local[t].session.user = "admin"
    /\ local' = [local EXCEPT ![t].goal = "none"]
    /\ Goto(t, "load")
    /\ UNCHANGED <<heap, attempts, accounts, cookie, setting, history>>

\* /adminx create, remove, activate, deactivate
Command ==
    /\ pc["bot"] = "idle"
    /\ setting.commands
    /\ \E user \in Users, goal \in States, kind \in {"create", "toggle", "delete"} :
         /\ kind = "create" => goal = "active"
         /\ kind = "delete" <=> goal = "none"
         /\ local' = [local EXCEPT !["bot"].user = user, !["bot"].goal = goal, !["bot"].kind = kind]
    /\ Goto("bot", "load")
    /\ UNCHANGED <<heap, attempts, accounts, cookie, setting, history>>

Answer(a) ==
    /\ Goto(a, "idle")
    /\ local' = [local EXCEPT ![a] = NoLocals]
    /\ cookie' = IF a = "bot" THEN cookie ELSE [cookie EXCEPT ![local[a].ip] = local[a].session]

\* _load. An account is made only if there is none, changed only if there is one.
Load(a) ==
    LET mine == local[a]
        fits == IF a = "bot" /\ mine.kind = "create" THEN accounts[mine.user] = "none"
                ELSE accounts[mine.user] # "none"
    IN
    /\ pc[a] = "load"
    /\ IF fits
       THEN /\ local' = [local EXCEPT ![a].copy = [accounts EXCEPT ![mine.user] = mine.goal]]
            /\ upset' = IF \E b \in Actors : pc[b] = "save" THEN upset \cup {"accounts"} ELSE upset
            /\ Goto(a, "save")
            /\ UNCHANGED cookie
       ELSE Answer(a) /\ UNCHANGED upset
    /\ UNCHANGED <<heap, attempts, accounts, tries, fails, told, setting>>

BugSaveOnlyOnce(a) ==
    /\ pc[a] = "save"
    /\ accounts' = IF a = "bot" THEN local[a].copy ELSE accounts
    /\ told' = [told EXCEPT ![local[a].user] = [state |-> local[a].goal, age |-> 0]]
    /\ Answer(a)
    /\ UNCHANGED <<heap, attempts, tries, fails, upset, setting>>

Save(a) ==
    /\ pc[a] = "save"
    /\ accounts' = local[a].copy
    /\ told' = [told EXCEPT ![local[a].user] = [state |-> local[a].goal, age |-> 0]]
    /\ Answer(a)
    /\ UNCHANGED <<heap, attempts, tries, fails, upset, setting>>

-----------------------------------------------------------------------------
(* _rate_cleanup_loop, at any time *)

\* With too many addresses half of them are let go, blocked ones too.
EvictLogins ==
    LET held == {ip \in Ips : attempts[ip] # None} IN
    /\ Cardinality(held) > MaxEntries
    /\ \E gone \in kSubset(Cardinality(held) \div 2, held) :
         /\ attempts' = [ip \in Ips |-> IF ip \in gone THEN None ELSE attempts[ip]]
         /\ tries' = [ip \in Ips |-> IF ip \in gone THEN 0 ELSE tries[ip]]
         /\ heap' = [d \in Dicts |-> IF \/ \E u \in Threads : local[u].entry = d
                                        \/ \E ip \in Ips \ gone : attempts[ip] = d
                                     THEN heap[d] ELSE Blank]
    /\ UNCHANGED <<accounts, cookie, pc, local, fails, told, upset, setting>>

-----------------------------------------------------------------------------
Tick ==
    /\ \A a \in Actors : pc[a] = "idle"
    /\ heap' = [d \in Dicts |-> [heap[d] EXCEPT !.left = IF @ > 0 THEN @ - 1 ELSE 0]]
    /\ cookie' = [ip \in Ips |-> IF cookie[ip].user = None THEN NoSession
                                 ELSE [cookie[ip] EXCEPT !.idle = AtMost(@ + 1, Timeout + 1)]]
    /\ told' = [user \in Users |-> [told[user] EXCEPT !.age = 1]]
    /\ UNCHANGED <<attempts, accounts, pc, local, tries, fails, upset, setting>>

\* The process ends and starts again: counters and requests are gone, cookies and
\* adminx.json are not.
Restart ==
    /\ setting.restarts > 0
    /\ setting' = [setting EXCEPT !.restarts = @ - 1]
    /\ heap' = [d \in Dicts |-> Blank]
    /\ attempts' = [ip \in Ips |-> None]
    /\ pc' = [a \in Actors |-> "idle"]
    /\ local' = [a \in Actors |-> NoLocals]
    /\ tries' = [ip \in Ips |-> 0]
    /\ UNCHANGED <<accounts, cookie, fails, told, upset>>

Init ==
    /\ setting \in Settings
    /\ heap = [d \in Dicts |-> Blank]
    /\ attempts = [ip \in Ips |-> None]
    /\ accounts = [user \in Users |-> setting.accounts]
    /\ cookie = [ip \in Ips |-> [NoSession EXCEPT !.user = setting.cookie]]
    /\ pc = [a \in Actors |-> "idle"]
    /\ local = [a \in Actors |-> NoLocals]
    /\ tries = [ip \in Ips |-> 0]
    /\ fails = [ip \in Ips |-> 0]
    /\ told = [user \in Users |-> [state |-> accounts[user], age |-> 1]]
    /\ upset = {}

Serve(t) ==
    \/ LoginStart(t) \/ (\E user \in Users \cup {"admin"} : LoginSucceeds(t, user))
    \/ LoginInactive(t) \/ LoginFails(t) \/ Logout(t) \/ Page(t)
    \/ UseKeys(t) \/ CheckAccount(t) \/ MakeAccountKey(t) \/ Toggle(t) \/ Delete(t)

Next ==
    \/ \E t \in Threads : Arrive(t) \/ Serve(t)
    \/ Command
    \/ \E a \in Actors : Load(a) \/ Save(a)
    \/ EvictLogins
    \/ Tick
    \/ Restart

Spec == Init /\ [][Next]_vars

-----------------------------------------------------------------------------
TypeOK ==
    /\ setting \in Setting
    /\ heap \in [Dicts -> Entry]
    /\ attempts \in [Ips -> Dicts \cup {None}]
    /\ accounts \in [Users -> States]
    /\ cookie \in [Ips -> Session]
    /\ pc \in [Actors -> Phases]
    /\ local \in [Actors -> Local]
    /\ tries \in [Ips -> Nat]
    /\ fails \in [Ips -> 0 .. MaxAttempts]
    /\ told \in [Users -> [state : States, age : 0 .. 1]]
    /\ upset \subseteq {"login", "accounts"}

\* An address is locked out only after MaxAttempts failed logins since its last
\* success, unless that one overlapped another login from the address (app.py:358-406).
LockoutIsEarned ==
    "login" \notin upset => \A ip \in Ips :
        attempts[ip] # None /\ heap[attempts[ip]].left > 0 => fails[ip] >= MaxAttempts

\* Before an address is locked out each thread can let through one guess less than
\* MaxAttempts, and one more locks it out: with one thread, MaxAttempts guesses. This is
\* for one life of an entry: when the address is let go for too many others, or the
\* process starts again, nothing is left of its guesses and the count begins anew.
GuessesAreBounded == \A ip \in Ips : tries[ip] <= (MaxAttempts - 1) * Cardinality(setting.threads)

\* With the key of an account that has been deactivated or removed nobody logs in, and
\* POST /api/adminx/my-keys makes no key for it, with a session from before either; so
\* long as no two changes of adminx.json overlapped (adminx.py:72-82, app.py:384-400,
\* 849-877). The other key routes do serve such a session: see UseKeys.
AccountsAreChecked ==
    [][\A t \in Threads, user \in Users :
          /\ "accounts" \notin upset
          /\ told[user].age > 0
          /\ LoginSucceeds(t, user) \/ (MakeAccountKey(t) /\ local[t].session.user = user)
          => told[user].state = "active"]_vars
=============================================================================
