----------------------------- MODULE AccessGate ----------------------------
(***************************************************************************)
(* tilinx_proxy.py: who is let through.  The proxy reads ips.json, which   *)
(* the bot, the panel and the scheduler rewrite, through a cache that is   *)
(* good for _DB_TTL seconds; it reads uids.json every time, and a login    *)
(* response binds a uid to the address it came from.  A request asks for   *)
(* the table up to three times: to let the client in, to choose the words  *)
(* of a refusal, and again for a protected host; time passes and the file  *)
(* changes in between.                                                     *)
(*                                                                         *)
(* mitmproxy runs the addon's hooks one at a time, so one flow is at hand; *)
(* a login the server has yet to answer waits in the meantime.             *)
(* What the screens before the access check decide (smart rate limit, WAF, *)
(* brain, URL filter, country) is a choice.                                *)
(***************************************************************************)
EXTENDS Integers, FiniteSets

CONSTANTS
    Ips, Admins,    \* client addresses, those in ADMIN_WHITELIST
    Uids,           \* account ids, ordered as in uids.json
    Urls,           \* the kinds of URL asked for, see UrlKinds
    Ttl,            \* _DB_TTL
    Expiries,       \* expires_at values an entry is written with, 0 = permanent
    LastTick,       \* bound on the clock
    None            \* no entry

\* What a URL asks for: ANTICHEAT_PATTERNS, INTERCEPT_PATTERNS, PROTECTED_HOSTS,
\* LOGIN_KEYWORD.
UrlKinds == {"plain", "anticheat", "intercept", "protected", "login"}

ASSUME AccessAssumption ==
    /\ Urls \subseteq UrlKinds
    /\ Admins \subseteq Ips
    /\ Uids \subseteq Nat
    /\ Ttl \in Nat \ {0}
    /\ Expiries \subseteq Nat
    /\ LastTick \in Nat
    /\ None \notin Ips

VARIABLES
    file,       \* ips.json
    readable,   \* can it be opened and parsed?
    cache,      \* _DB_CACHE: [data, ts]
    uids,       \* uids.json
    now,        \* time.time()
    loaded,     \* did load_files find the files to inject?
    brain,      \* did Brain V2 load? Only it throttles.
    pc,         \* where the hook is
    flow,       \* the request or login at hand
    awaiting,   \* addresses whose login request the server has yet to answer
    okAt,       \* history: when the file last admitted each address
    steadyFrom  \* history: since when it has done so with the same entry, readable

vars == <<file, readable, cache, uids, now, loaded, brain, pc, flow, awaiting, okAt, steadyFrom>>
history == <<okAt, steadyFrom>>

Entry == [status : {"active", "blocked", "expired"}, expires_at : Nat]
Table == [Ips -> Entry \cup {None}]
UidEntry == [status : {"active", "blocked"}, expires_at : Nat, ip : Ips \cup {None}]
UidTable == [Uids -> UidEntry \cup {None}]
Statuses == {"ACTIVE", "BANNED", "EXPIRED", "NOT_FOUND", "ADMIN"}
Phases == {"idle", "auth", "uid", "message", "route", "recheck", "recheck_uid",
           "bind", "save_uids"}

\* What became of the last request: answered by the proxy with a message, a stub
\* or a file, passed on to the server, or a login's verdict.
Answers == {"none", "screened", "stub", "inject", "forward"} \cup Statuses

Flow == [ip : Ips \cup {None}, url : UrlKinds, uid : Uids \cup {None},
         answer : Answers, seen : UidTable]
NoUids == [u \in Uids |-> None]
NoFlow == [ip |-> None, url |-> "plain", uid |-> None, answer |-> "none",
           seen |-> NoUids]

-----------------------------------------------------------------------------
(* Statuses *)

Live(e) == e.expires_at = 0 \/ e.expires_at > now

\* is_active_ip and get_ip_status, of the table load_db returned
Admits(e) == e # None /\ e.status = "active" /\ Live(e)
StatusOf(e) == CASE e = None             -> "NOT_FOUND"
                 [] e.status = "blocked"  -> "BANNED"
                 [] e.status = "active"   -> IF Live(e) THEN "ACTIVE" ELSE "EXPIRED"
                 [] OTHER                 -> "NOT_FOUND"

\* In the comprehension {ip: uid} of uids.json the last entry of an address wins.
Bound(u, ip) == uids[u] # None /\ uids[u].ip = ip
UidAdmits(ip) ==
    \E u \in Uids : /\ Bound(u, ip)
                   /\ \A v \in Uids : Bound(v, ip) => v <= u
                   /\ Admits(uids[u])

-----------------------------------------------------------------------------
(* load_db: the cached table while it is fresh, else the file; a file that *)
(* can't be read is an empty table and leaves the cache as it was.         *)

NoEntries == [ip \in Ips |-> None]
BugFresh == now - cache.ts <= Ttl
Fresh == now - cache.ts < Ttl

LoadDb == IF Fresh THEN cache.data ELSE IF readable THEN file ELSE NoEntries
BugNeverStamped == cache' = IF Fresh \/ ~readable THEN cache
                            ELSE [data |-> file, ts |-> now + Ttl]
CacheAfterLoad == cache' = IF Fresh \/ ~readable THEN cache
                           ELSE [data |-> file, ts |-> now]

-----------------------------------------------------------------------------
(* _request_body *)

Go(phase, f) == pc' = phase /\ flow' = f
Answered(a) == Go("idle", [flow EXCEPT !.answer = a])

Verdicts == {"pass", "refuse"} \cup {v \in {"throttle"} : brain}

BugLoginUnchecked ==
    \E ip \in Ips, url \in Urls, verdict \in Verdicts :
        LET f == [NoFlow EXCEPT !.ip = ip, !.url = url] IN
        /\ pc = "idle"
        /\ CASE verdict = "pass"     -> Go(IF ip \in Admins \/ url = "login" THEN "route" ELSE "auth", f)
             [] verdict = "refuse"   -> Go("idle", [f EXCEPT !.answer = "screened"])
             [] verdict = "throttle" -> Go("idle", [f EXCEPT !.answer = "forward"])
        /\ awaiting' = awaiting \cup {i \in {ip} : url = "login" /\ verdict = "throttle"}
        /\ UNCHANGED <<file, readable, cache, uids, now, loaded, brain, history>>

\* A request arrives and goes through the screens.
Arrive ==
    \E ip \in Ips, url \in Urls, verdict \in Verdicts :
        LET f == [NoFlow EXCEPT !.ip = ip, !.url = url] IN
        /\ pc = "idle"
        /\ CASE verdict = "pass"     -> Go(IF ip \in Admins THEN "route" ELSE "auth", f)
             [] verdict = "refuse"   -> Go("idle", [f EXCEPT !.answer = "screened"])
             [] verdict = "throttle" -> Go("idle", [f EXCEPT !.answer = "forward"])
        /\ awaiting' = awaiting \cup {i \in {ip} : url = "login" /\ verdict = "throttle"}
        /\ UNCHANGED <<file, readable, cache, uids, now, loaded, brain, history>>

\* is_active_ip
CheckIp ==
    /\ pc = "auth"
    /\ CacheAfterLoad
    /\ Go(IF Admits(LoadDb[flow.ip]) THEN "route" ELSE "uid", flow)
    /\ UNCHANGED <<file, readable, uids, now, loaded, brain, awaiting, history>>

\* load_uids and get_uid_status
CheckUid ==
    /\ pc = "uid"
    /\ Go(IF UidAdmits(flow.ip) THEN "route" ELSE "message", flow)
    /\ UNCHANGED <<file, readable, cache, uids, now, loaded, brain, awaiting, history>>

\* get_ip_status: only the words of the refusal depend on it
Refuse ==
    /\ pc = "message"
    /\ CacheAfterLoad
    /\ Answered(LET s == StatusOf(LoadDb[flow.ip]) IN
                IF s \in {"BANNED", "EXPIRED"} THEN s ELSE "NOT_FOUND")
    /\ UNCHANGED <<file, readable, uids, now, loaded, brain, awaiting, history>>

\* The patterns and hosts of an admitted request; a file that was not loaded at
\* start is not injected.
Route ==
    /\ pc = "route"
    /\ CASE flow.url = "anticheat" -> Answered("stub")
         [] flow.url = "intercept" -> Answered(IF loaded THEN "inject" ELSE "forward")
         [] flow.url = "protected" -> IF flow.ip \in Admins THEN Answered("forward")
                                      ELSE Go("recheck", flow)
         [] OTHER                  -> Answered("forward")
    /\ awaiting' = awaiting \cup {i \in {flow.ip} : flow.url = "login"}
    /\ UNCHANGED <<file, readable, cache, uids, now, loaded, brain, history>>

\* The same question again, for a protected host
RecheckIp ==
    /\ pc = "recheck"
    /\ CacheAfterLoad
    /\ IF Admits(LoadDb[flow.ip]) THEN Answered("forward") ELSE Go("recheck_uid", flow)
    /\ UNCHANGED <<file, readable, uids, now, loaded, brain, awaiting, history>>

RecheckUid ==
    /\ pc = "recheck_uid"
    /\ Answered(IF UidAdmits(flow.ip) THEN "forward" ELSE "NOT_FOUND")
    /\ UNCHANGED <<file, readable, cache, uids, now, loaded, brain, awaiting, history>>

-----------------------------------------------------------------------------
(* _response_body: the server answers a login *)

\* With another status than 200 the answer is passed on as it is.
LoginFails ==
    \E ip \in awaiting :
        /\ pc = "idle"
        /\ awaiting' = awaiting \ {ip}
        /\ Go("idle", [NoFlow EXCEPT !.ip = ip, !.url = "login", !.answer = "forward"])
        /\ UNCHANGED <<file, readable, cache, uids, now, loaded, brain, history>>

LoginWithUid ==
    \E ip \in awaiting, u \in Uids :
        /\ pc = "idle"
        /\ awaiting' = awaiting \ {ip}
        /\ Go("bind", [NoFlow EXCEPT !.ip = ip, !.url = "login", !.uid = u,
                                     !.answer = StatusOf(uids[u])])
        /\ UNCHANGED <<file, readable, cache, uids, now, loaded, brain, history>>

BugBindUnknown ==
    /\ pc = "bind"
    /\ Go("save_uids", [flow EXCEPT !.seen = [uids EXCEPT ![flow.uid] =
            IF @ = None THEN [ip |-> flow.ip] ELSE [@ EXCEPT !.ip = flow.ip]]])
    /\ UNCHANGED <<file, readable, cache, uids, now, loaded, brain, awaiting, history>>

\* load_uids again, and the address written into the copy
Bind ==
    /\ pc = "bind"
    /\ IF uids[flow.uid] # None
       THEN Go("save_uids", [flow EXCEPT !.seen = [uids EXCEPT ![flow.uid].ip = flow.ip]])
       ELSE Go("idle", flow)
    /\ UNCHANGED <<file, readable, cache, uids, now, loaded, brain, awaiting, history>>

\* save_uids; an exception is logged and dropped
SaveUids ==
    /\ pc = "save_uids"
    /\ uids' \in {uids, flow.seen}
    /\ Go("idle", [flow EXCEPT !.seen = NoUids])
    /\ UNCHANGED <<file, readable, cache, now, loaded, brain, awaiting, history>>

\* The response has no uid in it: the address decides.
LoginByIp ==
    \E ip \in awaiting :
        /\ pc = "idle"
        /\ CacheAfterLoad
        /\ awaiting' = awaiting \ {ip}
        /\ Go("idle", [NoFlow EXCEPT !.ip = ip, !.url = "login", !.answer =
                 IF ip \in Admins THEN "ADMIN" ELSE StatusOf(LoadDb[ip])])
        /\ UNCHANGED <<file, readable, uids, now, loaded, brain, history>>

-----------------------------------------------------------------------------
(* The rest of the system *)

\* How the history follows the file and the clock, t.
SteadyNext(ip, t) ==
    IF ~readable' \/ ~Admits(file[ip])' THEN t + 1
    ELSE IF file'[ip] # file[ip] \/ steadyFrom[ip] > t THEN t
    ELSE steadyFrom[ip]

Noted(t) ==
    /\ okAt' = [ip \in Ips |-> IF Admits(file[ip])' THEN t ELSE okAt[ip]]
    /\ steadyFrom' = [ip \in Ips |-> SteadyNext(ip, t)]

\* A redeem, an extension, a block or a removal reaches ips.json (KeyLedger).
WriteEntry ==
    /\ \E ip \in Ips :
         \/ file' = [file EXCEPT ![ip] = None]
         \/ \E s \in {"active", "blocked"}, x \in Expiries :
              file' = [file EXCEPT ![ip] = [status |-> s, expires_at |-> x]]
    /\ UNCHANGED <<readable, cache, uids, now, loaded, brain, pc, flow, awaiting>>
    /\ Noted(now)

\* The scheduler's cleanup marks what has expired.
CleanupExpired ==
    /\ \E ip \in Ips :
         /\ file[ip] # None
         /\ file[ip].status = "active"
         /\ ~Live(file[ip])
         /\ file' = [file EXCEPT ![ip].status = "expired"]
    /\ UNCHANGED <<readable, cache, uids, now, loaded, brain, pc, flow, awaiting>>
    /\ Noted(now)

\* ips.json is missing, locked by another process, or damaged for a while.
ToggleReadable ==
    /\ readable' = ~readable
    /\ UNCHANGED <<file, cache, uids, now, loaded, brain, pc, flow, awaiting>>
    /\ Noted(now)

\* An account is registered, renewed or blocked in uids.json.
WriteUid ==
    /\ \E u \in Uids, s \in {"active", "blocked"}, x \in Expiries :
         uids' = [uids EXCEPT ![u] = [status |-> s, expires_at |-> x,
                     ip |-> IF uids[u] = None THEN None ELSE uids[u].ip]]
    /\ UNCHANGED <<file, readable, cache, now, loaded, brain, pc, flow, awaiting, history>>

Tick ==
    /\ now < LastTick
    /\ now' = now + 1
    /\ UNCHANGED <<file, readable, cache, uids, loaded, brain, pc, flow, awaiting>>
    /\ Noted(now + 1)

\* The clock starts past one TTL: the cache's first stamp, 0, is long ago.
Init ==
    /\ file = NoEntries
    /\ readable = TRUE
    /\ cache = [data |-> NoEntries, ts |-> 0]
    /\ uids = NoUids
    /\ now = Ttl
    /\ loaded \in BOOLEAN
    /\ brain \in BOOLEAN
    /\ pc = "idle"
    /\ flow = NoFlow
    /\ awaiting = {}
    /\ okAt = [ip \in Ips |-> 0]
    /\ steadyFrom = [ip \in Ips |-> Ttl + 1]

Hook ==
    \/ Arrive \/ CheckIp \/ CheckUid \/ Refuse \/ Route \/ RecheckIp \/ RecheckUid
    \/ LoginFails \/ LoginWithUid \/ Bind \/ SaveUids \/ LoginByIp

World == WriteEntry \/ CleanupExpired \/ ToggleReadable \/ WriteUid \/ Tick

Next == Hook \/ World

Spec == Init /\ [][Next]_vars

-----------------------------------------------------------------------------
TypeOK ==
    /\ file \in Table
    /\ readable \in BOOLEAN
    /\ cache \in [data : Table, ts : Nat]
    /\ uids \in UidTable
    /\ now \in Nat
    /\ loaded \in BOOLEAN
    /\ brain \in BOOLEAN
    /\ pc \in Phases
    /\ flow \in Flow
    /\ awaiting \subseteq Ips
    /\ okAt \in [Ips -> Nat]
    /\ steadyFrom \in [Ips -> Nat]

\* A client whose address was blocked, removed or left to expire is let in by its
\* address for less than Ttl seconds after the file last admitted it
\* (tilinx_proxy.py:153-157).
RevocationTakesEffect ==
    [][/\ pc \in {"auth", "recheck"}
       /\ pc' = "route" \/ flow'.answer = "forward"
       => now - okAt[flow.ip] < Ttl]_vars

\* A client whose address has had the same active entry in a readable file for Ttl
\* seconds is not turned to the uid check, nor told that it is banned or expired.
ActivationTakesEffect ==
    [][\/ /\ pc \in {"auth", "recheck"}
          /\ pc' \in {"uid", "recheck_uid"}
       \/ /\ pc = "message"
          /\ flow'.answer \in {"BANNED", "EXPIRED"}
       => now - steadyFrom[flow.ip] < Ttl]_vars

\* Without the brain a uid opens no new address: uids.json binds an account only to
\* an address that ips.json has admitted or an administrator's, since the login
\* request itself must pass the access check (tilinx_proxy.py:477-493, 543-566).
FirstAccessIsByAddress ==
    ~brain => \A u \in Uids, ip \in Ips : Bound(u, ip) => ip \in Admins \/ okAt[ip] > 0
=============================================================================
