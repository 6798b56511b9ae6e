---------------------------- MODULE ProxyProofs ----------------------------
(***************************************************************************)
(* What the two parts of the proxy promise: the access gate (Spec) for any *)
(* clients, accounts, TTL and clock, and the brain (BrainSpec) for any     *)
(* thresholds.                                                             *)
(*                                                                         *)
(* The bound on a revoked address needs more than the cache's age: an      *)
(* entry that the cached table still admits was admitted by the file at    *)
(* the cache's stamp or later.  An activation is bounded by the converse:  *)
(* a table read after the last change of an entry has that entry.          *)
(*                                                                         *)
(* Nobody is challenged or blocked without an anomaly, for thresholds      *)
(* above what volume alone can score.  The invariant follows the mark: a   *)
(* client no analysis ever flagged has no reputation, no history and no    *)
(* cached verdict, neither in memory nor in the file a restart loads.      *)
(* And silence forgives: no entry of a client has more of its life left    *)
(* than its silence has left of Forget.                                    *)
(***************************************************************************)
EXTENDS AccessGate, Brain, FiniteSetTheorems, SequenceTheorems, TLAPS

-----------------------------------------------------------------------------
(* The access gate: types. *)

LEMMA InitTyped == Init => TypeOK
  BY AccessAssumption DEF Init, TypeOK, NoEntries, NoUids, NoFlow, Flow, Table, UidTable,
     UrlKinds, Answers, Phases

LEMMA StatusTyped == \A e : StatusOf(e) \in Statuses
  BY DEF StatusOf, Statuses

LEMMA AnswerTyped ==
    ASSUME TypeOK, NEW a \in Answers, NEW ip \in Ips, NEW url \in UrlKinds, NEW u \in Uids \cup {None}
    PROVE  /\ NoFlow \in Flow
           /\ [NoFlow EXCEPT !.ip = ip, !.url = url] \in Flow
           /\ [NoFlow EXCEPT !.ip = ip, !.url = url, !.answer = a] \in Flow
           /\ [NoFlow EXCEPT !.ip = ip, !.url = url, !.uid = u, !.answer = a] \in Flow
           /\ [[NoFlow EXCEPT !.ip = ip, !.url = url] EXCEPT !.answer = a] \in Flow
  BY DEF TypeOK, Flow, NoFlow, NoUids, UidTable, UrlKinds, Answers

LEMMA LoadTyped ==
    ASSUME TypeOK, CacheAfterLoad
    PROVE  LoadDb \in Table /\ cache' \in [data : Table, ts : Nat]
  BY DEF TypeOK, CacheAfterLoad, LoadDb, NoEntries, Table, Fresh

LEMMA NotedTyped ==
    ASSUME TypeOK, NEW t \in Nat, Noted(t)
    PROVE  okAt' \in [Ips -> Nat] /\ steadyFrom' \in [Ips -> Nat]
<1> okAt \in [Ips -> Nat] /\ steadyFrom \in [Ips -> Nat]
  BY DEF TypeOK
<1>1. okAt' \in [Ips -> Nat]
  BY DEF Noted
<1>2. \A ip \in Ips : SteadyNext(ip, t) \in Nat
  BY DEF SteadyNext
<1>3. steadyFrom' \in [Ips -> Nat]
  BY <1>2 DEF Noted
<1> QED
  BY <1>1, <1>3

\* While a hook is at work it has a client, and no answer before it is done; a
\* login to be bound has an account.
Attended == /\ pc # "idle" => flow.ip \in Ips
            /\ pc \notin {"idle", "bind", "save_uids"} => flow.answer = "none"
            /\ pc \in {"bind", "save_uids"} => flow.uid \in Uids

LEMMA HookTyped ==
    ASSUME TypeOK, pc' \in Phases, flow' \in Flow, uids' \in UidTable,
           cache' \in [data : Table, ts : Nat], awaiting' \subseteq Ips,
           UNCHANGED <<file, readable, now, loaded, brain, okAt, steadyFrom>>
    PROVE  TypeOK'
  BY DEF TypeOK

LEMMA HookStepTyped ==
    ASSUME TypeOK, Attended, Hook
    PROVE  TypeOK' /\ Attended'
<1> USE DEF Go, Answered, history
<1>a. \A a \in Answers : pc # "idle" => [flow EXCEPT !.answer = a] \in Flow
                                     /\ [flow EXCEPT !.answer = a].ip = flow.ip
  BY DEF TypeOK, Flow, Attended
<1>s. {"stub", "inject", "forward", "BANNED", "EXPIRED", "NOT_FOUND"} \subseteq Answers
  BY DEF Answers, Statuses
<1>t. /\ pc \in Phases /\ flow \in Flow /\ uids \in UidTable
      /\ cache \in [data : Table, ts : Nat] /\ awaiting \subseteq Ips
  BY DEF TypeOK
<1>1. CASE Arrive
  <2> PICK ip \in Ips, url \in Urls, screen \in Verdicts : Arrive!(ip, url, screen)
    BY <1>1 DEF Arrive
  <2> url \in UrlKinds
    BY AccessAssumption
  <2> DEFINE f == [NoFlow EXCEPT !.ip = ip, !.url = url]
  <2>a. /\ f \in Flow /\ f.answer = "none"
        /\ \A a \in Answers : [f EXCEPT !.answer = a] \in Flow
        /\ \A a \in Answers : [f EXCEPT !.answer = a].ip = ip /\ f.ip = ip
    BY AnswerTyped DEF NoFlow, Flow, Answers
  <2>b. screen \in {"pass", "refuse", "throttle"} /\ {"screened", "forward"} \subseteq Answers
    BY DEF Verdicts, Answers
  <2>1. flow' \in Flow /\ pc' \in {"idle", "route", "auth"} /\ flow'.ip = ip
        /\ (pc' # "idle" => flow'.answer = "none")
    BY <2>a, <2>b
  <2> QED
    BY <1>t, <2>1, HookTyped DEF Phases, Attended
<1>2. CASE CheckIp
  BY <1>2, <1>t, LoadTyped, HookTyped DEF CheckIp, Phases, Attended
<1>3. CASE CheckUid
  BY <1>3, <1>t, HookTyped DEF CheckUid, Phases, Attended
<1>4. CASE Refuse
  <2>0. \E a \in {"BANNED", "EXPIRED", "NOT_FOUND"} : flow' = [flow EXCEPT !.answer = a]
    BY <1>4 DEF Refuse
  <2>1. flow' \in Flow
    BY <1>4, <1>a, <1>s, <2>0 DEF Refuse
  <2> QED
    BY <1>4, <1>t, <2>1, LoadTyped, HookTyped DEF Refuse, Phases, Attended
<1>5. CASE Route
  <2>1. flow' \in Flow /\ pc' \in {"idle", "recheck"} /\ flow'.ip = flow.ip
    <3>1. \/ pc' = "idle" /\ \E a \in {"stub", "inject", "forward"} : flow' = [flow EXCEPT !.answer = a]
          \/ pc' = "recheck" /\ flow' = flow
      BY <1>5 DEF Route
    <3> QED
      BY <1>5, <1>t, <1>a, <1>s, <3>1 DEF Route
  <2> QED
    BY <1>5, <1>t, <2>1, HookTyped DEF Route, Phases, Attended
<1>6. CASE RecheckIp
  <2>1. flow' \in Flow /\ pc' \in {"idle", "recheck_uid"} /\ flow'.ip = flow.ip
    <3>1. \/ pc' = "idle" /\ flow' = [flow EXCEPT !.answer = "forward"]
          \/ pc' = "recheck_uid" /\ flow' = flow
      BY <1>6 DEF RecheckIp
    <3>2. pc # "idle"
      BY <1>6 DEF RecheckIp
    <3>3. /\ [flow EXCEPT !.answer = "forward"] \in Flow
          /\ [flow EXCEPT !.answer = "forward"].ip = flow.ip
      BY <1>a, <1>s, <3>2
    <3> QED
      BY <1>t, <3>1, <3>3
  <2> QED
    BY <1>6, <1>t, <2>1, LoadTyped, HookTyped DEF RecheckIp, Phases, Attended
<1>7. CASE RecheckUid
  <2>1. flow' \in Flow
    BY <1>7, <1>t, <1>a DEF RecheckUid, Answers, Statuses
  <2> QED
    BY <1>7, <1>t, <2>1, HookTyped DEF RecheckUid, Phases, Attended
<1>8. CASE LoginFails
  <2> PICK ip \in awaiting : LoginFails!(ip)
    BY <1>8 DEF LoginFails
  <2>1. flow' \in Flow
    BY <1>t, AnswerTyped DEF Answers, UrlKinds
  <2> QED
    BY <1>t, <2>1, HookTyped DEF Phases, Attended
<1>9. CASE LoginWithUid
  <2> PICK ip \in awaiting, u \in Uids : LoginWithUid!(ip, u)
    BY <1>9 DEF LoginWithUid
  <2>1. StatusOf(uids[u]) \in Answers /\ ip \in Ips
    BY <1>t, StatusTyped DEF Answers
  <2>2. flow' \in Flow /\ flow'.ip = ip /\ flow'.uid = u
    BY <2>1, AnswerTyped DEF UrlKinds, NoFlow
  <2> QED
    BY <1>t, <2>1, <2>2, HookTyped DEF Phases, Attended
<1>10. CASE Bind
  <2>1. flow.uid \in Uids /\ flow.ip \in Ips
    BY <1>10 DEF Bind, Attended
  <2>2. uids[flow.uid] # None => [uids EXCEPT ![flow.uid].ip = flow.ip] \in UidTable
    BY <1>t, <2>1 DEF UidTable, UidEntry
  <2>3. /\ flow' \in Flow /\ pc' \in {"idle", "save_uids"}
        /\ flow'.ip = flow.ip /\ flow'.uid = flow.uid
    BY <1>10, <1>t, <2>2 DEF Bind, Flow
  <2> QED
    BY <1>10, <1>t, <2>1, <2>3, HookTyped DEF Bind, Phases, Attended
<1>11. CASE SaveUids
  <2>1. NoUids \in UidTable /\ flow.seen \in UidTable
    BY <1>t DEF NoUids, UidTable, Flow
  <2>2. flow' \in Flow /\ uids' \in UidTable
    BY <1>11, <1>t, <2>1 DEF SaveUids, Flow
  <2> QED
    BY <1>11, <1>t, <2>2, HookTyped DEF SaveUids, Phases, Attended
<1>12. CASE LoginByIp
  <2> PICK ip \in awaiting : LoginByIp!(ip)
    BY <1>12 DEF LoginByIp
  <2>1. ip \in Ips /\ (IF ip \in Admins THEN "ADMIN" ELSE StatusOf(LoadDb[ip])) \in Answers
    BY <1>t, StatusTyped DEF Answers, Statuses
  <2>2. flow' \in Flow
    BY <2>1, AnswerTyped DEF UrlKinds
  <2> QED
    BY <1>t, <2>2, LoadTyped, HookTyped DEF Phases, Attended
<1> QED
  BY <1>1, <1>2, <1>3, <1>4, <1>5, <1>6, <1>7, <1>8, <1>9, <1>10, <1>11, <1>12
  DEF Hook

LEMMA WorldStepTyped ==
    ASSUME TypeOK, Attended, World
    PROVE  TypeOK' /\ Attended'
<1>1. CASE WriteEntry
  <2>1. file' \in Table
    BY <1>1, AccessAssumption DEF WriteEntry, TypeOK, Table, Entry
  <2> QED
    BY <1>1, <2>1, NotedTyped DEF WriteEntry, TypeOK, Attended
<1>2. CASE CleanupExpired
  <2>1. file' \in Table
    BY <1>2 DEF CleanupExpired, TypeOK, Table, Entry
  <2> QED
    BY <1>2, <2>1, NotedTyped DEF CleanupExpired, TypeOK, Attended
<1>3. CASE ToggleReadable
  BY <1>3, NotedTyped DEF ToggleReadable, TypeOK, Attended
<1>4. CASE WriteUid
  <2>1. uids' \in UidTable
    BY <1>4, AccessAssumption DEF WriteUid, TypeOK, UidTable, UidEntry
  <2> QED
    BY <1>4, <2>1 DEF WriteUid, TypeOK, Attended, history
<1>5. CASE Tick
  BY <1>5, NotedTyped DEF Tick, TypeOK, Attended
<1> QED
  BY <1>1, <1>2, <1>3, <1>4, <1>5 DEF World

-----------------------------------------------------------------------------
(* The cache and the file *)

\* The history is the file's: what it admits now was admitted now.
FileNoted == \A ip \in Ips : Admits(file[ip]) => okAt[ip] = now

\* What the cached table admits, the file admitted when it was read or since.
CacheBacked == \A ip \in Ips : Admits(cache.data[ip]) => okAt[ip] >= cache.ts /\ okAt[ip] > 0

CInv == TypeOK /\ Attended /\ now > 0 /\ cache.ts <= now /\ FileNoted /\ CacheBacked

\* What the table that load_db returns admits, the file admitted within Ttl.
LEMMA LoadBacked ==
    ASSUME CInv, NEW ip \in Ips, Admits(LoadDb[ip])
    PROVE  now - okAt[ip] < Ttl /\ okAt[ip] > 0
<1> /\ now \in Nat /\ now > 0 /\ okAt[ip] \in Nat /\ cache.ts \in Nat /\ Ttl \in Nat /\ Ttl > 0
  BY AccessAssumption DEF CInv, TypeOK
<1>1. CASE Fresh
  BY <1>1 DEF LoadDb, Fresh, CInv, CacheBacked
<1>2. CASE ~Fresh /\ readable
  BY <1>2 DEF LoadDb, CInv, FileNoted
<1>3. CASE ~Fresh /\ ~readable
  BY <1>3 DEF LoadDb, NoEntries, Admits
<1> QED
  BY <1>1, <1>2, <1>3

LEMMA HookKeepsCache ==
    ASSUME CInv, UNCHANGED <<file, now, okAt>>, cache' = cache \/ CacheAfterLoad
    PROVE  FileNoted' /\ CacheBacked' /\ cache'.ts <= now
<1>0. now \in Nat /\ cache.ts <= now
  BY DEF CInv, TypeOK
<1>1. FileNoted'
  BY DEF CInv, FileNoted, Admits, Live
<1>2. CASE cache' = cache
  BY <1>1, <1>2 DEF CInv, CacheBacked, Admits, Live
<1>3. CASE cache' = [data |-> file, ts |-> now]
  <2>1. ASSUME NEW ip \in Ips, Admits(cache.data[ip])'
        PROVE  okAt'[ip] >= cache'.ts /\ okAt'[ip] > 0
    <3>1. cache'.data[ip] = file[ip] /\ cache'.ts = now
      BY <1>3
    <3>2. Admits(file[ip])
      BY <2>1, <3>1 DEF Admits, Live
    <3>3. okAt[ip] = now /\ now \in Nat /\ now > 0
      BY <3>2 DEF CInv, TypeOK, FileNoted
    <3> QED
      BY <3>1, <3>3
  <2>2. CacheBacked'
    BY <2>1 DEF CacheBacked
  <2> QED
    BY <1>0, <1>1, <1>3, <2>2
<1> QED
  BY <1>0, <1>1, <1>2, <1>3 DEF CacheAfterLoad

LEMMA NotedKeepsCache ==
    ASSUME CInv, TypeOK', NEW t \in {now, now + 1}, Noted(t), now' = t, UNCHANGED cache
    PROVE  FileNoted' /\ CacheBacked'
<1> now \in Nat /\ t \in Nat /\ t >= now /\ okAt \in [Ips -> Nat] /\ now > 0
  BY DEF CInv, TypeOK
<1>1. FileNoted'
  BY DEF FileNoted, Noted
<1>2. ASSUME NEW ip \in Ips, Admits(cache.data[ip])'
      PROVE  okAt'[ip] >= cache.ts /\ okAt'[ip] > 0
  <2> DEFINE e == cache.data[ip]
  <2>0. /\ e \in Entry \cup {None} /\ cache.ts \in Nat
    BY DEF CInv, TypeOK, Table
  <2>1. e # None /\ e.status = "active" /\ (e.expires_at = 0 \/ e.expires_at > t)
    BY <1>2 DEF Admits, Live
  <2>2. Admits(e)
    BY <2>0, <2>1 DEF Admits, Live, Entry
  <2>3. okAt[ip] >= cache.ts /\ okAt[ip] > 0
    BY <2>2 DEF CInv, CacheBacked
  <2>4. cache.ts <= t /\ t > 0
    BY <2>0 DEF CInv
  <2>5. okAt'[ip] = t \/ okAt'[ip] = okAt[ip]
    BY DEF Noted
  <2> QED
    BY <2>3, <2>4, <2>5
<1> QED
  BY <1>1, <1>2 DEF CacheBacked

-----------------------------------------------------------------------------
LEMMA CacheInit == Init => CInv
<1> SUFFICES ASSUME Init PROVE CInv
  OBVIOUS
<1>1. TypeOK
  BY InitTyped
<1>2. Attended /\ now > 0 /\ cache.ts <= now
  BY AccessAssumption DEF Init, Attended
<1>3. FileNoted /\ CacheBacked
  BY DEF Init, FileNoted, CacheBacked, NoEntries, Admits
<1> QED
  BY <1>1, <1>2, <1>3 DEF CInv

LEMMA CacheStep == CInv /\ [Next]_vars => CInv'
<1> SUFFICES ASSUME CInv, [Next]_vars PROVE CInv'
  OBVIOUS
<1>n. now \in Nat /\ now > 0 /\ cache.ts \in Nat /\ cache.ts <= now
  BY DEF CInv, TypeOK
<1>1. CASE Hook
  <2>1. TypeOK' /\ Attended'
    BY <1>1, HookStepTyped DEF CInv
  <2>2. UNCHANGED <<file, now, okAt>> /\ (cache' = cache \/ CacheAfterLoad)
    BY <1>1 DEF Hook, Arrive, CheckIp, CheckUid, Refuse, Route, RecheckIp, RecheckUid,
       LoginFails, LoginWithUid, Bind, SaveUids, LoginByIp, history
  <2> QED
    BY <1>n, <2>1, <2>2, HookKeepsCache DEF CInv
<1>2. CASE World
  <2>1. TypeOK' /\ Attended'
    BY <1>2, WorldStepTyped DEF CInv
  <2>2. CASE WriteUid
    <3>1. UNCHANGED <<file, cache, now, okAt>>
      BY <2>2 DEF WriteUid, history
    <3> QED
      BY <1>n, <2>1, <3>1, HookKeepsCache DEF CInv
  <2>3. CASE ~WriteUid
    <3>1. UNCHANGED cache /\ \E t \in {now, now + 1} : Noted(t) /\ now' = t
      BY <1>2, <2>3 DEF World, WriteEntry, CleanupExpired, ToggleReadable, Tick
    <3>2. PICK t \in {now, now + 1} : Noted(t) /\ now' = t
      BY <3>1
    <3>3. now' > 0 /\ cache'.ts <= now'
      BY <1>n, <3>1, <3>2
    <3> QED
      BY <2>1, <3>1, <3>2, <3>3, NotedKeepsCache DEF CInv
  <2> QED
    BY <2>2, <2>3
<1>3. CASE UNCHANGED vars
  BY <1>3 DEF vars, CInv, TypeOK, Attended, FileNoted, CacheBacked, Admits, Live
<1> QED
  BY <1>1, <1>2, <1>3 DEF Next

\* The invariant of the cache: what a stale table still admits, the file admitted at
\* the time the table was read or later (tilinx_proxy.py:153-190).
THEOREM CacheSound == Spec => []CInv
  BY CacheInit, CacheStep, PTL DEF Spec

\* Type correctness of the gate for any clients, accounts, TTL and clock.
THEOREM GateTyped == Spec => []TypeOK
<1>1. CInv => TypeOK
  BY DEF CInv
<1> QED
  BY <1>1, CacheSound, PTL

\* Wherever the address check lets a client in, ips.json admitted its address less
\* than Ttl seconds ago, whatever the writers of the file do meanwhile.
THEOREM RevocationBounded == Spec => RevocationTakesEffect
<1>1. ASSUME CInv, [Next]_vars
      PROVE  [/\ pc \in {"auth", "recheck"}
              /\ pc' = "route" \/ flow'.answer = "forward"
              => now - okAt[flow.ip] < Ttl]_vars
  <2> SUFFICES ASSUME Next, pc \in {"auth", "recheck"},
                      pc' = "route" \/ flow'.answer = "forward"
               PROVE  now - okAt[flow.ip] < Ttl
    BY <1>1
  <2>1. flow.ip \in Ips
    BY <1>1 DEF CInv, Attended
  <2>2. flow.answer = "none"
    BY <1>1 DEF CInv, Attended
  <2>3. CheckIp \/ RecheckIp
    BY <2>2 DEF Next, Hook, World, Arrive, CheckUid, Refuse, Route, RecheckUid, LoginFails,
       LoginWithUid, Bind, SaveUids, LoginByIp, WriteEntry, CleanupExpired, ToggleReadable,
       WriteUid, Tick, Go
  <2>4. Admits(LoadDb[flow.ip])
    BY <2>2, <2>3 DEF CheckIp, RecheckIp, Go, Answered
  <2> QED
    BY <1>1, <2>1, <2>4, LoadBacked
<1> QED
  BY <1>1, CacheSound, PTL DEF Spec, RevocationTakesEffect

-----------------------------------------------------------------------------
(* Where an account's address comes from *)

\* An address that ips.json has admitted, or an administrator's.
Known(ip) == ip \in Admins \/ okAt[ip] > 0

KInv == /\ \A u \in Uids, ip \in Ips : Bound(u, ip) => Known(ip)
        /\ \A ip \in awaiting : Known(ip)
        /\ pc \in {"route", "recheck", "recheck_uid", "bind", "save_uids"} => Known(flow.ip)
        /\ pc = "save_uids" => \A u \in Uids, ip \in Ips :
              flow.seen[u] # None /\ flow.seen[u].ip = ip => Known(ip)

LEMMA KnownStays ==
    ASSUME CInv, [Next]_vars, NEW ip \in Ips, Known(ip)
    PROVE  okAt'[ip] > 0 \/ ip \in Admins
<1> /\ now \in Nat /\ now > 0 /\ okAt \in [Ips -> Nat]
  BY DEF CInv, TypeOK
<1>1. CASE UNCHANGED okAt
  BY <1>1 DEF Known
<1>2. CASE \E t \in {now, now + 1} : Noted(t)
  <2> PICK t \in {now, now + 1} : Noted(t)
    BY <1>2
  <2>1. okAt'[ip] = t \/ okAt'[ip] = okAt[ip]
    BY DEF Noted
  <2> QED
    BY <2>1 DEF Known
<1> QED
  BY <1>1, <1>2 DEF Next, Hook, World, vars, Arrive, CheckIp, CheckUid, Refuse, Route, RecheckIp,
     RecheckUid, LoginFails, LoginWithUid, Bind, SaveUids, LoginByIp, WriteEntry, CleanupExpired,
     ToggleReadable, WriteUid, Tick, history

LEMMA KnownInit == Init => KInv
  BY DEF Init, KInv, Bound, NoUids

LEMMA KnownHook ==
    ASSUME CInv, KInv, Hook, ~brain
    PROVE  KInv'
<1> USE DEF Go, Answered, history
<1>o. okAt' = okAt
  BY DEF Hook, Arrive, CheckIp, CheckUid, Refuse, Route, RecheckIp, RecheckUid,
     LoginFails, LoginWithUid, Bind, SaveUids, LoginByIp
<1>b. UNCHANGED uids => \A u \in Uids, ip \in Ips : Bound(u, ip)' => Known(ip)
  BY DEF KInv, Bound
<1>i. pc # "idle" => flow.ip \in Ips
  BY DEF CInv, Attended
<1> SUFFICES /\ \A u \in Uids, ip \in Ips : Bound(u, ip)' => Known(ip)
             /\ \A ip \in awaiting' : Known(ip)
             /\ pc' \in {"route", "recheck", "recheck_uid", "bind", "save_uids"} => Known(flow'.ip)
             /\ pc' = "save_uids" => \A u \in Uids, ip \in Ips :
                   flow'.seen[u] # None /\ flow'.seen[u].ip = ip => Known(ip)
  BY <1>o DEF KInv, Known
<1>1. CASE Arrive
  <2> PICK ip \in Ips, url \in Urls, screen \in Verdicts : Arrive!(ip, url, screen)
    BY <1>1 DEF Arrive
  <2>1. awaiting' = awaiting
    BY DEF Verdicts
  <2>2. pc' \in {"idle", "route", "auth"} /\ (pc' = "route" => ip \in Admins /\ flow'.ip = ip)
    BY DEF NoFlow, Verdicts
  <2> QED
    BY <1>b, <2>1, <2>2 DEF KInv, Known
<1>2. CASE CheckIp
  <2>1. pc' = "route" => Admits(LoadDb[flow.ip])
    BY <1>2 DEF CheckIp
  <2>2. pc' = "route" => Known(flow.ip)
    BY <1>2, <1>i, <2>1, LoadBacked DEF CheckIp, Known
  <2> QED
    BY <1>2, <1>b, <2>2 DEF CheckIp, KInv
<1>3. CASE CheckUid
  <2>1. pc' = "route" => Known(flow.ip)
    BY <1>3, <1>i DEF CheckUid, UidAdmits, KInv
  <2> QED
    BY <1>3, <1>b, <2>1 DEF CheckUid, KInv
<1>4. CASE Refuse
  BY <1>4, <1>b DEF Refuse, KInv
<1>5. CASE Route
  <2>1. Known(flow.ip) /\ pc' \in {"idle", "recheck"} /\ (pc' = "recheck" => flow' = flow)
    BY <1>5 DEF Route, KInv
  <2> QED
    BY <1>5, <1>b, <2>1 DEF Route, KInv
<1>6. CASE RecheckIp
  <2>1. Known(flow.ip) /\ pc' \in {"idle", "recheck_uid"} /\ (pc' = "recheck_uid" => flow' = flow)
    BY <1>6 DEF RecheckIp, KInv
  <2> QED
    BY <1>6, <1>b, <2>1 DEF RecheckIp, KInv
<1>7. CASE RecheckUid
  BY <1>7, <1>b DEF RecheckUid, KInv
<1>8. CASE LoginFails
  BY <1>8, <1>b DEF LoginFails, KInv
<1>9. CASE LoginWithUid
  <2> PICK ip \in awaiting, u \in Uids : LoginWithUid!(ip, u)
    BY <1>9 DEF LoginWithUid
  <2>1. flow'.ip = ip /\ Known(ip)
    BY DEF KInv, NoFlow
  <2> QED
    BY <1>b, <2>1 DEF KInv
<1>10. CASE Bind
  <2>1. Known(flow.ip) /\ flow.ip \in Ips /\ flow.uid \in Uids /\ uids \in UidTable /\ flow \in Flow
    BY <1>10, <1>i DEF Bind, KInv, CInv, Attended, TypeOK
  <2>2. flow'.ip = flow.ip /\ pc' \in {"idle", "save_uids"} /\ awaiting' = awaiting
    BY <1>10, <2>1 DEF Bind, Flow
  <2>3. ASSUME pc' = "save_uids", NEW u \in Uids, NEW ip \in Ips,
               flow'.seen[u] # None, flow'.seen[u].ip = ip
        PROVE  Known(ip)
    <3>1. /\ flow'.seen = [uids EXCEPT ![flow.uid].ip = flow.ip]
          /\ uids[flow.uid] \in UidEntry
      BY <1>10, <2>1, <2>3 DEF Bind, Flow, UidTable
    <3>2. CASE u = flow.uid
      BY <2>1, <2>3, <3>1, <3>2 DEF UidTable, UidEntry
    <3>3. CASE u # flow.uid
      BY <2>1, <2>3, <3>1, <3>3 DEF UidTable, KInv, Bound
    <3> QED
      BY <3>2, <3>3
  <2> QED
    BY <1>10, <1>b, <2>1, <2>2, <2>3 DEF Bind, KInv
<1>11. CASE SaveUids
  <2>1. \A u \in Uids, ip \in Ips : Bound(u, ip)' => Known(ip)
    BY <1>11 DEF SaveUids, KInv, Bound
  <2> QED
    BY <1>11, <2>1 DEF SaveUids, KInv
<1>12. CASE LoginByIp
  BY <1>12, <1>b DEF LoginByIp, KInv
<1> QED
  BY <1>1, <1>2, <1>3, <1>4, <1>5, <1>6, <1>7, <1>8, <1>9, <1>10, <1>11, <1>12 DEF Hook

LEMMA KnownWorld ==
    ASSUME CInv, KInv, World
    PROVE  KInv'
<1>k. \A ip \in Ips : Known(ip) => Known(ip)'
  BY KnownStays DEF Next, Known
<1>1. UNCHANGED <<pc, flow, awaiting>>
  BY DEF World, WriteEntry, CleanupExpired, ToggleReadable, WriteUid, Tick
<1>2. /\ \A ip \in awaiting : ip \in Ips
      /\ pc # "idle" => flow.ip \in Ips
  BY DEF CInv, Attended, TypeOK
<1>3. \A u \in Uids, ip \in Ips : Bound(u, ip)' => Bound(u, ip)
  <2>1. CASE WriteUid
    <3> SUFFICES ASSUME NEW v \in Uids, NEW ip \in Ips, Bound(v, ip)' PROVE Bound(v, ip)
      OBVIOUS
    <3> PICK u \in Uids, s \in {"active", "blocked"}, x \in Expiries : WriteUid!1!(u, s, x)
      BY <2>1 DEF WriteUid
    <3>1. uids \in UidTable
      BY DEF CInv, TypeOK
    <3> QED
      BY <3>1, AccessAssumption DEF Bound, UidTable
  <2>2. CASE UNCHANGED uids
    BY <2>2 DEF Bound
  <2> QED
    BY <2>1, <2>2 DEF World, WriteEntry, CleanupExpired, ToggleReadable, Tick
<1> QED
  BY <1>k, <1>1, <1>2, <1>3 DEF KInv

\* Without the brain's throttle, an account is bound only to an address that
\* ips.json has admitted or an administrator's (tilinx_proxy.py:477-493, 543-566).
THEOREM AccountsFollowAddresses == Spec => []FirstAccessIsByAddress
<1> DEFINE I == CInv /\ (~brain => KInv)
<1>1. Init => I
  BY CacheInit, KnownInit
<1>2. I /\ [Next]_vars => I'
  <2> SUFFICES ASSUME I, [Next]_vars PROVE I'
    OBVIOUS
  <2>1. ASSUME UNCHANGED vars, ~brain PROVE KInv'
    BY <2>1 DEF vars, KInv, Bound, Known
  <2>2. brain' = brain
    BY DEF vars, Next, Hook, World, Arrive, CheckIp, CheckUid, Refuse, Route, RecheckIp,
       RecheckUid, LoginFails, LoginWithUid, Bind, SaveUids, LoginByIp, WriteEntry,
       CleanupExpired, ToggleReadable, WriteUid, Tick
  <2> QED
    BY <2>1, <2>2, CacheStep, KnownHook, KnownWorld DEF Next
<1>3. I => FirstAccessIsByAddress
  BY DEF KInv, FirstAccessIsByAddress, Known
<1> HIDE DEF I
<1> QED
  BY <1>1, <1>2, <1>3, PTL DEF Spec

-----------------------------------------------------------------------------
(* What the file admits reaches the cache *)

\* An address counts as admitted since some time only while the file admits it.
SteadyTrue == \A ip \in Ips : steadyFrom[ip] <= now => readable /\ Admits(file[ip])

\* A table read after an entry was last changed has that entry.
CacheFollows == \A ip \in Ips : steadyFrom[ip] < cache.ts => cache.data[ip] = file[ip]

SInv == CInv /\ SteadyTrue /\ CacheFollows

\* Whatever table load_db returns, it has an entry that is Ttl seconds old.
LEMMA LoadFollows ==
    ASSUME SInv, NEW ip \in Ips, now - steadyFrom[ip] >= Ttl
    PROVE  LoadDb[ip] = file[ip] /\ Admits(file[ip])
<1>1. /\ now \in Nat /\ steadyFrom[ip] \in Nat /\ cache.ts \in Nat
      /\ Ttl \in Nat /\ Ttl > 0
  BY AccessAssumption DEF SInv, CInv, TypeOK
<1>2. readable /\ Admits(file[ip])
  BY <1>1 DEF SInv, SteadyTrue
<1>3. Fresh => cache.data[ip] = file[ip]
  BY <1>1 DEF Fresh, SInv, CacheFollows
<1> QED
  BY <1>2, <1>3 DEF LoadDb

LEMMA SteadyInit == Init => SInv
<1> SUFFICES ASSUME Init PROVE SInv
  OBVIOUS
<1>1. \A ip \in Ips : steadyFrom[ip] = Ttl + 1
  BY DEF Init
<1>2. now = Ttl /\ cache.ts = 0 /\ Ttl \in Nat
  BY AccessAssumption DEF Init
<1> QED
  BY <1>1, <1>2, CacheInit DEF SInv, SteadyTrue, CacheFollows

\* A load copies the file as it is; nothing else a hook does matters here.
LEMMA HookKeepsSteady ==
    ASSUME SInv, UNCHANGED <<file, readable, now, steadyFrom>>, cache' = cache \/ CacheAfterLoad
    PROVE  SteadyTrue' /\ CacheFollows'
<1>1. SteadyTrue'
  BY DEF SInv, SteadyTrue, Admits, Live
<1>2. CacheFollows'
  BY DEF SInv, CacheFollows, CacheAfterLoad
<1> QED
  BY <1>1, <1>2

\* A change of the file, or of the clock, starts the count again where it has to.
LEMMA NotedKeepsSteady ==
    ASSUME SInv, NEW t \in {now, now + 1}, Noted(t), now' = t, UNCHANGED cache
    PROVE  SteadyTrue' /\ CacheFollows'
<1>1. /\ now \in Nat /\ t \in Nat /\ t >= now
      /\ cache.ts \in Nat /\ cache.ts <= now
      /\ steadyFrom \in [Ips -> Nat]
  BY DEF SInv, CInv, TypeOK
<1>2. \A ip \in Ips : steadyFrom'[ip] = SteadyNext(ip, t)
  BY DEF Noted
<1>3. ASSUME NEW ip \in Ips, steadyFrom'[ip] <= t
      PROVE  readable' /\ Admits(file[ip])'
  BY <1>1, <1>2, <1>3 DEF SteadyNext
<1>4. ASSUME NEW ip \in Ips, steadyFrom'[ip] < cache.ts
      PROVE  cache.data[ip] = file'[ip]
  <2>1. steadyFrom[ip] < cache.ts /\ file'[ip] = file[ip]
    BY <1>1, <1>2, <1>4 DEF SteadyNext
  <2> QED
    BY <2>1 DEF SInv, CacheFollows
<1> QED
  BY <1>3, <1>4 DEF SteadyTrue, CacheFollows

LEMMA SteadyStep == SInv /\ [Next]_vars => SInv'
<1> SUFFICES ASSUME SInv, [Next]_vars PROVE SInv'
  OBVIOUS
<1>1. CInv'
  BY CacheStep DEF SInv
<1>2. CASE Hook
  <2>1. /\ UNCHANGED <<file, readable, now, steadyFrom>>
        /\ cache' = cache \/ CacheAfterLoad
    BY <1>2 DEF Hook, Arrive, CheckIp, CheckUid, Refuse, Route, RecheckIp, RecheckUid,
       LoginFails, LoginWithUid, Bind, SaveUids, LoginByIp, history
  <2> QED
    BY <1>1, <2>1, HookKeepsSteady DEF SInv
<1>3. CASE World /\ ~WriteUid
  <2>1. UNCHANGED cache /\ \E t \in {now, now + 1} : Noted(t) /\ now' = t
    BY <1>3 DEF World, WriteEntry, CleanupExpired, ToggleReadable, Tick
  <2> QED
    BY <1>1, <2>1, NotedKeepsSteady DEF SInv
<1>4. CASE WriteUid \/ UNCHANGED vars
  <2>1. UNCHANGED <<file, readable, now, steadyFrom, cache>>
    BY <1>4 DEF WriteUid, vars, history
  <2> QED
    BY <1>1, <2>1, HookKeepsSteady DEF SInv
<1> QED
  BY <1>2, <1>3, <1>4 DEF Next

\* An address with the same active entry in a readable ips.json for Ttl seconds is
\* found by the address check, whatever the cache held before (tilinx_proxy.py:153-190).
THEOREM ActivationBounded == Spec => ActivationTakesEffect
<1>1. ASSUME SInv, [Next]_vars
      PROVE  [\/ /\ pc \in {"auth", "recheck"}
                 /\ pc' \in {"uid", "recheck_uid"}
              \/ /\ pc = "message"
                 /\ flow'.answer \in {"BANNED", "EXPIRED"}
              => now - steadyFrom[flow.ip] < Ttl]_vars
  <2> SUFFICES ASSUME Next,
                      \/ pc \in {"auth", "recheck"} /\ pc' \in {"uid", "recheck_uid"}
                      \/ pc = "message" /\ flow'.answer \in {"BANNED", "EXPIRED"},
                      ~(now - steadyFrom[flow.ip] < Ttl)
               PROVE  FALSE
    BY <1>1
  <2>1. flow.ip \in Ips /\ (pc = "message" => flow.answer = "none")
    BY <1>1 DEF SInv, CInv, Attended
  <2>2. now - steadyFrom[flow.ip] >= Ttl
    <3>1. now \in Nat /\ steadyFrom[flow.ip] \in Nat /\ Ttl \in Nat
      BY <1>1, <2>1, AccessAssumption DEF SInv, CInv, TypeOK
    <3> QED
      BY <3>1
  <2>3. Admits(LoadDb[flow.ip])
    BY <1>1, <2>1, <2>2, LoadFollows
  <2>4. CheckIp \/ RecheckIp \/ Refuse
    BY <2>1 DEF Next, Hook, World, Arrive, CheckUid, Route, RecheckUid, LoginFails,
       LoginWithUid, Bind, SaveUids, LoginByIp, WriteEntry, CleanupExpired, ToggleReadable,
       WriteUid, Tick, Go, Answered
  <2>5. CASE CheckIp \/ RecheckIp
    BY <2>3, <2>5 DEF CheckIp, RecheckIp, Go, Answered
  <2>6. CASE Refuse
    <3>1. StatusOf(LoadDb[flow.ip]) = "ACTIVE"
      BY <2>3 DEF Admits, StatusOf
    <3>2. flow' = [flow EXCEPT !.answer = "NOT_FOUND"] /\ flow \in Flow
      BY <1>1, <2>6, <3>1 DEF Refuse, Answered, Go, SInv, CInv, TypeOK
    <3> QED
      BY <2>6, <3>2 DEF Flow, Refuse
  <2> QED
    BY <2>4, <2>5, <2>6
<1> QED
  BY <1>1, SteadyInit, SteadyStep, PTL DEF Spec, ActivationTakesEffect

-----------------------------------------------------------------------------
(* The brain: marks. *)

Unmarked(s) == s.reputation.v = 0 /\ s.history.v = 0 /\ s.decision.v = "none"

IInv == /\ BrainTypeOK
        /\ \A c \in Clients : c \notin flagged =>
              verdict[c] \notin Bad /\ Unmarked(store[c]) /\ Unmarked(disk[c])

-----------------------------------------------------------------------------
(* The store's operations keep a client's record a record, and unmarked. *)

LEMMA Naturals ==
    /\ Window \in Nat /\ Recent \in Nat /\ EventSpan \in Nat
    /\ BurstHits \in Nat /\ BurstMax \in Nat /\ CountLife \in Nat
    /\ Challenge \in Nat /\ Block \in Nat /\ ChallengeTtl \in Nat /\ BlockTtl \in Nat
    /\ Penalty \in Nat /\ PenaltyCap \in Nat /\ Forget \in Nat /\ PersistInterval \in Nat
    /\ 0 < Recent /\ 35 < Challenge /\ 35 < Block
BY BrainAssumption

LEMMA SmallerNat == ASSUME NEW a \in Nat, NEW b \in Nat
                    PROVE  /\ Smaller(a, b) \in Nat
                           /\ Smaller(a, b) <= a /\ Smaller(a, b) <= b
BY DEF Smaller

LEMMA StrangerOK == Stranger \in Client /\ Unmarked(Stranger)
<1>1. << >> \in {e \in Seq(Event) : Len(e) <= Recent}
  BY Naturals, EmptySeq
<1>2. QED
  BY <1>1, Naturals DEF Stranger, Client, Lasting, Gone, Undecided, Unmarked

LEMMA AgedOK ==
    ASSUME NEW life \in Nat, NEW V, 0 \in V, NEW x \in Lasting(V, life)
    PROVE  /\ Aged(x, Gone) \in Lasting(V, life)
           /\ Aged(x, Gone).v \in {0, x.v}
BY DEF Aged, Lasting, Gone

\* get_recent keeps a first part of the events, each a second older.
LEMMA RememberedShape ==
    ASSUME NEW e \in Seq(Event)
    PROVE  \E n \in 0..Len(e) :
              /\ Remembered(e) = [i \in 1..n |-> [e[i] EXCEPT !.age = @ + 1]]
              /\ n > 0 => \E i \in 1..Len(e) : e[i].age < EventSpan - 1
<1> DEFINE I == {i \in DOMAIN e : e[i].age < EventSpan - 1}
           n == Cardinality(I)
<1>1. Len(e) \in Nat /\ DOMAIN e = 1..Len(e)
  OBVIOUS
<1>2. IsFiniteSet(1..Len(e)) /\ Cardinality(1..Len(e)) = Len(e)
  BY <1>1, FS_Interval
<1>3. I \subseteq 1..Len(e)
  BY <1>1
<1>4. n \in Nat /\ n <= Len(e)
  BY <1>2, <1>3, FS_Subset, FS_CardinalityType
<1>5. n > 0 => I # {}
  <2>1. I = {} => n = 0
    BY FS_EmptySet
  <2>2. QED
    BY <2>1
<1>6. I # {} => \E i \in 1..Len(e) : e[i].age < EventSpan - 1
  BY <1>1
<1> HIDE DEF n
<1>7. Remembered(e) = [i \in 1..n |-> [e[i] EXCEPT !.age = @ + 1]]
  BY DEF Remembered, n
<1>8. n \in 0..Len(e)
  BY <1>1, <1>4
<1>9. QED
  BY <1>5, <1>6, <1>7, <1>8

LEMMA RememberedOK ==
    ASSUME NEW e \in Seq(Event), Len(e) <= Recent
    PROVE  Remembered(e) \in Seq(Event) /\ Len(Remembered(e)) <= Recent
<1>1. Len(e) \in Nat
  OBVIOUS
<1>2. PICK n \in 0..Len(e) : Remembered(e) = [i \in 1..n |-> [e[i] EXCEPT !.age = @ + 1]]
  BY RememberedShape
<1>3. \A i \in 1..n : [e[i] EXCEPT !.age = @ + 1] \in Event
  <2>1. SUFFICES ASSUME NEW i \in 1..n
                 PROVE  [e[i] EXCEPT !.age = @ + 1] \in Event
    OBVIOUS
  <2>2. e[i] \in Event
    BY <1>1, ElementOfSeq
  <2>3. QED
    BY <2>2 DEF Event
<1>4. n \in Nat /\ Remembered(e) \in [1..n -> Event]
  BY <1>1, <1>2, <1>3
<1>5. Remembered(e) \in Seq(Event)
  BY <1>4, SeqDef
<1>6. Len(Remembered(e)) = n
  BY <1>4, <1>5, LenProperties
<1>7. QED
  BY <1>1, <1>5, <1>6, Naturals

LEMMA OlderOK ==
    ASSUME NEW s \in Client
    PROVE  Older(s) \in Client /\ (Unmarked(s) => Unmarked(Older(s)))
<1> USE Naturals
<1>1. /\ s.events \in Seq(Event) /\ Len(s.events) <= Recent
      /\ s.hits \in Lasting(0..BurstHits + 1, Window)
      /\ s.stamp \in Lasting({0, 1}, CountLife)
      /\ s.count \in Lasting(0..BurstMax + 1, CountLife)
      /\ s.reputation \in Lasting(0..100, Forget)
      /\ s.history \in Lasting(0..PenaltyCap, Forget)
      /\ s.decision \in [v : {"none"} \cup Bad, left : 0..ChallengeTtl \cup 0..BlockTtl]
  BY DEF Client
<1>2. /\ Aged(s.hits, Gone) \in Lasting(0..BurstHits + 1, Window)
      /\ Aged(s.stamp, Gone) \in Lasting({0, 1}, CountLife)
      /\ Aged(s.count, Gone) \in Lasting(0..BurstMax + 1, CountLife)
  <2>1. 0 \in 0..BurstHits + 1 /\ 0 \in {0, 1} /\ 0 \in 0..BurstMax + 1
    OBVIOUS
  <2>2. QED
    BY <1>1, <2>1, AgedOK
<1>3. /\ Aged(s.reputation, Gone) \in Lasting(0..100, Forget)
      /\ Aged(s.history, Gone) \in Lasting(0..PenaltyCap, Forget)
      /\ Aged(s.reputation, Gone).v \in {0, s.reputation.v}
      /\ Aged(s.history, Gone).v \in {0, s.history.v}
  <2>1. 0 \in 0..100 /\ 0 \in 0..PenaltyCap
    OBVIOUS
  <2>2. QED
    BY <1>1, <2>1, AgedOK
<1>4. /\ Aged(s.decision, Undecided) \in [v : {"none"} \cup Bad,
                                          left : 0..ChallengeTtl \cup 0..BlockTtl]
      /\ Aged(s.decision, Undecided).v \in {"none", s.decision.v}
  <2>1. CASE s.decision.left = 0
    BY <1>1, <2>1 DEF Aged, Undecided
  <2>2. CASE s.decision.left # 0
    <3>1. s.decision.left - 1 \in 0..ChallengeTtl \cup 0..BlockTtl
      BY <1>1, <2>2
    <3>2. QED
      BY <1>1, <2>2, <3>1 DEF Aged
  <2>3. QED
    BY <2>1, <2>2
<1>5. Remembered(s.events) \in {e \in Seq(Event) : Len(e) <= Recent}
  BY <1>1, RememberedOK
<1>6. QED
  BY <1>2, <1>3, <1>4, <1>5 DEF Older, Client, Unmarked

LEMMA TrackedOK ==
    ASSUME NEW s \in Client, NEW path \in Paths
    PROVE  /\ Tracked(s, path) \in Client
           /\ Tracked(s, path).decision = s.decision
           /\ Unmarked(s) => Unmarked(Tracked(s, path))
<1> USE Naturals
<1> DEFINE x == [age |-> 0, path |-> path]
           l == <<x>> \o s.events
           n == Smaller(Len(s.events) + 1, Recent)
<1>1. s.events \in Seq(Event) /\ Len(s.events) \in Nat /\ x \in Event
  BY LenProperties DEF Client, Event
<1>2. <<x>> \in Seq(Event) /\ Len(<<x>>) = 1
  BY <1>1
<1>3. l \in Seq(Event) /\ Len(l) = 1 + Len(s.events)
  BY <1>1, <1>2, ConcatProperties
<1>4. n \in Nat /\ n <= Len(l) /\ n <= Recent
  <2>1. Len(s.events) + 1 \in Nat
    BY <1>1
  <2>2. QED
    BY <1>3, <2>1 DEF Smaller
<1> HIDE DEF l, n
<1>5. SubSeq(l, 1, n) \in Seq(Event) /\ Len(SubSeq(l, 1, n)) = n
  <2>1. \A i \in 1..n : l[i] \in Event
    BY <1>3, <1>4, ElementOfSeq
  <2>2. /\ SubSeq(l, 1, n) \in Seq(Event)
        /\ Len(SubSeq(l, 1, n)) = IF 1 <= n THEN n - 1 + 1 ELSE 0
    BY <2>1, <1>4, SubSeqProperties
  <2>3. QED
    BY <2>2, <1>4
<1>6. s.hits.v \in Nat
  BY DEF Client, Lasting
<1>7. [v |-> Smaller(s.hits.v + 1, BurstHits + 1), left |-> Window]
        \in Lasting(0..BurstHits + 1, Window)
  <2>1. s.hits.v + 1 \in Nat /\ BurstHits + 1 \in Nat
    BY <1>6
  <2>2. QED
    BY <2>1 DEF Lasting, Smaller
<1>8. Tracked(s, path) = [s EXCEPT !.events = SubSeq(l, 1, n),
             !.hits = [v |-> Smaller(s.hits.v + 1, BurstHits + 1), left |-> Window]]
  BY DEF Tracked, l, n, Client
<1>9. QED
  BY <1>4, <1>5, <1>7, <1>8 DEF Client, Unmarked

LEMMA CountedOK ==
    ASSUME NEW s \in Client
    PROVE  /\ Counted(s) \in Client
           /\ Counted(s).decision = s.decision
           /\ Unmarked(s) => Unmarked(Counted(s))
<1> USE Naturals
<1>1. s.count.v \in Nat
  BY DEF Client, Lasting
<1>2. NextCount(s) \in 0..BurstMax + 1
  BY <1>1 DEF NextCount, Smaller
<1>3. [v |-> NextCount(s), left |-> CountLife] \in Lasting(0..BurstMax + 1, CountLife)
  BY <1>2 DEF Lasting
<1>4. [v |-> 1, left |-> CountLife] \in Lasting({0, 1}, CountLife)
  BY DEF Lasting
<1>5. QED
  BY <1>3, <1>4 DEF Counted, Client, Unmarked

LEMMA AnalyzedOK ==
    ASSUME NEW c \in Clients, NEW s \in Client
    PROVE  /\ Analyzed(c, s) \in Client
           /\ Analyzed(c, s).decision = s.decision
           /\ Unmarked(s) => Unmarked(Analyzed(c, s))
BY CountedOK DEF Analyzed

LEMMA JudgedOK ==
    ASSUME NEW s \in Client, NEW action \in Actions
    PROVE  /\ Judged(s, action) \in Client
           /\ action \notin Bad => (Unmarked(s) => Unmarked(Judged(s, action)))
<1> USE Naturals
<1>1. s.reputation.v \in Nat /\ s.history.v \in Nat
  <2>1. s.reputation \in Lasting(0..100, Forget) /\ s.history \in Lasting(0..PenaltyCap, Forget)
    BY DEF Client
  <2>2. QED
    BY <2>1 DEF Lasting
<1>2. [v |-> Smaller(s.reputation.v + 10, 100), left |-> Forget] \in Lasting(0..100, Forget)
  <2>1. s.reputation.v + 10 \in Nat /\ 100 \in Nat
    BY <1>1
  <2>2. QED
    BY <2>1 DEF Lasting, Smaller
<1>3. [v |-> Smaller(s.history.v + Penalty, PenaltyCap), left |-> Forget]
        \in Lasting(0..PenaltyCap, Forget)
  <2>1. s.history.v + Penalty \in Nat
    BY <1>1
  <2>2. QED
    BY <2>1 DEF Lasting, Smaller
<1>4. Marked(s) \in Client
  BY <1>2, <1>3 DEF Marked, Client
<1>5. /\ [v |-> "block", left |-> BlockTtl]
            \in [v : {"none"} \cup Bad, left : 0..ChallengeTtl \cup 0..BlockTtl]
      /\ [v |-> "challenge", left |-> ChallengeTtl]
            \in [v : {"none"} \cup Bad, left : 0..ChallengeTtl \cup 0..BlockTtl]
      /\ Undecided \in [v : {"none"} \cup Bad, left : 0..ChallengeTtl \cup 0..BlockTtl]
  BY DEF Bad, Undecided
<1>6. CASE action = "block"
  BY <1>4, <1>5, <1>6 DEF Judged, Client, Bad
<1>7. CASE action = "challenge"
  BY <1>4, <1>5, <1>7 DEF Judged, Client, Bad
<1>8. CASE action \notin Bad
  <2>1. Judged(s, action) = [s EXCEPT !.decision = Undecided]
    BY <1>8 DEF Judged, Bad
  <2>2. Judged(s, action) \in Client
    BY <1>5, <2>1 DEF Client
  <2>3. Unmarked(s) => Unmarked(Judged(s, action))
    BY <2>1 DEF Client, Unmarked, Undecided
  <2>4. QED
    BY <2>2, <2>3
<1>9. QED
  BY <1>6, <1>7, <1>8 DEF Bad

\* Without an anomaly and without a past, a score is at most 35.
LEMMA ScoreOfUnmarked ==
    ASSUME NEW s \in Client, Unmarked(s)
    PROVE  Decide(Score(s, {})) \notin Bad
<1>1. VolumeScore(s.hits.v) \in 0..35
  BY DEF VolumeScore
<1>2. AnomalyScore({}) = 0
  BY DEF AnomalyScore, Points
<1>3. (3 * s.history.v) \div 10 = 0
  BY DEF Unmarked
<1>4. Score(s, {}) \in 0..35
  BY <1>1, <1>2, <1>3 DEF Score, Smaller, Unmarked
<1>5. QED
  BY <1>4, Naturals DEF Decide, Bad

-----------------------------------------------------------------------------
(* The steps. *)

LEMMA InitIInv == BrainInit => IInv
<1> SUFFICES ASSUME BrainInit PROVE IInv
  OBVIOUS
<1>1. BrainTypeOK
  BY StrangerOK, Naturals DEF BrainInit, BrainTypeOK, Actions
<1>2. QED
  BY <1>1, StrangerOK DEF BrainInit, IInv, Bad

LEMMA CachedKeeps ==
    ASSUME IInv, NEW c \in Clients, NEW path \in Paths, Cached(c, path)
    PROVE  IInv'
<1> DEFINE s == Tracked(store[c], path)
<1>1. /\ s \in Client /\ s.decision = store[c].decision
      /\ Unmarked(store[c]) => Unmarked(s)
  BY TrackedOK DEF IInv, BrainTypeOK
<1>2. s.decision.v \in Bad
  BY DEF Cached
<1> HIDE DEF s
<1>3. /\ store' = [store EXCEPT ![c] = s]
      /\ verdict' = [verdict EXCEPT ![c] = s.decision.v]
      /\ quiet' = [quiet EXCEPT ![c] = 0]
      /\ UNCHANGED <<disk, persists, stale, whitelist, flagged>>
  BY DEF Cached, Answer, s
<1>4. BrainTypeOK'
  BY <1>1, <1>2, <1>3, Naturals DEF IInv, BrainTypeOK, Actions
<1>5. c \in flagged
  BY <1>1, <1>2 DEF IInv, Unmarked, Bad
<1>6. QED
  BY <1>3, <1>4, <1>5 DEF IInv, BrainTypeOK

LEMMA JudgeKeeps ==
    ASSUME IInv, NEW c \in Clients, NEW path \in Paths, Judge(c, path)
    PROVE  IInv'
<1> DEFINE s     == Tracked(store[c], path)
           first == Signals(c, s)
           s1    == Analyzed(c, s)
           found == IF first = {} THEN Signals(c, s1) ELSE first
           s2    == IF first = {} THEN Analyzed(c, s1) ELSE s1
           action == Decide(Score(s2, found))
           s3    == Judged(s2, action)
<1>1. s \in Client /\ (Unmarked(store[c]) => Unmarked(s))
  BY TrackedOK DEF IInv, BrainTypeOK
<1>2. s1 \in Client /\ (Unmarked(s) => Unmarked(s1))
  BY <1>1, AnalyzedOK
<1>3. s2 \in Client /\ (Unmarked(s) => Unmarked(s2))
  BY <1>2, AnalyzedOK
<1>4. action \in Actions
  BY DEF Decide, Actions, Bad
<1>5. s3 \in Client /\ (action \notin Bad => (Unmarked(s2) => Unmarked(s3)))
  BY <1>3, <1>4, JudgedOK
<1>6. found = {} /\ Unmarked(s2) => action \notin Bad
  BY <1>3, ScoreOfUnmarked
<1>7. /\ store' = [store EXCEPT ![c] = s3]
      /\ flagged' = IF found = {} THEN flagged ELSE flagged \cup {c}
      /\ verdict' = [verdict EXCEPT ![c] = action]
      /\ quiet' = [quiet EXCEPT ![c] = 0]
      /\ UNCHANGED <<persists, whitelist>>
      /\ (disk' = store' /\ stale' = 0) \/ UNCHANGED <<disk, stale>>
  BY DEF Judge, Answer, MaybePersist
<1> HIDE DEF s, first, s1, found, s2, action, s3
<1>8. BrainTypeOK'
  BY <1>4, <1>5, <1>7, Naturals DEF IInv, BrainTypeOK
<1>9. c \notin flagged' => c \notin flagged /\ action \notin Bad /\ Unmarked(s3)
  BY <1>1, <1>3, <1>5, <1>6, <1>7 DEF IInv
<1>10. ASSUME NEW d \in Clients, d \notin flagged'
       PROVE  verdict'[d] \notin Bad /\ Unmarked(store'[d]) /\ Unmarked(disk'[d])
  <2>1. d \notin flagged
    BY <1>7, <1>10
  <2>2. verdict'[d] \notin Bad /\ Unmarked(store'[d])
    BY <1>7, <1>9, <1>10, <2>1 DEF IInv, BrainTypeOK
  <2>3. Unmarked(disk'[d])
    BY <1>7, <2>1, <2>2 DEF IInv
  <2>4. QED
    BY <2>2, <2>3
<1>11. QED
  BY <1>8, <1>10 DEF IInv, Unmarked

LEMMA RestartKeeps == ASSUME IInv, Restart PROVE IInv'
<1>1. /\ store' \in [Clients -> Client]
      /\ \A c \in Clients : c \notin flagged => Unmarked(store'[c])
  BY StrangerOK DEF IInv, BrainTypeOK, Restart
<1>2. UNCHANGED <<disk, persists, verdict, flagged, quiet>> /\ stale' = 0
      /\ whitelist' \subseteq Clients
  BY DEF Restart
<1>3. BrainTypeOK'
  BY <1>1, <1>2, Naturals DEF IInv, BrainTypeOK
<1>4. QED
  BY <1>1, <1>2, <1>3 DEF IInv, Unmarked

LEMMA TickKeeps == ASSUME IInv, BrainTick PROVE IInv'
<1>1. \A c \in Clients : /\ Older(store[c]) \in Client /\ Older(disk[c]) \in Client
                         /\ Unmarked(store[c]) => Unmarked(Older(store[c]))
                         /\ Unmarked(disk[c]) => Unmarked(Older(disk[c]))
  BY OlderOK DEF IInv, BrainTypeOK
<1>2. /\ store' = [c \in Clients |-> Older(store[c])]
      /\ disk' = [c \in Clients |-> Older(disk[c])]
      /\ stale' = Smaller(stale + 1, PersistInterval + 1)
      /\ quiet' = [c \in Clients |-> Smaller(quiet[c] + 1, Forget + 1)]
      /\ UNCHANGED <<persists, whitelist, verdict, flagged>>
  BY DEF BrainTick
<1>3. stale' \in 0..PersistInterval + 1
  BY <1>2, Naturals DEF IInv, BrainTypeOK, Smaller
<1>4. \A c \in Clients : Smaller(quiet[c] + 1, Forget + 1) \in 0..Forget + 1
  BY Naturals DEF IInv, BrainTypeOK, Smaller
<1>5. BrainTypeOK'
  BY <1>1, <1>2, <1>3, <1>4 DEF IInv, BrainTypeOK
<1>6. QED
  BY <1>1, <1>2, <1>5 DEF IInv, Unmarked

-----------------------------------------------------------------------------
(* The theorems. *)

LEMMA StutterKeeps == ASSUME IInv, UNCHANGED brainVars PROVE IInv'
BY DEF IInv, BrainTypeOK, Unmarked, brainVars

\* The inductive invariant: a client nobody flagged carries no mark, in memory or on
\* disk (brain/).
THEOREM MarksAreEarned == BrainSpec => []IInv
<1>1. IInv /\ [BrainNext]_brainVars => IInv'
  <2> SUFFICES ASSUME IInv, [BrainNext]_brainVars PROVE IInv'
    OBVIOUS
  <2>1. CASE BrainTick
    BY <2>1, TickKeeps
  <2>2. CASE Restart
    BY <2>2, RestartKeeps
  <2>3. CASE \E c \in Clients : Process(c)
    BY <2>3, CachedKeeps, JudgeKeeps DEF Process
  <2>4. CASE UNCHANGED brainVars
    BY <2>4, StutterKeeps
  <2>5. QED
    BY <2>1, <2>2, <2>3, <2>4 DEF BrainNext
<1>2. QED
  BY InitIInv, <1>1, PTL DEF BrainSpec

\* Every value the store holds is of its kind, and every count within its cap.
THEOREM StoreTyped == BrainSpec => []BrainTypeOK
<1>1. IInv => BrainTypeOK
  BY DEF IInv
<1>2. QED
  BY <1>1, MarksAreEarned, PTL

\* A challenge or a block takes an anomaly (brain_v2.py:62-75).
THEOREM ChallengesAreEarned == BrainSpec => []ChallengeIsEarned
<1>1. IInv => ChallengeIsEarned
  BY DEF IInv, ChallengeIsEarned
<1>2. QED
  BY <1>1, MarksAreEarned, PTL

-----------------------------------------------------------------------------
(* Silence. *)

\* Nothing the store keeps of a client outlives its marks, which stay a day (behavior_tracker.py:36,
\* 75; the rest at most an hour).
ForgetLasts == /\ Window <= Forget /\ CountLife <= Forget /\ EventSpan <= Forget
               /\ ChallengeTtl <= Forget /\ BlockTtl <= Forget

\* One request is no anomaly and no volume.
OneIsHarmless == /\ 1 <= BurstHits /\ 2 <= BurstMax /\ 1 < ScrapeMin /\ 1 < LoopLength
                 /\ VolumeScore(1) < RateLimit

\* An entry of a client that has been quiet for q seconds, gone by Forget.
Passing(x, gone, q) == x # gone => x.left + q <= Forget

Fading(s, q) ==
    /\ Passing(s.hits, Gone, q) /\ Passing(s.stamp, Gone, q) /\ Passing(s.count, Gone, q)
    /\ Passing(s.reputation, Gone, q) /\ Passing(s.history, Gone, q)
    /\ Passing(s.decision, Undecided, q)
    /\ \A i \in DOMAIN s.events : q <= s.events[i].age
    /\ s.events # << >> => q <= Forget

FInv == IInv /\ \A c \in Clients : Fading(store[c], quiet[c]) /\ Fading(disk[c], quiet[c])

LEMMA FreshFades ==
    ASSUME ForgetLasts, NEW s \in Client
    PROVE  Fading(s, 0)
<1> USE Naturals
<1>1. /\ s.events \in Seq(Event)
      /\ s.hits \in Lasting(0..BurstHits + 1, Window)
      /\ s.stamp \in Lasting({0, 1}, CountLife)
      /\ s.count \in Lasting(0..BurstMax + 1, CountLife)
      /\ s.reputation \in Lasting(0..100, Forget)
      /\ s.history \in Lasting(0..PenaltyCap, Forget)
      /\ s.decision.left \in 0..ChallengeTtl \cup 0..BlockTtl
  BY DEF Client
<1>2. \A V, life, x : life \in Nat /\ life <= Forget /\ x \in Lasting(V, life) => x.left + 0 <= Forget
  BY DEF Lasting
<1>3. /\ Passing(s.hits, Gone, 0) /\ Passing(s.stamp, Gone, 0) /\ Passing(s.count, Gone, 0)
      /\ Passing(s.reputation, Gone, 0) /\ Passing(s.history, Gone, 0)
  BY <1>1, <1>2 DEF Passing, ForgetLasts
<1>4. Passing(s.decision, Undecided, 0)
  BY <1>1 DEF Passing, ForgetLasts
<1>5. \A i \in DOMAIN s.events : 0 <= s.events[i].age
  <2>1. SUFFICES ASSUME NEW i \in DOMAIN s.events PROVE 0 <= s.events[i].age
    OBVIOUS
  <2>2. s.events[i] \in Event
    BY <1>1, ElementOfSeq
  <2>3. QED
    BY <2>2 DEF Event
<1>6. QED
  BY <1>3, <1>4, <1>5 DEF Fading

LEMMA StrangerFades == \A q : Fading(Stranger, q)
BY DEF Fading, Passing, Stranger

LEMMA AgedFades ==
    ASSUME NEW x, x.left \in Nat, NEW gone, NEW q \in Nat, Passing(x, gone, q),
           gone.left = 0, NEW r \in Nat, r <= q + 1
    PROVE  Passing(Aged(x, gone), gone, r)
<1>1. CASE x.left = 0
  BY <1>1 DEF Passing, Aged
<1>2. CASE x.left # 0
  <2>1. x.left + q <= Forget
    BY <1>2 DEF Passing
  <2>2. Aged(x, gone) = [x EXCEPT !.left = x.left - 1]
    BY <1>2 DEF Aged
  <2>3. ASSUME NEW k, k = x.left - 1 PROVE k + r <= Forget
    BY <2>1, <2>3, Naturals
  <2>4. QED
    BY <2>2, <2>3 DEF Passing
<1>3. QED
  BY <1>1, <1>2

LEMMA EventsFade ==
    ASSUME ForgetLasts, NEW e \in Seq(Event), NEW q \in Nat, NEW r \in Nat, r <= q + 1,
           \A i \in DOMAIN e : q <= e[i].age
    PROVE  /\ \A i \in DOMAIN Remembered(e) : r <= Remembered(e)[i].age
           /\ Remembered(e) # << >> => r <= Forget
<1>1. Len(e) \in Nat /\ DOMAIN e = 1..Len(e) /\ \A i \in 1..Len(e) : e[i] \in Event
  BY ElementOfSeq
<1>2. PICK n \in 0..Len(e) :
              /\ Remembered(e) = [i \in 1..n |-> [e[i] EXCEPT !.age = @ + 1]]
              /\ n > 0 => \E i \in 1..Len(e) : e[i].age < EventSpan - 1
  BY RememberedShape
<1>3. ASSUME NEW i \in 1..n PROVE r <= Remembered(e)[i].age
  <2>1. i \in 1..Len(e) /\ e[i] \in Event /\ q <= e[i].age
    BY <1>1
  <2>2. e[i].age \in Nat /\ [e[i] EXCEPT !.age = @ + 1].age = e[i].age + 1
    BY <2>1 DEF Event
  <2>3. Remembered(e)[i].age = e[i].age + 1
    BY <1>2, <2>2
  <2>4. QED
    BY <2>1, <2>2, <2>3
<1>4. DOMAIN Remembered(e) = 1..n
  BY <1>2
<1>5. n > 0 => r <= Forget
  <2>1. SUFFICES ASSUME n > 0 PROVE r <= Forget
    OBVIOUS
  <2>2. PICK i \in 1..Len(e) : e[i].age < EventSpan - 1
    BY <1>2, <2>1
  <2>3. e[i].age \in Nat /\ q <= e[i].age
    BY <1>1 DEF Event
  <2>4. QED
    BY <2>2, <2>3, Naturals DEF ForgetLasts
<1>6. n = 0 => Remembered(e) = << >>
  <2>1. n = 0 => 1..n = {}
    OBVIOUS
  <2>2. QED
    BY <1>2, <2>1
<1>7. QED
  BY <1>1, <1>3, <1>4, <1>5, <1>6

LEMMA ClientLeft ==
    ASSUME NEW s \in Client
    PROVE  /\ s.events \in Seq(Event)
           /\ s.hits.left \in Nat /\ s.stamp.left \in Nat /\ s.count.left \in Nat
           /\ s.reputation.left \in Nat /\ s.history.left \in Nat /\ s.decision.left \in Nat
<1> USE Naturals
<1>1. \A V, life, x : life \in Nat /\ x \in Lasting(V, life) => x.left \in Nat
  BY DEF Lasting
<1>2. /\ s.hits \in Lasting(0..BurstHits + 1, Window)
      /\ s.stamp \in Lasting({0, 1}, CountLife)
      /\ s.count \in Lasting(0..BurstMax + 1, CountLife)
      /\ s.reputation \in Lasting(0..100, Forget)
      /\ s.history \in Lasting(0..PenaltyCap, Forget)
      /\ s.decision.left \in 0..ChallengeTtl \cup 0..BlockTtl
      /\ s.events \in Seq(Event)
  BY DEF Client
<1>3. /\ s.hits.left \in Nat /\ s.stamp.left \in Nat /\ s.count.left \in Nat
      /\ s.reputation.left \in Nat /\ s.history.left \in Nat
  BY <1>1, <1>2
<1>4. s.decision.left \in Nat
  BY <1>2
<1>5. QED
  BY <1>2, <1>3, <1>4

LEMMA OlderFades ==
    ASSUME ForgetLasts, NEW s \in Client, NEW q \in Nat, Fading(s, q),
           NEW r \in Nat, r <= q + 1
    PROVE  Fading(Older(s), r)
<1> USE Naturals
<1>1. /\ s.events \in Seq(Event)
      /\ s.hits.left \in Nat /\ s.stamp.left \in Nat /\ s.count.left \in Nat
      /\ s.reputation.left \in Nat /\ s.history.left \in Nat /\ s.decision.left \in Nat
  BY ClientLeft
<1>2. Gone.left = 0 /\ Undecided.left = 0
  BY DEF Gone, Undecided
<1>3. /\ Passing(Aged(s.hits, Gone), Gone, r)
      /\ Passing(Aged(s.stamp, Gone), Gone, r)
      /\ Passing(Aged(s.count, Gone), Gone, r)
  BY <1>1, <1>2, AgedFades DEF Fading
<1>4. /\ Passing(Aged(s.reputation, Gone), Gone, r)
      /\ Passing(Aged(s.history, Gone), Gone, r)
      /\ Passing(Aged(s.decision, Undecided), Undecided, r)
  BY <1>1, <1>2, AgedFades DEF Fading
<1>5. /\ \A i \in DOMAIN Remembered(s.events) : r <= Remembered(s.events)[i].age
      /\ Remembered(s.events) # << >> => r <= Forget
  BY <1>1, EventsFade DEF Fading
<1>6. QED
  BY <1>3, <1>4, <1>5 DEF Older, Fading

LEMMA InitFades == BrainInit => FInv
BY InitIInv, StrangerFades DEF BrainInit, FInv

\* What a request leaves of its client is at most as old as the request.
LEMMA ProcessFades ==
    ASSUME ForgetLasts, FInv, IInv', NEW c \in Clients, Process(c)
    PROVE  FInv'
<1>1. /\ store' = [store EXCEPT ![c] = store'[c]]
      /\ quiet' = [quiet EXCEPT ![c] = 0]
      /\ disk' = disk \/ disk' = store'
  BY DEF Process, Cached, Judge, Answer, MaybePersist, FInv, IInv, BrainTypeOK
<1>2. /\ store \in [Clients -> Client] /\ quiet \in [Clients -> 0..Forget + 1]
      /\ \A d \in Clients : disk[d] \in Client /\ store'[d] \in Client /\ disk'[d] \in Client
  BY DEF FInv, IInv, BrainTypeOK
<1>3. \A d \in Clients : d # c => quiet'[d] = quiet[d] /\ store'[d] = store[d]
  BY <1>1, <1>2
<1>4. quiet'[c] = 0
  BY <1>1, <1>2
<1>5. \A d \in Clients : d # c =>
         Fading(store'[d], quiet'[d]) /\ Fading(disk'[d], quiet'[d])
  BY <1>1, <1>3 DEF FInv
<1>6. Fading(store'[c], 0) /\ Fading(disk'[c], 0)
  BY <1>2, FreshFades
<1>7. \A d \in Clients : Fading(store'[d], quiet'[d]) /\ Fading(disk'[d], quiet'[d])
  BY <1>4, <1>5, <1>6
<1>8. QED
  BY <1>7 DEF FInv, Fading, Passing

LEMMA TickFades ==
    ASSUME ForgetLasts, FInv, IInv', BrainTick
    PROVE  FInv'
<1>1. /\ store' = [c \in Clients |-> Older(store[c])]
      /\ disk' = [c \in Clients |-> Older(disk[c])]
      /\ quiet' = [c \in Clients |-> Smaller(quiet[c] + 1, Forget + 1)]
  BY DEF BrainTick
<1>2. ASSUME NEW c \in Clients
      PROVE  Fading(store'[c], quiet'[c]) /\ Fading(disk'[c], quiet'[c])
  <2>1. store[c] \in Client /\ disk[c] \in Client /\ quiet[c] \in 0..Forget + 1
    BY DEF FInv, IInv, BrainTypeOK
  <2>2. quiet[c] \in Nat /\ quiet'[c] \in Nat /\ quiet'[c] <= quiet[c] + 1
    BY <1>1, <2>1, Naturals DEF Smaller
  <2>3. Fading(store[c], quiet[c]) /\ Fading(disk[c], quiet[c])
    BY DEF FInv
  <2>4. Fading(Older(store[c]), quiet'[c]) /\ Fading(Older(disk[c]), quiet'[c])
    BY <2>1, <2>2, <2>3, OlderFades
  <2>5. QED
    BY <1>1, <2>4
<1>3. QED
  BY <1>2 DEF FInv, Fading, Passing

LEMMA RestartFades == ASSUME FInv, IInv', Restart PROVE FInv'
<1>1. quiet' = quiet /\ disk' = disk
  BY DEF Restart
<1>2. \A c \in Clients : Fading(store'[c], quiet[c])
  BY StrangerFades DEF Restart, FInv
<1>3. \A c \in Clients : Fading(disk'[c], quiet[c])
  BY <1>1 DEF FInv
<1>4. QED
  BY <1>1, <1>2, <1>3 DEF FInv, Fading, Passing

LEMMA StepFades == ASSUME ForgetLasts, FInv, IInv', [BrainNext]_brainVars PROVE FInv'
<1>1. CASE UNCHANGED brainVars
  BY <1>1 DEF brainVars, FInv, Fading, Passing
<1>2. QED
  BY <1>1, TickFades, RestartFades, ProcessFades DEF BrainNext

\* Nothing is left of a client that was quiet for longer than Forget.
LEMMA QuietIsForgotten ==
    ASSUME FInv, NEW c \in Clients, quiet[c] > Forget
    PROVE  store[c] = Stranger
<1>1. store[c] \in Client /\ quiet[c] \in 0..Forget + 1 /\ Fading(store[c], quiet[c])
  BY DEF FInv, IInv, BrainTypeOK
<1>2. \A x, gone : x.left \in Nat /\ Passing(x, gone, quiet[c]) => x = gone
  BY <1>1, Naturals DEF Passing
<1>3. /\ store[c].hits.left \in Nat /\ store[c].stamp.left \in Nat
      /\ store[c].count.left \in Nat /\ store[c].reputation.left \in Nat
      /\ store[c].history.left \in Nat /\ store[c].decision.left \in Nat
  BY <1>1, ClientLeft
<1>4. /\ store[c].hits = Gone /\ store[c].stamp = Gone /\ store[c].count = Gone
      /\ store[c].reputation = Gone /\ store[c].history = Gone
      /\ store[c].decision = Undecided
  BY <1>1, <1>2, <1>3 DEF Fading
<1>5. store[c].events = << >>
  BY <1>1, Naturals DEF Fading
<1>6. QED
  BY <1>1, <1>4, <1>5 DEF Client, Stranger

LEMMA FirstTracked ==
    ASSUME NEW path \in Paths
    PROVE  LET s == Tracked(Stranger, path) IN
           /\ Len(s.events) = 1
           /\ s.hits.v = 1 /\ s.stamp = Gone /\ s.count = Gone
           /\ s.reputation = Gone /\ s.history = Gone /\ s.decision = Undecided
<1> DEFINE x == [age |-> 0, path |-> path]
           l == <<x>> \o << >>
           n == Smaller(Len(<< >>) + 1, Recent)
<1>1. l = <<x>> /\ n = 1
  BY Naturals DEF Smaller
<1> DEFINE e == SubSeq(l, 1, n)
           h == [v |-> Smaller(0 + 1, BurstHits + 1), left |-> Window]
           s == Tracked(Stranger, path)
<1>2. Len(e) = 1
  BY <1>1
<1>3. h.v = 1
  BY Naturals DEF Smaller
<1>4. s = [Stranger EXCEPT !.events = e, !.hits = h]
  BY DEF Tracked, Stranger, Gone
<1> HIDE DEF e, h, s
<1>5. /\ s.events = e /\ s.hits = h /\ s.stamp = Gone /\ s.count = Gone
      /\ s.reputation = Gone /\ s.history = Gone /\ s.decision = Undecided
  BY <1>4 DEF Stranger
<1>6. QED
  BY <1>2, <1>3, <1>5 DEF s

\* One event and one hit show no anomaly, at the first analysis and at the second.
LEMMA FirstIsClean ==
    ASSUME OneIsHarmless, NEW c \in Clients, NEW s \in Client, Len(s.events) = 1,
           s.hits.v = 1, s.stamp = Gone, s.count = Gone
    PROVE  /\ Signals(c, s) = {}
           /\ Signals(c, Analyzed(c, s)) = {}
<1> USE Naturals
<1>1. /\ ScrapeMin \in Nat /\ LoopLength \in Nat
      /\ 1 <= BurstHits /\ 2 <= BurstMax /\ 1 < ScrapeMin /\ 1 < LoopLength
  BY BrainAssumption DEF OneIsHarmless
<1>2. \A r : Len(r.events) = 1 => ~Scraping(r) /\ ~Loop(r) /\ ~FastRefresh(r)
  BY <1>1 DEF Scraping, Loop, FastRefresh
<1>3. ~Burst(s)
  BY <1>1 DEF Burst, LastWithin
<1>4. NextCount(s) = 1
  BY <1>1 DEF NextCount, LastWithin, Smaller
<1>5. Counted(s) = [s EXCEPT !.count = [v |-> 1, left |-> CountLife],
                             !.stamp = [v |-> 1, left |-> CountLife]]
  BY <1>1, <1>3, <1>4 DEF Counted
<1>6. /\ Counted(s).events = s.events /\ Counted(s).hits = s.hits
      /\ Counted(s).count.v = 1
  BY <1>5 DEF Client
<1>7. NextCount(Counted(s)) \in {1, 2}
  BY <1>1, <1>6 DEF NextCount, Smaller
<1>8. ~Burst(Counted(s))
  BY <1>1, <1>6, <1>7 DEF Burst
<1>9. QED
  BY <1>2, <1>3, <1>6, <1>8 DEF Signals, Analyzed

LEMMA FirstIsAllowed ==
    ASSUME OneIsHarmless, NEW s, s.hits.v = 1, s.reputation = Gone, s.history = Gone
    PROVE  Decide(Score(s, {})) = "allow"
<1>1. VolumeScore(1) \in 0..35
  BY DEF VolumeScore
<1>2. AnomalyScore({}) = 0
  BY DEF AnomalyScore, Points
<1>3. (3 * s.history.v) \div 10 = 0 /\ s.reputation.v = 0
  BY DEF Gone
<1>4. ASSUME NEW v \in 0..35, v = VolumeScore(1) PROVE Score(s, {}) = v
  BY <1>2, <1>3, <1>4 DEF Score, Smaller
<1>5. Score(s, {}) = VolumeScore(1)
  BY <1>1, <1>4
<1>6. QED
  BY <1>1, <1>5, BrainAssumption DEF Decide, OneIsHarmless

\* Whatever a client did, its first request after Forget seconds of silence is allowed,
\* restarts in between included, when nothing is kept for longer and one request is
\* below every threshold (behavior_tracker.py:72-75, risk_scoring.py:55-58).
THEOREM SilenceIsForgiven == ForgetLasts /\ OneIsHarmless => (BrainSpec => SilenceForgives)
<1>1. ASSUME OneIsHarmless, FInv, IInv', [BrainNext]_brainVars
      PROVE  [\A c \in Clients : quiet[c] > Forget /\ quiet'[c] = 0
                => verdict'[c] = "allow"]_brainVars
  <2>1. SUFFICES ASSUME BrainNext, NEW c \in Clients, quiet[c] > Forget, quiet'[c] = 0
                 PROVE  verdict'[c] = "allow"
    BY <1>1
  <2>2. quiet \in [Clients -> 0..Forget + 1] /\ verdict \in [Clients -> Actions]
        /\ store[c] = Stranger /\ Stranger \in Client
    BY <1>1, <2>1, QuietIsForgotten, StrangerOK DEF FInv, IInv, BrainTypeOK
  <2>3. ~BrainTick /\ ~Restart
    BY <2>1, <2>2, Naturals DEF BrainTick, Restart, Smaller
  <2>4. PICK d \in Clients : Process(d)
    BY <2>1, <2>3 DEF BrainNext
  <2>5. d = c
    BY <2>1, <2>2, <2>4, Naturals DEF Process, Cached, Judge, Answer
  <2>6. PICK path \in Paths : Cached(c, path) \/ Judge(c, path)
    BY <2>4, <2>5 DEF Process
  <2> DEFINE s == Tracked(Stranger, path)
  <2>7. /\ s \in Client /\ Len(s.events) = 1
        /\ s.hits.v = 1 /\ s.stamp = Gone /\ s.count = Gone
        /\ s.reputation = Gone /\ s.history = Gone /\ s.decision = Undecided
    BY <2>2, FirstTracked, TrackedOK
  <2> DEFINE s1 == Analyzed(c, s)
             s2 == Analyzed(c, s1)
  <2>8. Signals(c, s) = {} /\ Signals(c, s1) = {}
    BY <1>1, <2>7, FirstIsClean
  <2>9. /\ s1.hits = s.hits /\ s1.reputation = s.reputation /\ s1.history = s.history
        /\ s2.hits = s.hits /\ s2.reputation = s.reputation /\ s2.history = s.history
    <3>1. s1 \in Client
      BY <2>7, AnalyzedOK
    <3>2. \A r \in Client : /\ Analyzed(c, r).hits = r.hits
                            /\ Analyzed(c, r).reputation = r.reputation
                            /\ Analyzed(c, r).history = r.history
      BY DEF Analyzed, Counted, Client
    <3>3. QED
      BY <2>7, <3>1, <3>2
  <2>10. Judge(c, path)
    BY <2>2, <2>6, <2>7 DEF Cached, Bad, Undecided
  <2>11. verdict' = [verdict EXCEPT ![c] = Decide(Score(s2, {}))]
    BY <2>2, <2>8, <2>10 DEF Judge, Answer
  <2>12. Decide(Score(s2, {})) = "allow"
    BY <1>1, <2>7, <2>9, FirstIsAllowed
  <2>13. QED
    BY <2>2, <2>11, <2>12
<1>2. SUFFICES ASSUME ForgetLasts, OneIsHarmless PROVE BrainSpec => SilenceForgives
  OBVIOUS
<1>3. FInv /\ IInv' /\ [BrainNext]_brainVars => FInv'
  BY <1>2, StepFades
<1>4. QED
  BY <1>1, <1>2, <1>3, InitFades, MarksAreEarned, PTL DEF BrainSpec, SilenceForgives
=============================================================================
