----------------------------- MODULE KeyLedger -----------------------------
(***************************************************************************)
(* The two JSON files behind every access decision, keys.json and          *)
(* ips.json, and the handlers that rewrite them: keys.py, the /api, /bulk  *)
(* and /login commands of bot_control.py, bulk_ops.py, the key routes of   *)
(* website/app.py and the scheduler's cleanup task (file mode, SUPABASE    *)
(* off).                                                                   *)
(*                                                                         *)
(* A handler loads a whole file, changes its own copy, and writes the      *)
(* whole copy back.  The module locks cover the write alone, and the bot,  *)
(* the scheduler and every web request are threads of different processes, *)
(* so a handler is several steps: one that loads and changes the copy      *)
(* (keysSeen, ipsSeen), and one that writes it.  A redeem does this for    *)
(* keys.json and then for ips.json; an admin command loads ips.json first, *)
(* rewrites the keys of the addresses it touches, then writes ips.json.    *)
(*                                                                         *)
(* Left out: label, created_at, used_at, used_by_ip and device_index,      *)
(* which only displays read; keys of type "fps" (no handler here reaches   *)
(* them: _normalize prefixes every code with TILINX-).                     *)
(***************************************************************************)
EXTENDS Integers, FiniteSets

CONSTANTS
    Codes,          \* codes secrets.token_hex can return
    Ips,            \* client addresses, as the handlers receive them
    ValidIps,       \* those is_valid_ip accepts
    Threads,        \* bot poller, scheduler task, web request threads
    Jobs,           \* the operations a run exercises
    Durations,      \* durations a key is generated with
    DeviceCounts,   \* max_devices arguments, 0 included
    Deltas,         \* seconds an extend or a reduce moves a duration by
    LastTick,       \* bound on the clock
    Horizon,        \* bound on the durations and expiry times an operation starts from
    Aborts,         \* may a handler die between two of its steps?
    SaveErrors,     \* may database.save fail (it swallows the exception)?
    NoKey, NoEntry, NoCode, NoIp

ASSUME IpsAssumption == IsFiniteSet(Ips) /\ ValidIps \subseteq Ips /\ NoIp \notin Ips
ASSUME CodesAssumption == NoCode \notin Codes
ASSUME NumbersAssumption ==
    /\ Durations \subseteq Nat
    /\ DeviceCounts \subseteq Nat
    /\ Deltas \subseteq Int
    /\ LastTick \in Nat
    /\ Horizon \in Nat
    /\ Aborts \in BOOLEAN
    /\ SaveErrors \in BOOLEAN

VARIABLES
    keys,       \* keys.json
    ips,        \* ips.json
    now,        \* time.time()
    issued,     \* codes generate_key has drawn
    pc,         \* where each thread is in its handler
    job,        \* the handler's arguments and locals
    keysSeen,   \* each thread's copy of keys.json
    ipsSeen,    \* each thread's copy of ips.json
    granted,    \* history: the <<code, ip>> pairs a redeem has written to keys.json
    promise     \* history: the expiry each address was last told by an "OK" redeem

disk  == <<keys, ips>>
local == <<pc, job, keysSeen, ipsSeen>>
vars  == <<keys, ips, now, issued, pc, job, keysSeen, ipsSeen, granted, promise>>

-----------------------------------------------------------------------------
(* keys.json and its records *)

Key == [duration : Nat, max_devices : Nat \ {0}, used : BOOLEAN,
        active : SUBSET Ips, locked : SUBSET Ips]
KeyTable == [Codes -> Key \cup {NoKey}]
NoKeys == [c \in Codes |-> NoKey]

\* generate_key clamps max_devices: max(max_devices, 1)
BugNoClamp(d, n) == [duration |-> d, max_devices |-> n,
                     used |-> FALSE, active |-> {}, locked |-> {}]
NewKey(d, n) == [duration |-> d, max_devices |-> IF n >= 1 THEN n ELSE 1,
                 used |-> FALSE, active |-> {}, locked |-> {}]

\* An address already on the list is let through even when the list is full.
BugOffByOneRoom(held, k, ip) == ip \in held \/ Cardinality(held) <= k.max_devices
HasRoom(held, k, ip) == ip \in held \/ Cardinality(held) < k.max_devices
LockAllows(k, ip)    == k.locked = {} \/ HasRoom(k.locked, k, ip)
DeviceAllows(k, ip)  == HasRoom(k.active, k, ip)

\* The checks that precede the first assignment of redeem_key: INVALID,
\* INVALID_IP, IP_LOCKED and DEVICE_LIMIT.
Redeemable(K, c, ip) ==
    /\ K[c] # NoKey
    /\ ip \in ValidIps
    /\ LockAllows(K[c], ip)
    /\ DeviceAllows(K[c], ip)

Redeemed(k, ip) == [k EXCEPT !.used = TRUE,
                             !.active = @ \cup {ip},
                             !.locked = @ \cup {ip}]

BugKeepLock(k, ip) == [k EXCEPT !.active = @ \ {ip},
                                !.used = IF k.active \ {ip} = {} THEN FALSE ELSE @]
BugKeepUsed(k, ip) == [k EXCEPT !.active = @ \ {ip}, !.locked = @ \ {ip}]
WithoutIp(k, ip) == [k EXCEPT !.active = @ \ {ip},
                              !.locked = @ \ {ip},
                              !.used = IF k.active \ {ip} = {} THEN FALSE ELSE @]

Retimed(k, d) == [k EXCEPT !.duration = IF @ + d < 0 THEN 0 ELSE @ + d]

Refreshed(k) == [k EXCEPT !.used = FALSE]

-----------------------------------------------------------------------------
(* ips.json and its records; expires_at = 0 is a permanent entry *)

Entry == [status : {"active", "blocked", "expired"}, expires_at : Int,
          key_used : Codes \cup {NoCode}]
IpTable == [Ips -> Entry \cup {NoEntry}]
NoIps == [ip \in Ips |-> NoEntry]

ASSUME AbsenceAssumption == NoKey \notin Key /\ NoEntry \notin Entry

ActiveEntry(expiry, c) ==
    [status |-> "active", expires_at |-> expiry, key_used |-> c]

\* What the proxy and get_auth_status grant.
IsActive(ip) ==
    /\ ips[ip] # NoEntry
    /\ ips[ip].status = "active"
    /\ ips[ip].expires_at = 0 \/ ips[ip].expires_at > now

\* The entries _run_cleanup_expired marks.
BugDueEarly(I) == {ip \in Ips : /\ I[ip] # NoEntry
                                /\ I[ip].status = "active"
                                /\ I[ip].expires_at > 0}
Due(I) == {ip \in Ips : /\ I[ip] # NoEntry
                        /\ I[ip].status = "active"
                        /\ I[ip].expires_at > 0
                        /\ I[ip].expires_at <= now}

-----------------------------------------------------------------------------
(* A thread's place in its handler *)

Phases == {"idle", "save_keys", "open_ips", "shift", "ips"}
Ops == {"none", "generate", "redeem", "revoke", "modify", "refresh", "delete",
        "remove", "extend", "set_status", "add", "cleanup"}

\* code, ip: the key and the address at hand; n: a redeem's duration or an
\* extend's days; todo: addresses whose key has still to be rewritten.
Job == [op : Ops, code : Codes \cup {NoCode}, ip : Ips \cup {NoIp},
        n : Int, todo : SUBSET Ips]
NoJob == [op |-> "none", code |-> NoCode, ip |-> NoIp, n |-> 0, todo |-> {}]

Idle(t) == pc[t] = "idle"
Goes(t, phase, j) == /\ pc' = [pc EXCEPT ![t] = phase]
                     /\ job' = [job EXCEPT ![t] = j]
Done(t) == /\ Goes(t, "idle", NoJob)
           /\ keysSeen' = [keysSeen EXCEPT ![t] = NoKeys]
           /\ ipsSeen' = [ipsSeen EXCEPT ![t] = NoIps]

\* keys = _load(); the handler's change to its copy of the one key c
EditKey(t, c, k) ==
    keysSeen' = [keysSeen EXCEPT ![t] = [keys EXCEPT ![c] = k]]

StartKeyJob(t, op, c, k) ==
    /\ Idle(t)
    /\ op \in Jobs
    /\ EditKey(t, c, k)
    /\ Goes(t, "save_keys", [NoJob EXCEPT !.op = op, !.code = c])
    /\ UNCHANGED <<disk, now, ipsSeen, granted, promise>>

-----------------------------------------------------------------------------
(* Operations on keys.json alone *)

BugReuseCode(t) ==
    \E c \in Codes, d \in Durations, n \in DeviceCounts :
        /\ keys[c] = NoKey
        /\ StartKeyJob(t, "generate", c, NewKey(d, n))
        /\ issued' = issued \cup {c}
GenerateKey(t) ==
    \E c \in Codes \ issued, d \in Durations, n \in DeviceCounts :
        /\ StartKeyJob(t, "generate", c, NewKey(d, n))
        /\ issued' = issued \cup {c}

\* POST /api/keys/<code>/revoke-ip: remove_ip_from_key, ips.json is not touched
RevokeIp(t) ==
    \E c \in Codes, ip \in Ips :
        /\ keys[c] # NoKey
        /\ StartKeyJob(t, "revoke", c, WithoutIp(keys[c], ip))
        /\ UNCHANGED issued

\* POST /api/keys/<code>/extend: modify_key_duration
ModifyKeyDuration(t) ==
    \E c \in Codes, d \in Deltas :
        /\ keys[c] # NoKey
        /\ keys[c].duration + d <= Horizon
        /\ StartKeyJob(t, "modify", c, Retimed(keys[c], d))
        /\ UNCHANGED issued

RefreshKey(t) ==
    \E c \in Codes :
        /\ keys[c] # NoKey
        /\ StartKeyJob(t, "refresh", c, Refreshed(keys[c]))
        /\ UNCHANGED issued

DeleteKey(t) ==
    \E c \in Codes :
        /\ keys[c] # NoKey
        /\ StartKeyJob(t, "delete", c, NoKey)
        /\ UNCHANGED issued

\* _save(keys).  What the handler does next depends on the operation.
BugForgetIps(op) == CASE op = "redeem" -> "open_ips"
                      [] op = "extend" -> "shift"
                      [] OTHER -> "idle"
AfterSaveKeys(op) == CASE op = "redeem" -> "open_ips"
                       [] op = "extend" -> "shift"
                       [] op = "remove" -> "ips"
                       [] OTHER -> "idle"

SaveKeys(t) ==
    /\ pc[t] = "save_keys"
    /\ keys' = keysSeen[t]
    /\ granted' = IF job[t].op = "redeem"
                  THEN granted \cup {<<job[t].code, job[t].ip>>} ELSE granted
    /\ IF AfterSaveKeys(job[t].op) = "idle"
       THEN Done(t)
       ELSE /\ Goes(t, AfterSaveKeys(job[t].op), job[t])
            /\ keysSeen' = [keysSeen EXCEPT ![t] = NoKeys]
            /\ UNCHANGED ipsSeen
    /\ UNCHANGED <<ips, now, issued, promise>>

-----------------------------------------------------------------------------
(* redeem_key: first the key, then the address *)

BugActivateFirst(t) ==
    \E c \in Codes, ip \in Ips :
        /\ Idle(t)
        /\ "redeem" \in Jobs
        /\ Redeemable(keys, c, ip)
        /\ Goes(t, "open_ips", [op |-> "redeem", code |-> c, ip |-> ip,
                                n |-> keys[c].duration, todo |-> {}])
        /\ UNCHANGED <<disk, now, issued, keysSeen, ipsSeen, granted, promise>>

RedeemKey(t) ==
    \E c \in Codes, ip \in Ips :
        /\ Idle(t)
        /\ "redeem" \in Jobs
        /\ Redeemable(keys, c, ip)
        /\ EditKey(t, c, Redeemed(keys[c], ip))
        /\ Goes(t, "save_keys", [op |-> "redeem", code |-> c, ip |-> ip,
                                 n |-> keys[c].duration, todo |-> {}])
        /\ UNCHANGED <<disk, now, issued, ipsSeen, granted, promise>>

\* db = load(); db[ip] = {...}
ActivateIp(t) ==
    LET j == job[t] IN
    /\ pc[t] = "open_ips"
    /\ ipsSeen' = [ipsSeen EXCEPT ![t] =
                      [ips EXCEPT ![j.ip] = ActiveEntry(now + j.n, j.code)]]
    /\ Goes(t, "ips", j)
    /\ UNCHANGED <<disk, now, issued, keysSeen, granted, promise>>

-----------------------------------------------------------------------------
(* Operations that start from ips.json *)

StartIpJob(t, op, j, I) ==
    /\ Idle(t)
    /\ op \in Jobs
    /\ ipsSeen' = [ipsSeen EXCEPT ![t] = I]
    /\ Goes(t, "ips", j)
    /\ UNCHANGED <<disk, now, issued, keysSeen, granted>>

\* An administrator's decision about these addresses ends what a redeem promised.
Overrule(S) == promise' = [ip \in Ips |-> IF ip \in S THEN 0 ELSE promise[ip]]

\* /bulk remove IP...: the keys are rewritten one by one, then ips.json is
\* written, even if no address was known.  /api remove IP is the case of one
\* known address.
RemoveIps(t) ==
    \E S \in (SUBSET Ips) \ {{}} :
        /\ StartIpJob(t, "remove", [NoJob EXCEPT !.op = "remove",
                                      !.todo = {ip \in S : ips[ip] # NoEntry}], ips)
        /\ Overrule(S)

\* One address of a remove: remove_ip_from_key, then del db[ip].
RemoveOne(t) ==
    \E ip \in job[t].todo :
        LET c == ipsSeen[t][ip].key_used
            j == [job[t] EXCEPT !.todo = @ \ {ip}, !.code = c, !.ip = ip] IN
        /\ pc[t] = "ips"
        /\ job[t].op = "remove"
        /\ ipsSeen' = [ipsSeen EXCEPT ![t][ip] = NoEntry]
        /\ \/ /\ c \in Codes
              /\ keys[c] # NoKey
              /\ EditKey(t, c, WithoutIp(keys[c], ip))
              /\ Goes(t, "save_keys", j)
           \/ /\ c \in Codes => keys[c] = NoKey
              /\ Goes(t, "ips", j)
              /\ UNCHANGED keysSeen
        /\ UNCHANGED <<disk, now, issued, granted, promise>>

\* /api extend IP days (days > 0) and /api reduce IP days (days < 0)
ExtendIp(t) ==
    \E ip \in Ips, d \in Deltas :
        /\ ips[ip] # NoEntry
        /\ ips[ip].expires_at + d <= Horizon
        /\ \A c \in Codes : keys[c] # NoKey => keys[c].duration + d <= Horizon
        /\ StartIpJob(t, "extend", [NoJob EXCEPT !.op = "extend",
                                      !.n = d, !.todo = {ip}], ips)
        /\ IF d < 0 THEN Overrule({ip}) ELSE UNCHANGED promise

\* modify_key_duration of the entry's key, if there is one
ExtendOne(t) ==
    \E ip \in job[t].todo :
        LET c == ipsSeen[t][ip].key_used
            j == [job[t] EXCEPT !.code = c] IN
        /\ pc[t] = "ips"
        /\ job[t].op = "extend"
        /\ \/ /\ c \in Codes
              /\ keys[c] # NoKey
              /\ EditKey(t, c, Retimed(keys[c], j.n))
              /\ Goes(t, "save_keys", j)
           \/ /\ c \in Codes => keys[c] = NoKey
              /\ Goes(t, "shift", j)
              /\ UNCHANGED keysSeen
        /\ UNCHANGED <<disk, now, issued, ipsSeen, granted, promise>>

\* current_exp + days, or max(current_exp - days, time.time()); 0 stays 0
Shifted(e, d) ==
    IF e.expires_at = 0 THEN e
    ELSE [e EXCEPT !.expires_at = IF d > 0 \/ @ + d >= now THEN @ + d ELSE now]

ShiftExpiry(t) ==
    \E ip \in job[t].todo :
        /\ pc[t] = "shift"
        /\ ipsSeen' = [ipsSeen EXCEPT ![t][ip] = Shifted(@, job[t].n)]
        /\ Goes(t, "ips", [job[t] EXCEPT !.todo = {}])
        /\ UNCHANGED <<disk, now, issued, keysSeen, granted, promise>>

\* /bulk block, /bulk unblock, and /api block, /api unblock of one known address
SetStatus(t) ==
    \E S \in (SUBSET Ips) \ {{}}, status \in {"blocked", "active"} :
        LET I == [ip \in Ips |-> IF ip \in S /\ ips[ip] # NoEntry
                                 THEN [ips[ip] EXCEPT !.status = status] ELSE ips[ip]] IN
        /\ StartIpJob(t, "set_status", [NoJob EXCEPT !.op = "set_status"], I)
        /\ Overrule(S)

\* /bulk add IP...: permanent entries without a key; known addresses are skipped
AddIps(t) ==
    \E S \in (SUBSET Ips) \ {{}} :
        LET I == [ip \in Ips |-> IF ip \in S /\ ips[ip] = NoEntry
                                 THEN ActiveEntry(0, NoCode) ELSE ips[ip]] IN
        /\ StartIpJob(t, "add", [NoJob EXCEPT !.op = "add"], I)
        /\ UNCHANGED promise

\* The scheduler's cleanup_expired task
CleanupExpired(t) ==
    LET I == [ip \in Ips |-> IF ip \in Due(ips)
                             THEN [ips[ip] EXCEPT !.status = "expired"] ELSE ips[ip]] IN
    /\ Due(ips) # {}
    /\ StartIpJob(t, "cleanup", [NoJob EXCEPT !.op = "cleanup"], I)
    /\ UNCHANGED promise

\* save(db) and the handler's reply; an "OK" tells the address its expiry
Reply(t) ==
    promise' = IF job[t].op = "redeem"
               THEN [promise EXCEPT ![job[t].ip] = ipsSeen[t][job[t].ip].expires_at]
               ELSE promise

ReadyToSaveIps(t) == pc[t] = "ips" /\ job[t].todo = {}

SaveIps(t) ==
    /\ ReadyToSaveIps(t)
    /\ ips' = ipsSeen[t]
    /\ Reply(t)
    /\ Done(t)
    /\ UNCHANGED <<keys, now, issued, granted>>

\* database.save logs the exception and returns: the handler replies as usual
SaveIpsFails(t) ==
    /\ SaveErrors
    /\ ReadyToSaveIps(t)
    /\ Reply(t)
    /\ Done(t)
    /\ UNCHANGED <<disk, now, issued, granted>>

-----------------------------------------------------------------------------
(* The process is killed, or keys._save raises: nothing more is written *)
Abort(t) ==
    /\ Aborts
    /\ ~Idle(t)
    /\ Done(t)
    /\ UNCHANGED <<disk, now, issued, granted, promise>>

Tick ==
    /\ now < LastTick
    /\ now' = now + 1
    /\ UNCHANGED <<disk, local, issued, granted, promise>>

Init ==
    /\ keys = NoKeys
    /\ ips = NoIps
    /\ now = 1
    /\ issued = {}
    /\ pc = [t \in Threads |-> "idle"]
    /\ job = [t \in Threads |-> NoJob]
    /\ keysSeen = [t \in Threads |-> NoKeys]
    /\ ipsSeen = [t \in Threads |-> NoIps]
    /\ granted = {}
    /\ promise = [ip \in Ips |-> 0]

KeyStep(t) ==
    \/ GenerateKey(t) \/ RevokeIp(t) \/ ModifyKeyDuration(t)
    \/ RefreshKey(t) \/ DeleteKey(t) \/ RedeemKey(t) \/ SaveKeys(t)

IpStep(t) ==
    \/ ActivateIp(t) \/ RemoveIps(t) \/ RemoveOne(t) \/ ExtendIp(t)
    \/ ExtendOne(t) \/ ShiftExpiry(t) \/ SetStatus(t) \/ AddIps(t) \/ CleanupExpired(t)
    \/ SaveIps(t) \/ SaveIpsFails(t)

Next == Tick \/ \E t \in Threads : KeyStep(t) \/ IpStep(t) \/ Abort(t)

Spec == Init /\ [][Next]_vars

-----------------------------------------------------------------------------
TypeOK ==
    /\ keys \in KeyTable
    /\ ips \in IpTable
    /\ now \in Nat
    /\ issued \subseteq Codes
    /\ pc \in [Threads -> Phases]
    /\ job \in [Threads -> Job]
    /\ keysSeen \in [Threads -> KeyTable]
    /\ ipsSeen \in [Threads -> IpTable]
    /\ granted \subseteq Codes \X Ips
    /\ promise \in [Ips -> Int]

Known(c) == keys[c] # NoKey

\* However the handlers interleave and wherever they die, no key in keys.json
\* ever lists more addresses than its max_devices: a redeem's check and the list
\* it writes come from one copy of the file (keys.py:110-136).
KeyBound == \A c \in Codes : Known(c) =>
    Cardinality(keys[c].active) <= keys[c].max_devices

\* The two lists of a key never drift apart, so IP_LOCKED always answers before
\* DEVICE_LIMIT can (keys.py:116-123, 195-198).
LockedIsActive == \A c \in Codes : Known(c) => keys[c].locked = keys[c].active

\* A key marked used has an address on its list: remove_ip_from_key resets the
\* mark with the last one (keys.py:199-201), the panel shows it as free again.
UsedKeyHasHolder == \A c \in Codes : Known(c) /\ keys[c].used => keys[c].active # {}

\* An entry of ips.json naming a key is there because that key was first written
\* to keys.json with that address (the order of keys.py:136 and 146).
GrantBacked == \A ip \in Ips :
    ips[ip] # NoEntry /\ ips[ip].key_used \in Codes
        => <<ips[ip].key_used, ip>> \in granted

\* An address that was told "OK" is admitted until the expiry it was told, unless
\* an administrator removes, reduces or changes its status (bot_control.py:871,
\* tests/test_all.py:180-184).
ActivatedStaysActive == \A ip \in Ips : promise[ip] > now => IsActive(ip)

\* The addresses admitted on a key at one time are at most its max_devices
\* ("Dispositivos simult\'aneos", website/templates/admin.html:431).
SimultaneousDevices == \A c \in Codes : Known(c) =>
    Cardinality({ip \in Ips : IsActive(ip) /\ ips[ip].key_used = c})
        <= keys[c].max_devices

\* An entry of ips.json whose key still exists is on that key's list, except while
\* a remove is between its two files (bot_control.py:293-297).
EntryHeldByKey == \A ip \in Ips :
    LET c == ips[ip].key_used IN
    ips[ip] # NoEntry /\ c \in Codes /\ Known(c)
        => ip \in keys[c].active \/ \E t \in Threads : job[t].op = "remove"

-----------------------------------------------------------------------------
(* keys.json as a licence.  A drawn code whose first write was lost counts as *)
(* withdrawn: it will never be drawn again.                                   *)
Generating(c) == \E t \in Threads : job[t].op = "generate" /\ job[t].code = c

Limits == {NewKey(0, n).max_devices : n \in DeviceCounts}

L == INSTANCE License WITH
        licence <- [c \in Codes |->
            IF Known(c)
            THEN [stage |-> "valid", limit |-> keys[c].max_devices,
                  holders |-> keys[c].active]
            ELSE [stage |-> IF c \in issued /\ ~Generating(c)
                            THEN "withdrawn" ELSE "unissued",
                  limit |-> 0, holders |-> {}]]

\* With one writer at a time, handlers that die included, keys.json behaves as a
\* licence: keys change hands one address at a time, within the limit, and a
\* deleted code stays deleted.
KeysAreLicences == L!Spec
=============================================================================
