---------------------------- MODULE PostgresKeys ----------------------------
(***************************************************************************)
(* The table keys of database/postgres_db.py under the operations of       *)
(* keys.py when SUPABASE_ENABLED is set.  Every statement is a transaction *)
(* of its own (autocommit, a connection each): get_key reads a row, and    *)
(* update_key writes some of its columns later, if the row is still there. *)
(* Processes and their threads interleave between the two.  A failed       *)
(* statement is logged and the handler goes on; a failed get_key makes the *)
(* operation answer that there is no such key.                             *)
(*                                                                         *)
(* database.save does nothing in this mode: no operation writes table ips. *)
(* Left out: label, used_at, used_by_ips and created_at, only displayed.   *)
(***************************************************************************)
EXTENDS Integers, FiniteSets

CONSTANTS
    Codes,          \* codes secrets.token_hex can return
    Ips,            \* client addresses
    ValidIps,       \* those is_valid_ip accepts
    Threads,        \* of the bot, the panel and the API
    Durations,      \* durations a key is generated with
    DeviceCounts,   \* max_devices arguments, 0 included
    Deltas,         \* what an extend or a reduce moves a duration by
    Horizon,        \* bound on durations
    Faults,         \* may statements fail and handlers die?
    NoKey, None

ASSUME IpsAssumption == IsFiniteSet(Ips) /\ ValidIps \subseteq Ips
ASSUME NumbersAssumption ==
    /\ Durations \subseteq Nat
    /\ DeviceCounts \subseteq Nat
    /\ Deltas \subseteq Int
    /\ Horizon \in Nat
    /\ Faults \in BOOLEAN

VARIABLES
    table,      \* keys: the row of each code
    issued,     \* codes generate_key has drawn, or that were there before
    pc, job,    \* where each thread is, and its arguments and locals
    expected    \* history: what the answers given so far make of a key

vars == <<table, issued, pc, job, expected>>

-----------------------------------------------------------------------------
Columns == {"duration", "status", "active", "locked"}
Row == [max_devices : Nat, duration : Nat, status : {"active", "used"},
        active : SUBSET Ips, locked : SUBSET Ips]
ASSUME NoKeyAssumption == NoKey \notin Row
Table == [Codes -> Row \cup {NoKey}]

\* add_key: unlike keys.json, max_devices is stored as it comes
NewRow(d, n) == [max_devices |-> n, duration |-> d, status |-> "active",
                 active |-> {}, locked |-> {}]

\* migrate_from_local: keys.json's addresses go to both lists, its used keys are "used"
Migrated == {r \in [max_devices : DeviceCounts, duration : Durations, status : {"used"},
                    active : (SUBSET Ips) \ {{}}, locked : SUBSET Ips] :
                 r.active = r.locked /\ Cardinality(r.locked) <= r.max_devices}

Known(c) == table[c] # NoKey

HasRoom(held, n, ip) == ip \in held \/ Cardinality(held) < n

\* What redeem_key checks before it changes anything.
Redeemable(r, ip) ==
    /\ r.status = "active"
    /\ ip \in ValidIps
    /\ r.locked = {} \/ HasRoom(r.locked, r.max_devices, ip)
    /\ HasRoom(r.active, r.max_devices, ip)

Retimed(duration, d) == IF duration + d < 0 THEN 0 ELSE duration + d

Redeemed(r, ip) == [r EXCEPT !.active = @ \cup {ip}, !.locked = @ \cup {ip}]
WithoutIp(r, ip) == [r EXCEPT !.active = @ \ {ip}, !.locked = @ \ {ip}, !.status = "active"]

\* The addresses stay locked.
Refreshed(r) == [r EXCEPT !.active = {}, !.status = "active"]

\* The row after UPDATE keys SET columns
BugWholeRow(r, columns, new) == new
Written(r, columns, new) ==
    [max_devices |-> r.max_devices,
     duration |-> IF "duration" \in columns THEN new.duration ELSE r.duration,
     status   |-> IF "status" \in columns THEN new.status ELSE r.status,
     active   |-> IF "active" \in columns THEN new.active ELSE r.active,
     locked   |-> IF "locked" \in columns THEN new.locked ELSE r.locked]

-----------------------------------------------------------------------------
(* A thread between get_key and update_key *)

Ops == {"redeem", "remove", "modify", "refresh"}
Job == [op : Ops \cup {None}, code : Codes \cup {None}, ip : Ips \cup {None}, delta : Int,
        columns : SUBSET Columns, new : Row \cup {NoKey}, stale : SUBSET Columns]
NoJob == [op |-> None, code |-> None, ip |-> None, delta |-> 0, columns |-> {}, new |-> NoKey,
          stale |-> {}]

Blank == [duration |-> 0, holders |-> {}]

Done(t) ==
    /\ pc' = [pc EXCEPT ![t] = "idle"]
    /\ job' = [job EXCEPT ![t] = NoJob]

\* get_key(code) found this row; update_key will set these columns as in new.
Start(t, j) ==
    /\ pc[t] = "idle"
    /\ pc' = [pc EXCEPT ![t] = "update"]
    /\ job' = [job EXCEPT ![t] = j]
    /\ UNCHANGED <<table, issued, expected>>

Task(op, c, ip, d, columns, new) ==
    [op |-> op, code |-> c, ip |-> ip, delta |-> d, columns |-> columns, new |-> new,
     stale |-> {}]

Lists == {"active", "locked"}

RedeemKey(t) ==
    \E c \in Codes, ip \in Ips :
        /\ Known(c)
        /\ Redeemable(table[c], ip)
        /\ Start(t, Task("redeem", c, ip, 0, Lists, Redeemed(table[c], ip)))

BugStaysUsed(t) ==
    \E c \in Codes, ip \in Ips :
        /\ Known(c)
        /\ Start(t, Task("remove", c, ip, 0, Lists, WithoutIp(table[c], ip)))

\* With the last address gone the key is "active" again.
RemoveIp(t) ==
    \E c \in Codes, ip \in Ips :
        /\ Known(c)
        /\ Start(t, Task("remove", c, ip, 0,
                         IF table[c].active \ {ip} = {} THEN Lists \cup {"status"} ELSE Lists,
                         WithoutIp(table[c], ip)))

ModifyKeyDuration(t) ==
    \E c \in Codes, d \in Deltas :
        /\ Known(c)
        /\ table[c].duration + d <= Horizon
        /\ Start(t, Task("modify", c, None, d, {"duration"},
                         [table[c] EXCEPT !.duration = Retimed(@, d)]))

RefreshKey(t) ==
    \E c \in Codes :
        /\ Known(c)
        /\ Start(t, Task("refresh", c, None, 0, {"active", "status"}, Refreshed(table[c])))

\* What the answer to a job makes of a key; no one can tell for columns that another
\* update set after this one's get_key.
Answered(e, j, r) ==
    [duration |-> CASE "duration" \in j.stale -> r.duration
                    [] j.op = "modify" /\ "duration" \notin j.stale -> Retimed(e.duration, j.delta)
                    [] OTHER -> e.duration,
     holders |-> CASE "locked" \in j.stale -> r.locked
                   [] j.op = "redeem" /\ "locked" \notin j.stale -> e.holders \cup {j.ip}
                   [] j.op = "remove" /\ "locked" \notin j.stale -> e.holders \ {j.ip}
                   [] OTHER -> e.holders]

\* The update of thread t is done; what others are about to write is now out of date.
Answer(t) ==
    LET c == job[t].code IN
    /\ pc' = [pc EXCEPT ![t] = "idle"]
    /\ job' = [u \in Threads |->
                  IF u = t THEN NoJob
                  ELSE IF job[u].code = c
                  THEN [job[u] EXCEPT !.stale = @ \cup (job[u].columns \cap job[t].columns)]
                  ELSE job[u]]
    /\ expected' = IF Known(c) THEN [expected EXCEPT ![c] = Answered(@, job[t], table'[c])]
                   ELSE expected

BugUpsert(t) ==
    LET j == job[t] IN
    /\ pc[t] = "update"
    /\ table' = [table EXCEPT ![j.code] = IF @ = NoKey THEN j.new ELSE Written(@, j.columns, j.new)]
    /\ Answer(t)
    /\ UNCHANGED issued

UpdateKey(t) ==
    LET j == job[t] IN
    /\ pc[t] = "update"
    /\ table' = [table EXCEPT ![j.code] = IF @ = NoKey THEN NoKey ELSE Written(@, j.columns, j.new)]
    /\ Answer(t)
    /\ UNCHANGED issued

\* update_key returns False, which no one looks at: the answer is the same.
UpdateKeyFails(t) ==
    /\ Faults
    /\ pc[t] = "update"
    /\ Done(t)
    /\ UNCHANGED <<table, issued, expected>>

-----------------------------------------------------------------------------
(* Operations of one statement *)

\* The code is answered even if the INSERT failed.
GenerateKey ==
    \E c \in Codes \ issued, d \in Durations, n \in DeviceCounts :
        /\ issued' = issued \cup {c}
        /\ \/ /\ table' = [table EXCEPT ![c] = NewRow(d, n)]
              /\ expected' = [expected EXCEPT ![c] = [duration |-> d, holders |-> {}]]
           \/ /\ Faults
              /\ UNCHANGED <<table, expected>>
        /\ UNCHANGED <<pc, job>>

DeleteKey ==
    \E c \in Codes :
        /\ table' = [table EXCEPT ![c] = NoKey]
        /\ expected' = [expected EXCEPT ![c] = Blank]
        /\ UNCHANGED <<issued, pc, job>>

\* The process of a thread is killed.
Abort(t) ==
    /\ Faults
    /\ pc[t] = "update"
    /\ Done(t)
    /\ UNCHANGED <<table, issued, expected>>

Init ==
    /\ table \in [Codes -> Migrated \cup {NoKey}]
    /\ issued = {c \in Codes : Known(c)}
    /\ pc = [t \in Threads |-> "idle"]
    /\ job = [t \in Threads |-> NoJob]
    /\ expected = [c \in Codes |-> IF Known(c)
                                   THEN [duration |-> table[c].duration, holders |-> table[c].locked]
                                   ELSE Blank]

Begin(t) == RedeemKey(t) \/ RemoveIp(t) \/ ModifyKeyDuration(t) \/ RefreshKey(t)

Next ==
    \/ \E t \in Threads : Begin(t) \/ UpdateKey(t) \/ UpdateKeyFails(t) \/ Abort(t)
    \/ GenerateKey
    \/ DeleteKey

Spec == Init /\ [][Next]_vars

-----------------------------------------------------------------------------
TypeOK ==
    /\ table \in Table
    /\ issued \subseteq Codes
    /\ pc \in [Threads -> {"idle", "update"}]
    /\ job \in [Threads -> Job]
    /\ expected \in [Codes -> [duration : Nat, holders : SUBSET Ips]]

\* However the operations interleave and whichever statements fail, the addresses using
\* a key are among those it is locked to, and no key is stuck: one that is "used", which
\* redeem_key refuses, has addresses left, and removing them all makes it redeemable
\* again (keys.py:73, 94-98, 184-190, 250-254).
RowsSound == \A c \in Codes : Known(c) =>
    /\ table[c].active \subseteq table[c].locked
    /\ table[c].status = "used" => table[c].active # {}

\* A key is what the answers given about it say, but for updates that failed and those
\* whose columns another update set in between: a redeem during an extension loses
\* neither (keys.py:94-98, 229, 250-254).
AnswersKept == \A c \in Codes : Known(c) =>
    table[c].duration = expected[c].duration /\ table[c].locked = expected[c].holders

L == INSTANCE License WITH
        Limits <- DeviceCounts,
        licence <- [c \in Codes |->
            IF Known(c)
            THEN [stage |-> "valid", limit |-> table[c].max_devices, holders |-> table[c].locked]
            ELSE [stage |-> IF c \in issued THEN "withdrawn" ELSE "unissued",
                  limit |-> 0, holders |-> {}]]

\* Under any interleaving, with failures, a key stays a licence: locked to no more
\* addresses than the number it was made with, and once deleted it never comes back,
\* since what an operation still writes finds no row (keys.py:79-98, 272-274,
\* postgres_db.py:301).
KeysStayLicences == L!LooseSpec
=============================================================================
