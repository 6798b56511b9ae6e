------------------------- MODULE PostgresKeysProofs -------------------------
(***************************************************************************)
(* In the database a key stays a licence and keeps what its answers say,   *)
(* for any number of codes, addresses and threads, with failing statements *)
(* and dying handlers.  The invariant says what a thread about to write    *)
(* holds: a row with the number of devices of the one it will change, as   *)
(* good a row as that one was, and, in the columns nobody set since, the   *)
(* change it will answer.                                                  *)
(***************************************************************************)
EXTENDS PostgresKeys, FiniteSetTheorems, TLAPS

Sound(r) == r.active \subseteq r.locked /\ Cardinality(r.locked) <= r.max_devices

RowsFit == \A c \in Codes : Known(c) => c \in issued /\ Sound(table[c])

\* What the thread is about to write
Shaped(j) ==
    /\ j.op \in Ops
    /\ j.stale \subseteq j.columns
    /\ j.op = "redeem" => /\ j.columns = {"active", "locked"}
                          /\ j.ip \in Ips
                          /\ j.new.active # {}
    /\ j.op = "remove" => /\ j.columns \in {{"active", "locked"}, {"active", "locked", "status"}}
                          /\ j.ip \in Ips
                          /\ "status" \notin j.columns => j.new.active # {}
                          /\ "status" \in j.columns => j.new.status = "active"
    /\ j.op = "modify" => j.columns = {"duration"}
    /\ j.op = "refresh" => /\ j.columns = {"active", "status"}
                           /\ j.new.active = {}
                           /\ j.new.status = "active"

\* ... was made from a row of this code
Related(j) ==
    /\ j.code \in issued
    /\ j.new \in Row
    /\ Sound(j.new)
    /\ Known(j.code) => table[j.code].max_devices = j.new.max_devices

\* ... which in these columns still is as it was.
FreshFor(j, r) ==
    /\ j.op = "redeem" /\ "locked" \notin j.stale => j.new.locked = r.locked \cup {j.ip}
    /\ j.op = "remove" /\ "locked" \notin j.stale => j.new.locked = r.locked \ {j.ip}
    /\ j.op = "modify" /\ "duration" \notin j.stale
          => j.delta \in Int /\ j.new.duration = Retimed(r.duration, j.delta)

Fresh(j) == Known(j.code) => FreshFor(j, table[j.code])

JobsFit == \A t \in Threads : pc[t] = "update" =>
    Shaped(job[t]) /\ Related(job[t]) /\ Fresh(job[t])

IInv == TypeOK /\ RowsSound /\ RowsFit /\ AnswersKept /\ JobsFit

-----------------------------------------------------------------------------
LEMMA RetimedNat == ASSUME NEW n \in Nat, NEW d \in Int PROVE Retimed(n, d) \in Nat
BY DEF Retimed

\* An address that redeem_key lets through fits on the list.
LEMMA RoomForOneMore ==
    ASSUME NEW r \in Row, NEW ip \in Ips, Sound(r), Redeemable(r, ip)
    PROVE  Cardinality(r.locked \cup {ip}) <= r.max_devices
<1>1. IsFiniteSet(r.locked)
  BY IpsAssumption, FS_Subset DEF Row
<1>2. Cardinality(r.locked) \in Nat /\ r.max_devices \in Nat
  BY <1>1, FS_CardinalityType DEF Row
<1>3. CASE ip \in r.locked
  BY <1>3, r.locked \cup {ip} = r.locked DEF Sound
<1>4. CASE ip \notin r.locked
  <2>1. Cardinality(r.locked \cup {ip}) = Cardinality(r.locked) + 1
    BY <1>1, <1>4, FS_AddElement
  <2>2. Cardinality(r.locked) < r.max_devices
    <3>1. CASE r.locked = {}
      <4>1. r.active = {}
        BY <3>1 DEF Sound
      <4>2. QED
        BY <3>1, <4>1 DEF Redeemable, HasRoom
    <3>2. CASE r.locked # {}
      BY <1>4, <3>2 DEF Redeemable, HasRoom
    <3>3. QED
      BY <3>1, <3>2
  <2>3. QED
    BY <1>2, <2>1, <2>2
<1>5. QED
  BY <1>3, <1>4

LEMMA FewerFit ==
    ASSUME NEW r \in Row, Sound(r), NEW S \in SUBSET r.locked
    PROVE  Cardinality(S) <= r.max_devices
<1>1. IsFiniteSet(r.locked)
  BY IpsAssumption, FS_Subset DEF Row
<1>2. Cardinality(S) <= Cardinality(r.locked)
  BY <1>1, FS_Subset
<1>3. Cardinality(S) \in Nat /\ Cardinality(r.locked) \in Nat /\ r.max_devices \in Nat
  BY <1>1, FS_Subset, FS_CardinalityType DEF Row
<1>4. QED
  BY <1>2, <1>3 DEF Sound

-----------------------------------------------------------------------------
LEMMA InitIInv == Init => IInv
<1> SUFFICES ASSUME Init PROVE IInv
  OBVIOUS
<1>1. ASSUME NEW c \in Codes, Known(c)
      PROVE  /\ table[c] \in Row /\ Sound(table[c]) /\ table[c].active # {} /\ c \in issued
             /\ expected[c] = [duration |-> table[c].duration, holders |-> table[c].locked]
  BY <1>1, NumbersAssumption DEF Init, Migrated, Known, Row, Sound
<1>2. table \in Table
  <2>1. \A c \in Codes : table[c] \in Row \cup {NoKey}
    BY <1>1 DEF Known
  <2>2. QED
    BY <2>1 DEF Init, Table
<1>3. expected \in [Codes -> [duration : Nat, holders : SUBSET Ips]]
  BY <1>1 DEF Init, Blank, Row
<1>4. TypeOK
  BY <1>2, <1>3 DEF Init, TypeOK, Job, NoJob
<1>5. RowsSound /\ RowsFit /\ AnswersKept
  <2>1. \A c \in Codes : Known(c) =>
           /\ expected[c].duration = table[c].duration /\ expected[c].holders = table[c].locked
           /\ table[c].active \subseteq table[c].locked /\ table[c].active # {}
           /\ c \in issued /\ Sound(table[c])
    <3> SUFFICES ASSUME NEW c \in Codes, Known(c)
                 PROVE  /\ expected[c].duration = table[c].duration
                        /\ expected[c].holders = table[c].locked
                        /\ table[c].active \subseteq table[c].locked /\ table[c].active # {}
                        /\ c \in issued /\ Sound(table[c])
      OBVIOUS
    <3>1. /\ expected[c] = [duration |-> table[c].duration, holders |-> table[c].locked]
          /\ Sound(table[c]) /\ table[c].active # {} /\ c \in issued
      BY <1>1
    <3>2. QED
      BY <3>1 DEF Sound
  <2>2. QED
    BY <2>1 DEF RowsSound, RowsFit, AnswersKept
<1>6. JobsFit
  BY DEF Init, JobsFit
<1>7. QED
  BY <1>4, <1>5, <1>6 DEF IInv

-----------------------------------------------------------------------------
(* get_key *)

LEMMA StartStep ==
    ASSUME IInv, NEW t \in Threads, NEW j \in Job, Start(t, j),
           Shaped(j), Related(j), Fresh(j)
    PROVE  IInv'
<1>1. TypeOK'
  BY DEF IInv, TypeOK, Start
<1>2. (RowsSound /\ RowsFit /\ AnswersKept)'
  BY DEF IInv, Start, RowsSound, RowsFit, AnswersKept, Known, Sound
<1>3. JobsFit'
  <2>1. ASSUME NEW u \in Threads, pc'[u] = "update"
        PROVE  (Shaped(job[u]) /\ Related(job[u]) /\ Fresh(job[u]))'
    <3>1. job'[u] = j \/ (pc[u] = "update" /\ job'[u] = job[u])
      BY <2>1 DEF IInv, TypeOK, Start
    <3>2. Shaped(job'[u]) /\ Related(job'[u]) /\ Fresh(job'[u])
      BY <3>1 DEF IInv, JobsFit
    <3>3. QED
      BY <3>2 DEF Start, Shaped, Related, Fresh, Known
  <2>2. QED
    BY <2>1 DEF JobsFit
<1>4. QED
  BY <1>1, <1>2, <1>3 DEF IInv

LEMMA TaskStep ==
    ASSUME IInv, NEW t \in Threads, NEW c \in Codes, Known(c),
           NEW op \in Ops, NEW ip \in Ips \cup {None}, NEW d \in Int,
           NEW columns \in SUBSET Columns, NEW new \in Row,
           Sound(new), new.max_devices = table[c].max_devices,
           Shaped(Task(op, c, ip, d, columns, new)), Fresh(Task(op, c, ip, d, columns, new)),
           Start(t, Task(op, c, ip, d, columns, new))
    PROVE  IInv'
<1>1. Task(op, c, ip, d, columns, new) \in Job
  BY DEF Task, Job
<1>2. Related(Task(op, c, ip, d, columns, new))
  BY DEF Related, Task, IInv, RowsFit
<1>3. QED
  BY <1>1, <1>2, StartStep

LEMMA RowOf == ASSUME IInv, NEW c \in Codes, Known(c) PROVE table[c] \in Row /\ Sound(table[c])
BY DEF IInv, TypeOK, Table, Known, RowsFit

LEMMA RedeemStep == ASSUME IInv, NEW t \in Threads, RedeemKey(t) PROVE IInv'
<1>1. PICK c \in Codes, ip \in Ips :
        /\ Known(c)
        /\ Redeemable(table[c], ip)
        /\ Start(t, Task("redeem", c, ip, 0, Lists, Redeemed(table[c], ip)))
  BY DEF RedeemKey
<1> DEFINE r == table[c]
           new == Redeemed(r, ip)
<1>2. r \in Row /\ Sound(r)
  BY <1>1, RowOf
<1>3. /\ new \in Row
      /\ new.active = r.active \cup {ip}
      /\ new.locked = r.locked \cup {ip}
      /\ new.max_devices = r.max_devices
  BY <1>2 DEF Row, Redeemed
<1>4. Cardinality(r.locked \cup {ip}) <= r.max_devices
  BY <1>1, <1>2, RoomForOneMore
<1> HIDE DEF new
<1>5. Sound(new)
  BY <1>2, <1>3, <1>4 DEF Sound
<1>6. Shaped(Task("redeem", c, ip, 0, Lists, new)) /\ Fresh(Task("redeem", c, ip, 0, Lists, new))
  BY <1>3 DEF Shaped, Fresh, FreshFor, Task, Ops, Lists
<1>7. Lists \in SUBSET Columns /\ "redeem" \in Ops
  BY DEF Lists, Columns, Ops
<1>8. Start(t, Task("redeem", c, ip, 0, Lists, new))
  BY <1>1 DEF new
<1>9. QED
  BY <1>1, <1>3, <1>5, <1>6, <1>7, <1>8, TaskStep

LEMMA RemoveStep == ASSUME IInv, NEW t \in Threads, RemoveIp(t) PROVE IInv'
<1>1. PICK c \in Codes, ip \in Ips :
        /\ Known(c)
        /\ Start(t, Task("remove", c, ip, 0,
                         IF table[c].active \ {ip} = {} THEN Lists \cup {"status"} ELSE Lists,
                         WithoutIp(table[c], ip)))
  BY DEF RemoveIp
<1> DEFINE r == table[c]
           new == WithoutIp(r, ip)
           columns == IF r.active \ {ip} = {} THEN Lists \cup {"status"} ELSE Lists
<1>2. r \in Row /\ Sound(r)
  BY <1>1, RowOf
<1>3. /\ new \in Row
      /\ new.active = r.active \ {ip}
      /\ new.locked = r.locked \ {ip}
      /\ new.max_devices = r.max_devices
      /\ new.status = "active"
  BY <1>2 DEF Row, WithoutIp
<1>4. Cardinality(r.locked \ {ip}) <= r.max_devices
  BY <1>2, FewerFit
<1>5. /\ columns \in {{"active", "locked"}, {"active", "locked", "status"}}
      /\ "status" \notin columns => r.active \ {ip} # {}
  BY DEF Lists
<1> HIDE DEF new, columns
<1>6. Sound(new)
  BY <1>2, <1>3, <1>4 DEF Sound
<1>7. Shaped(Task("remove", c, ip, 0, columns, new)) /\ Fresh(Task("remove", c, ip, 0, columns, new))
  BY <1>3, <1>5 DEF Shaped, Fresh, FreshFor, Task, Ops
<1>8. columns \in SUBSET Columns /\ "remove" \in Ops
  BY <1>5 DEF Columns, Ops
<1>9. Start(t, Task("remove", c, ip, 0, columns, new))
  BY <1>1 DEF new, columns
<1>10. QED
  BY <1>1, <1>3, <1>6, <1>7, <1>8, <1>9, TaskStep

LEMMA ModifyStep == ASSUME IInv, NEW t \in Threads, ModifyKeyDuration(t) PROVE IInv'
<1>1. PICK c \in Codes, d \in Deltas :
        /\ Known(c)
        /\ Start(t, Task("modify", c, None, d, {"duration"},
                         [table[c] EXCEPT !.duration = Retimed(@, d)]))
  BY DEF ModifyKeyDuration
<1> DEFINE r == table[c]
           new == [r EXCEPT !.duration = Retimed(@, d)]
<1>2. r \in Row /\ Sound(r) /\ d \in Int
  BY <1>1, RowOf, NumbersAssumption
<1>3. Retimed(r.duration, d) \in Nat
  BY <1>2, RetimedNat DEF Row
<1>4. /\ new \in Row
      /\ new.duration = Retimed(r.duration, d)
      /\ new.active = r.active
      /\ new.locked = r.locked
      /\ new.max_devices = r.max_devices
  BY <1>2, <1>3 DEF Row
<1> HIDE DEF new
<1>5. Sound(new)
  BY <1>2, <1>4 DEF Sound
<1>6. Shaped(Task("modify", c, None, d, {"duration"}, new))
      /\ Fresh(Task("modify", c, None, d, {"duration"}, new))
  BY <1>2, <1>4 DEF Shaped, Fresh, FreshFor, Task, Ops
<1>7. {"duration"} \in SUBSET Columns /\ "modify" \in Ops
  BY DEF Columns, Ops
<1>8. Start(t, Task("modify", c, None, d, {"duration"}, new))
  BY <1>1 DEF new
<1>9. QED
  BY <1>1, <1>2, <1>4, <1>5, <1>6, <1>7, <1>8, TaskStep

LEMMA RefreshStep == ASSUME IInv, NEW t \in Threads, RefreshKey(t) PROVE IInv'
<1>1. PICK c \in Codes :
        /\ Known(c)
        /\ Start(t, Task("refresh", c, None, 0, {"active", "status"}, Refreshed(table[c])))
  BY DEF RefreshKey
<1> DEFINE r == table[c]
           new == Refreshed(r)
<1>2. r \in Row /\ Sound(r)
  BY <1>1, RowOf
<1>3. /\ new \in Row
      /\ new.active = {}
      /\ new.status = "active"
      /\ new.locked = r.locked
      /\ new.max_devices = r.max_devices
  BY <1>2 DEF Row, Refreshed
<1> HIDE DEF new
<1>4. Sound(new)
  BY <1>2, <1>3 DEF Sound
<1>5. Shaped(Task("refresh", c, None, 0, {"active", "status"}, new))
      /\ Fresh(Task("refresh", c, None, 0, {"active", "status"}, new))
  BY <1>3 DEF Shaped, Fresh, FreshFor, Task, Ops
<1>6. {"active", "status"} \in SUBSET Columns /\ "refresh" \in Ops
  BY DEF Columns, Ops
<1>7. Start(t, Task("refresh", c, None, 0, {"active", "status"}, new))
  BY <1>1 DEF new
<1>8. QED
  BY <1>1, <1>3, <1>4, <1>5, <1>6, <1>7, TaskStep

-----------------------------------------------------------------------------
(* update_key *)

\* The row that is written is as good as those it is made from.
LEMMA WrittenSound ==
    ASSUME NEW r \in Row, Sound(r), r.status = "used" => r.active # {},
           NEW j \in Job, Shaped(j), j.new \in Row, Sound(j.new),
           r.max_devices = j.new.max_devices
    PROVE  LET w == Written(r, j.columns, j.new) IN
           /\ w \in Row /\ Sound(w)
           /\ w.status = "used" => w.active # {}
           /\ w.max_devices = r.max_devices
<1> DEFINE w == Written(r, j.columns, j.new)
<1>1. /\ w.max_devices = r.max_devices
      /\ w.duration = IF "duration" \in j.columns THEN j.new.duration ELSE r.duration
      /\ w.status = IF "status" \in j.columns THEN j.new.status ELSE r.status
      /\ w.active = IF "active" \in j.columns THEN j.new.active ELSE r.active
      /\ w.locked = IF "locked" \in j.columns THEN j.new.locked ELSE r.locked
  BY DEF Written
<1>2. w \in Row
  BY DEF Written, Row
<1> HIDE DEF w
<1>3. j.op \in {"redeem", "remove"} => Sound(w) /\ (w.status = "used" => w.active # {})
  BY <1>1 DEF Shaped, Sound
<1>4. j.op = "modify" => Sound(w) /\ (w.status = "used" => w.active # {})
  BY <1>1 DEF Shaped, Sound
<1>5. j.op = "refresh" => Sound(w) /\ (w.status = "used" => w.active # {})
  BY <1>1 DEF Shaped, Sound
<1>6. Sound(w) /\ (w.status = "used" => w.active # {})
  BY <1>3, <1>4, <1>5 DEF Shaped, Ops
<1>7. QED
  BY <1>1, <1>2, <1>6 DEF w

\* It is what the answer makes of the old one.
LEMMA WrittenAnswered ==
    ASSUME NEW r \in Row, NEW e, e.duration = r.duration, e.holders = r.locked,
           NEW j \in Job, Shaped(j), j.new \in Row,
           FreshFor(j, r)
    PROVE  LET w == Written(r, j.columns, j.new) IN
           Answered(e, j, w) = [duration |-> w.duration, holders |-> w.locked]
<1> DEFINE w == Written(r, j.columns, j.new)
<1>1. /\ w.duration = IF "duration" \in j.columns THEN j.new.duration ELSE r.duration
      /\ w.locked = IF "locked" \in j.columns THEN j.new.locked ELSE r.locked
  BY DEF Written
<1> HIDE DEF w
<1> DEFINE answer == [duration |-> w.duration, holders |-> w.locked]
<1>2. j.op = "redeem" => Answered(e, j, w) = answer
  BY <1>1 DEF Shaped, FreshFor, Answered
<1>3. j.op = "remove" => Answered(e, j, w) = answer
  BY <1>1 DEF Shaped, FreshFor, Answered
<1>4. j.op = "modify" => Answered(e, j, w) = answer
  BY <1>1 DEF Shaped, FreshFor, Answered
<1>5. j.op = "refresh" => Answered(e, j, w) = answer
  BY <1>1 DEF Shaped, FreshFor, Answered
<1>6. Answered(e, j, w) = [duration |-> w.duration, holders |-> w.locked]
  BY <1>2, <1>3, <1>4, <1>5 DEF Shaped, Ops
<1>7. QED
  BY <1>6 DEF w

\* What the other threads are about to write stays right when t has written: what it
\* set is out of date for them.
LEMMA OthersFresh ==
    ASSUME IInv, NEW t \in Threads, pc[t] = "update", Known(job[t].code),
           NEW j \in Job, Shaped(j), Fresh(j), j.code = job[t].code,
           NEW k, k = [j EXCEPT !.stale = @ \cup (j.columns \cap job[t].columns)],
           NEW w, w = Written(table[j.code], job[t].columns, job[t].new)
    PROVE  FreshFor(k, w)
<1>1. /\ k.op = j.op /\ k.ip = j.ip /\ k.delta = j.delta /\ k.new = j.new
      /\ k.stale = j.stale \cup (j.columns \cap job[t].columns)
  BY DEF Job
<1>2. "locked" \notin job[t].columns => w.locked = table[j.code].locked
  BY DEF Written
<1>3. "duration" \notin job[t].columns => w.duration = table[j.code].duration
  BY DEF Written
<1>4. k.op \in {"redeem", "remove"} => "locked" \in j.columns
  BY <1>1 DEF Shaped
<1>5. k.op = "modify" => "duration" \in j.columns
  BY <1>1 DEF Shaped
<1>6. k.op \in {"redeem", "remove"} /\ "locked" \notin k.stale =>
        "locked" \notin j.stale /\ w.locked = table[j.code].locked
  BY <1>1, <1>2, <1>4
<1>7. k.op = "modify" /\ "duration" \notin k.stale =>
        "duration" \notin j.stale /\ w.duration = table[j.code].duration
  BY <1>1, <1>3, <1>5
<1>8. QED
  BY <1>1, <1>6, <1>7 DEF Fresh, FreshFor

LEMMA UpdateStep == ASSUME IInv, NEW t \in Threads, UpdateKey(t) PROVE IInv'
<1>1. pc[t] = "update" /\ job[t] \in Job /\ job[t].code \in Codes
  BY DEF UpdateKey, IInv, TypeOK, JobsFit, Related
<1>2. PICK j, c, w :
        /\ j \in Job /\ j = job[t]
        /\ c \in Codes /\ c = job[t].code
        /\ w = Written(table[c], j.columns, j.new)
  BY <1>1
<1>21. /\ table' = [table EXCEPT ![c] = IF @ = NoKey THEN NoKey ELSE w]
       /\ Answer(t)
       /\ issued' = issued
  BY <1>2 DEF UpdateKey
<1>22. /\ Shaped(j) /\ Related(j) /\ Fresh(j)
       /\ j.new \in Row /\ Sound(j.new) /\ c = j.code
  BY <1>1, <1>2 DEF IInv, TypeOK, JobsFit, Related
<1>3. /\ pc' = [pc EXCEPT ![t] = "idle"]
      /\ job' = [u \in Threads |->
                    IF u = t THEN NoJob
                    ELSE IF job[u].code = c
                    THEN [job[u] EXCEPT !.stale = @ \cup (job[u].columns \cap j.columns)]
                    ELSE job[u]]
      /\ expected' = IF Known(c) THEN [expected EXCEPT ![c] = Answered(@, j, table'[c])]
                     ELSE expected
  BY <1>2, <1>21 DEF Answer
<1>4. ASSUME Known(c)
      PROVE  /\ table[c] \in Row /\ w \in Row /\ Sound(w)
             /\ w.status = "used" => w.active # {}
             /\ w.max_devices = table[c].max_devices
             /\ Answered(expected[c], j, w) = [duration |-> w.duration, holders |-> w.locked]
  <2>1. table[c] \in Row /\ Sound(table[c])
    BY <1>2, <1>22, <1>4, RowOf
  <2>2. table[c].status = "used" => table[c].active # {}
    BY <1>2, <1>22, <1>4 DEF IInv, RowsSound
  <2>3. table[c].max_devices = j.new.max_devices
    BY <1>2, <1>22, <1>4 DEF Related
  <2>4. expected[c].duration = table[c].duration /\ expected[c].holders = table[c].locked
    BY <1>2, <1>22, <1>4 DEF IInv, AnswersKept
  <2>5. /\ w \in Row /\ Sound(w)
        /\ w.status = "used" => w.active # {}
        /\ w.max_devices = table[c].max_devices
    BY <1>2, <1>22, <2>1, <2>2, <2>3, WrittenSound
  <2>6. Answered(expected[c], j, w) = [duration |-> w.duration, holders |-> w.locked]
    BY <1>2, <1>22, <1>4, <2>1, <2>4, WrittenAnswered DEF Fresh
  <2>7. QED
    BY <2>1, <2>5, <2>6
<1>5. /\ \A d \in Codes \ {c} : table'[d] = table[d] /\ expected'[d] = expected[d]
      /\ Known(c) => table'[c] = w /\ expected'[c] = [duration |-> w.duration, holders |-> w.locked]
      /\ ~Known(c) => table'[c] = NoKey /\ expected' = expected
  BY <1>2, <1>21, <1>22, <1>3, <1>4 DEF IInv, TypeOK, Table, Known
<1>6. table' \in Table /\ expected' \in [Codes -> [duration : Nat, holders : SUBSET Ips]]
  <2>1. CASE Known(c)
    <3>1. [duration |-> w.duration, holders |-> w.locked] \in [duration : Nat, holders : SUBSET Ips]
      BY <1>4, <2>1 DEF Row
    <3>2. table' \in Table
      BY <1>2, <1>21, <1>4, <2>1 DEF IInv, TypeOK, Table
    <3>3. expected' = [expected EXCEPT ![c] = [duration |-> w.duration, holders |-> w.locked]]
      BY <1>3, <1>4, <1>5, <2>1
    <3>4. QED
      BY <3>1, <3>2, <3>3 DEF IInv, TypeOK
  <2>2. CASE ~Known(c)
    BY <1>2, <1>21, <1>5, <2>2 DEF IInv, TypeOK, Table
  <2>3. QED
    BY <2>1, <2>2
<1>7. job' \in [Threads -> Job]
  <2>1. ASSUME NEW u \in Threads PROVE job'[u] \in Job
    <3>1. NoJob \in Job /\ job[u] \in Job
      BY DEF IInv, TypeOK, Job, NoJob
    <3>2. [job[u] EXCEPT !.stale = @ \cup (job[u].columns \cap j.columns)] \in Job
      BY <3>1 DEF Job
    <3>3. QED
      BY <1>3, <3>1, <3>2
  <2>2. QED
    BY <1>3, <2>1
<1>8. TypeOK'
  BY <1>2, <1>21, <1>3, <1>6, <1>7 DEF IInv, TypeOK
<1>9. RowsSound' /\ RowsFit' /\ AnswersKept'
  <2>1. ASSUME NEW d \in Codes, Known(d)'
        PROVE  /\ d \in issued' /\ Sound(table'[d])
               /\ table'[d].status = "used" => table'[d].active # {}
               /\ table'[d].duration = expected'[d].duration
               /\ table'[d].locked = expected'[d].holders
    <3>1. CASE d = c
      <4>1. Known(c)
        BY <1>5, <2>1, <3>1 DEF Known
      <4>2. QED
        BY <1>2, <1>21, <1>22, <1>4, <1>5, <3>1, <4>1 DEF Related
    <3>2. CASE d # c
      BY <1>2, <1>21, <1>5, <2>1, <3>2 DEF IInv, RowsSound, RowsFit, AnswersKept, Known
    <3>3. QED
      BY <3>1, <3>2
  <2>2. QED
    BY <2>1 DEF RowsSound, RowsFit, AnswersKept, Sound
<1>10. JobsFit'
  <2>1. ASSUME NEW u \in Threads, pc'[u] = "update"
        PROVE  (Shaped(job[u]) /\ Related(job[u]) /\ Fresh(job[u]))'
    <3>1. u # t /\ pc[u] = "update"
      BY <1>3, <2>1 DEF IInv, TypeOK
    <3>2. job[u] \in Job /\ Shaped(job[u]) /\ Related(job[u]) /\ Fresh(job[u])
      BY <3>1 DEF IInv, TypeOK, JobsFit
    <3>3. CASE job[u].code # c
      <4>1. job'[u] = job[u]
        BY <1>3, <3>1, <3>3
      <4>2. table'[job[u].code] = table[job[u].code]
        BY <1>5, <3>2, <3>3 DEF Related, IInv, TypeOK
      <4>3. QED
        BY <1>2, <1>21, <3>2, <4>1, <4>2 DEF Shaped, Related, Fresh, Known
    <3>4. CASE job[u].code = c
      <4>1. PICK k : k = job'[u]
        OBVIOUS
      <4>11. k = [job[u] EXCEPT !.stale = @ \cup (job[u].columns \cap j.columns)]
        BY <1>3, <3>1, <3>4, <4>1
      <4>2. /\ k.op = job[u].op /\ k.code = c /\ k.ip = job[u].ip /\ k.delta = job[u].delta
            /\ k.columns = job[u].columns /\ k.new = job[u].new
            /\ k.stale = job[u].stale \cup (job[u].columns \cap j.columns)
        BY <3>2, <3>4, <4>11 DEF Job
      <4>3. Known(c)' => Known(c) /\ table'[c] = w
        BY <1>5 DEF Known
      <4>4. Known(c) => FreshFor(k, w)
        <5>1. /\ k = [job[u] EXCEPT !.stale = @ \cup (job[u].columns \cap job[t].columns)]
              /\ w = Written(table[job[u].code], job[t].columns, job[t].new)
              /\ job[u].code = job[t].code
          BY <1>2, <3>4, <4>11
        <5>2. QED
          BY <1>1, <1>2, <3>2, <5>1, OthersFresh
      <4>5. Shaped(k)
        BY <3>2, <4>2 DEF Shaped
      <4>6. Related(k)'
        BY <1>2, <1>21, <1>4, <3>2, <3>4, <4>2, <4>3 DEF Related, Known
      <4>7. Fresh(k)'
        BY <4>2, <4>3, <4>4 DEF Fresh, Known
      <4>8. QED
        BY <4>1, <4>5, <4>6, <4>7 DEF Shaped, Related, Fresh, Known
    <3>5. QED
      BY <3>3, <3>4
  <2>2. QED
    BY <2>1 DEF JobsFit
<1>11. QED
  BY <1>8, <1>9, <1>10 DEF IInv

\* Where a thread is done without having written.
LEMMA DoneStep ==
    ASSUME IInv, NEW t \in Threads, Done(t), UNCHANGED <<table, issued, expected>>
    PROVE  IInv'
<1>1. TypeOK'
  BY DEF IInv, TypeOK, Done, Job, NoJob
<1>2. (RowsSound /\ RowsFit /\ AnswersKept)'
  BY DEF IInv, RowsSound, RowsFit, AnswersKept, Known, Sound
<1>3. JobsFit'
  <2>1. ASSUME NEW u \in Threads, pc'[u] = "update"
        PROVE  (Shaped(job[u]) /\ Related(job[u]) /\ Fresh(job[u]))'
    <3>1. pc[u] = "update" /\ job'[u] = job[u]
      BY <2>1 DEF IInv, TypeOK, Done
    <3>2. Shaped(job[u]) /\ Related(job[u]) /\ Fresh(job[u])
      BY <3>1 DEF IInv, JobsFit
    <3>3. QED
      BY <3>1, <3>2 DEF Shaped, Related, Fresh, Known
  <2>2. QED
    BY <2>1 DEF JobsFit
<1>4. QED
  BY <1>1, <1>2, <1>3 DEF IInv

-----------------------------------------------------------------------------
LEMMA GenerateStep == ASSUME IInv, GenerateKey PROVE IInv'
<1>1. PICK c \in Codes \ issued, d \in Durations, n \in DeviceCounts :
        /\ issued' = issued \cup {c}
        /\ \/ /\ table' = [table EXCEPT ![c] = NewRow(d, n)]
              /\ expected' = [expected EXCEPT ![c] = [duration |-> d, holders |-> {}]]
           \/ UNCHANGED <<table, expected>>
        /\ UNCHANGED <<pc, job>>
  BY DEF GenerateKey
<1>2. d \in Nat /\ n \in Nat /\ Cardinality({}) = 0
  BY NumbersAssumption, FS_EmptySet
<1>3. /\ NewRow(d, n) \in Row /\ Sound(NewRow(d, n))
      /\ NewRow(d, n).status = "active"
      /\ NewRow(d, n).duration = d /\ NewRow(d, n).locked = {}
  BY <1>2 DEF NewRow, Row, Sound
<1>4. TypeOK'
  BY <1>1, <1>2, <1>3 DEF IInv, TypeOK, Table
<1>5. RowsSound' /\ RowsFit' /\ AnswersKept'
  <2>1. ASSUME NEW e \in Codes, Known(e)'
        PROVE  /\ e \in issued' /\ Sound(table'[e])
               /\ table'[e].status = "used" => table'[e].active # {}
               /\ table'[e].duration = expected'[e].duration
               /\ table'[e].locked = expected'[e].holders
    <3>1. CASE table'[e] = table[e] /\ expected'[e] = expected[e]
      BY <1>1, <2>1, <3>1 DEF IInv, RowsSound, RowsFit, AnswersKept, Known
    <3>2. CASE ~(table'[e] = table[e] /\ expected'[e] = expected[e])
      <4>1. /\ e = c /\ table'[e] = NewRow(d, n)
            /\ expected'[e] = [duration |-> d, holders |-> {}]
        BY <1>1, <3>2 DEF IInv, TypeOK, Table
      <4>2. QED
        BY <1>1, <1>3, <4>1
    <3>3. QED
      BY <3>1, <3>2
  <2>2. QED
    BY <2>1 DEF RowsSound, RowsFit, AnswersKept, Sound
<1>6. JobsFit'
  <2>1. ASSUME NEW u \in Threads, pc'[u] = "update"
        PROVE  (Shaped(job[u]) /\ Related(job[u]) /\ Fresh(job[u]))'
    <3>1. /\ job'[u] = job[u] /\ job[u].code \in Codes \ {c}
          /\ Shaped(job[u]) /\ Related(job[u]) /\ Fresh(job[u])
      BY <1>1, <2>1 DEF IInv, TypeOK, JobsFit, Related
    <3>2. table'[job[u].code] = table[job[u].code]
      BY <1>1, <3>1 DEF IInv, TypeOK, Table
    <3>3. QED
      BY <1>1, <3>1, <3>2 DEF Shaped, Related, Fresh, Known
  <2>2. QED
    BY <2>1 DEF JobsFit
<1>7. QED
  BY <1>4, <1>5, <1>6 DEF IInv

LEMMA DeleteStep == ASSUME IInv, DeleteKey PROVE IInv'
<1>1. PICK c \in Codes : /\ table' = [table EXCEPT ![c] = NoKey]
                         /\ expected' = [expected EXCEPT ![c] = Blank]
                         /\ UNCHANGED <<issued, pc, job>>
  BY DEF DeleteKey
<1>2. TypeOK'
  BY <1>1 DEF IInv, TypeOK, Table, Blank
<1>3. \A e \in Codes : Known(e)' => /\ Known(e) /\ table'[e] = table[e]
                                    /\ expected'[e] = expected[e]
  BY <1>1 DEF IInv, TypeOK, Table, Known
<1>4. RowsSound' /\ RowsFit' /\ AnswersKept'
  BY <1>1, <1>3 DEF IInv, RowsSound, RowsFit, AnswersKept, Sound
<1>5. JobsFit'
  <2>1. ASSUME NEW u \in Threads, pc'[u] = "update"
        PROVE  (Shaped(job[u]) /\ Related(job[u]) /\ Fresh(job[u]))'
    <3>1. /\ job'[u] = job[u] /\ job[u].code \in Codes
          /\ Shaped(job[u]) /\ Related(job[u]) /\ Fresh(job[u])
      BY <1>1, <2>1 DEF IInv, TypeOK, JobsFit, Related
    <3>2. PICK e \in Codes : e = job[u].code
      BY <3>1
    <3>3. Known(e)' => Known(e) /\ table'[e] = table[e]
      BY <1>3
    <3>4. QED
      BY <1>1, <3>1, <3>2, <3>3 DEF Shaped, Related, Fresh, Known
  <2>2. QED
    BY <2>1 DEF JobsFit
<1>6. QED
  BY <1>2, <1>4, <1>5 DEF IInv

LEMMA NextIInv == ASSUME IInv, [Next]_vars PROVE IInv'
<1>1. ASSUME NEW t \in Threads, Begin(t) PROVE IInv'
  BY <1>1, RedeemStep, RemoveStep, ModifyStep, RefreshStep DEF Begin
<1>2. ASSUME NEW t \in Threads, UpdateKey(t) PROVE IInv'
  BY <1>2, UpdateStep
<1>3. ASSUME NEW t \in Threads, UpdateKeyFails(t) \/ Abort(t) PROVE IInv'
  BY <1>3, DoneStep DEF UpdateKeyFails, Abort
<1>4. CASE UNCHANGED vars
  BY <1>4 DEF vars, IInv, TypeOK, RowsSound, RowsFit, AnswersKept, JobsFit, Shaped, Related,
              Fresh, Known, Sound
<1>5. QED
  BY <1>1, <1>2, <1>3, <1>4, GenerateStep, DeleteStep DEF Next

\* The invariant: what a thread is about to write fits the row it will find.
THEOREM RowsKept == Spec => []IInv
BY InitIInv, NextIInv, PTL DEF Spec

\* The variables of PostgresKeys keep their types.
THEOREM DatabaseTyped == Spec => []TypeOK
<1>1. IInv => TypeOK
  BY DEF IInv
<1>2. QED
  BY <1>1, RowsKept, PTL

\* The two lists of a row agree and no key is stuck (see RowsSound).
THEOREM RowsStaySound == Spec => []RowsSound
<1>1. IInv => RowsSound
  BY DEF IInv
<1>2. QED
  BY <1>1, RowsKept, PTL

\* A key is what its answers say, but for failed and outdated updates (see AnswersKept).
THEOREM AnswersStayKept == Spec => []AnswersKept
<1>1. IInv => AnswersKept
  BY DEF IInv
<1>2. QED
  BY <1>1, RowsKept, PTL

-----------------------------------------------------------------------------
(* The table implements the licence. *)

Licence == [c \in Codes |->
    IF Known(c)
    THEN [stage |-> "valid", limit |-> table[c].max_devices, holders |-> table[c].locked]
    ELSE [stage |-> IF c \in issued THEN "withdrawn" ELSE "unissued",
          limit |-> 0, holders |-> {}]]

\* The module License counts as this one does.
LEMMA SameCount == \A S : L!Cardinality(S) = Cardinality(S)
BY DEF L!Cardinality, Cardinality

LEMMA InitLicence == Init => L!LooseInit
<1> SUFFICES ASSUME Init PROVE L!LooseInit
  OBVIOUS
<1>1. ASSUME NEW c \in Codes
      PROVE  /\ Licence[c] \in {L!Unissued} \cup {L!Valid(n, H) : n \in DeviceCounts, H \in SUBSET Ips}
             /\ L!Fits(Licence[c].holders, Licence[c].limit)
  <2>1. CASE Known(c)
    <3>1. table[c] \in Migrated
      BY <2>1 DEF Init, Known
    <3>2. /\ table[c].max_devices \in DeviceCounts /\ table[c].locked \in SUBSET Ips
          /\ Cardinality(table[c].locked) <= table[c].max_devices
      BY <3>1 DEF Migrated
    <3>3. Licence[c] = L!Valid(table[c].max_devices, table[c].locked)
      BY <2>1 DEF Licence, L!Valid
    <3>4. Licence[c] \in {L!Valid(n, H) : n \in DeviceCounts, H \in SUBSET Ips}
      BY <3>2, <3>3
    <3>5. Licence[c].holders = table[c].locked /\ Licence[c].limit = table[c].max_devices
      BY <3>3 DEF L!Valid
    <3>6. L!Fits(Licence[c].holders, Licence[c].limit)
      BY <3>2, <3>5, SameCount DEF L!Fits
    <3>7. QED
      BY <3>4, <3>6
  <2>2. CASE ~Known(c)
    <3>1. Licence[c] = L!Unissued
      BY <2>2 DEF Init, Licence, L!Unissued
    <3>2. Licence[c].holders = {} /\ Licence[c].limit = 0
      BY <3>1 DEF L!Unissued
    <3>3. Cardinality({}) = 0
      BY FS_EmptySet
    <3>4. L!Fits(Licence[c].holders, Licence[c].limit)
      BY <3>2, <3>3, SameCount DEF L!Fits
    <3>5. QED
      BY <3>1, <3>4
  <2>3. QED
    BY <2>1, <2>2
<1>2. Licence \in [Codes -> {L!Unissued} \cup {L!Valid(n, H) : n \in DeviceCounts, H \in SUBSET Ips}]
  BY <1>1 DEF Licence
<1>3. QED
  BY <1>1, <1>2 DEF L!LooseInit, Licence

LEMMA UpdateLicence ==
    ASSUME IInv, NEW t \in Threads, UpdateKey(t)
    PROVE  [L!LooseNext]_Licence
<1>1. pc[t] = "update" /\ job[t] \in Job /\ job[t].code \in Codes
  BY DEF UpdateKey, IInv, TypeOK, JobsFit, Related
<1>2. PICK j, c, w :
        /\ j \in Job /\ j = job[t]
        /\ c \in Codes /\ c = job[t].code
        /\ w = Written(table[c], j.columns, j.new)
  BY <1>1
<1>3. /\ table' = [table EXCEPT ![c] = IF @ = NoKey THEN NoKey ELSE w]
      /\ issued' = issued
  BY <1>2 DEF UpdateKey
<1>4. Shaped(j) /\ Related(j) /\ j.new \in Row /\ Sound(j.new) /\ c = j.code
  BY <1>1, <1>2 DEF IInv, JobsFit, Related
<1>5. CASE ~Known(c)
  <2>1. table' = table
    BY <1>2, <1>3, <1>5 DEF Known, IInv, TypeOK, Table
  <2>2. Licence' = Licence
    BY <1>2, <1>3, <2>1 DEF Licence, Known
  <2>3. QED
    BY <1>2, <2>2
<1>6. CASE Known(c)
  <2>1. table[c] \in Row /\ Sound(table[c])
    BY <1>2, <1>6, RowOf
  <2>2. table[c].status = "used" => table[c].active # {}
    BY <1>2, <1>6 DEF IInv, RowsSound
  <2>3. table[c].max_devices = j.new.max_devices
    BY <1>2, <1>4, <1>6 DEF Related
  <2>4. w \in Row /\ Sound(w) /\ w.max_devices = table[c].max_devices
    BY <1>2, <1>4, <2>1, <2>2, <2>3, WrittenSound
  <2>5. w # NoKey
    BY <1>2, <2>4, NoKeyAssumption
  <2>6. /\ table'[c] = w
        /\ \A d \in Codes \ {c} : table'[d] = table[d]
    BY <1>2, <1>3, <1>6 DEF Known, IInv, TypeOK, Table
  <2>7. Licence[c] = [stage |-> "valid", limit |-> w.max_devices, holders |-> table[c].locked]
    BY <1>2, <1>6, <2>4 DEF Licence
  <2>8. Licence' = [Licence EXCEPT ![c].holders = w.locked]
    <3>1. Licence'[c] = [stage |-> "valid", limit |-> w.max_devices, holders |-> w.locked]
      BY <1>2, <2>5, <2>6 DEF Licence, Known
    <3>2. Licence'[c] = [Licence[c] EXCEPT !.holders = w.locked]
      BY <1>2, <2>7, <3>1
    <3>3. \A d \in Codes \ {c} : Licence'[d] = Licence[d]
      BY <1>2, <1>3, <2>6 DEF Licence, Known
    <3>4. PICK f, g : f = Licence /\ g = Licence'
      OBVIOUS
    <3>5. DOMAIN f = Codes /\ DOMAIN g = Codes /\ f = [d \in Codes |-> f[d]] /\ g = [d \in Codes |-> g[d]]
      BY <3>4 DEF Licence
    <3>6. g[c] = [f[c] EXCEPT !.holders = w.locked] /\ \A d \in Codes \ {c} : g[d] = f[d]
      BY <3>2, <3>3, <3>4
    <3>7. g = [f EXCEPT ![c].holders = w.locked]
      BY <1>2, <3>5, <3>6
    <3>8. QED
      BY <3>4, <3>7
  <2>9. w.locked \in SUBSET Ips
    BY <1>2, <2>4 DEF Row
  <2>10. L!Fits(w.locked, Licence[c].limit)
    BY <1>2, <2>4, <2>7, SameCount DEF L!Fits, Sound
  <2>11. L!Reassign(c, w.locked)
    BY <1>2, <2>7, <2>8, <2>10 DEF L!Reassign, Licence
  <2>12. QED
    BY <1>2, <2>9, <2>11 DEF L!LooseNext
<1>7. QED
  BY <1>5, <1>6

LEMMA GenerateLicence ==
    ASSUME IInv, GenerateKey
    PROVE  [L!LooseNext]_Licence
<1>1. PICK c \in Codes \ issued, d \in Durations, n \in DeviceCounts :
         /\ issued' = issued \cup {c}
         /\ table' = [table EXCEPT ![c] = NewRow(d, n)] \/ table' = table
  BY DEF GenerateKey
<1>2. ~Known(c) /\ table[c] = NoKey
  BY DEF IInv, RowsFit, Known
<1>3. Licence[c] = L!Unissued
  BY <1>2 DEF Licence, L!Unissued
<1>4. \A e \in Codes \ {c} : table'[e] = table[e] /\ (e \in issued' <=> e \in issued)
  BY <1>1 DEF IInv, TypeOK, Table
<1>5. \A e \in Codes \ {c} : Licence'[e] = Licence[e]
  BY <1>4 DEF Licence, Known
<1>6. CASE table' = [table EXCEPT ![c] = NewRow(d, n)]
  <2>1. NewRow(d, n) \in Row /\ NewRow(d, n) # NoKey
    BY NumbersAssumption, NoKeyAssumption DEF NewRow, Row
  <2>2. table'[c] = NewRow(d, n)
    BY <1>6 DEF IInv, TypeOK, Table
  <2>3. Licence'[c] = L!Valid(n, {})
    <3>1. /\ table'[c] # NoKey
          /\ table'[c].max_devices = n /\ table'[c].locked = {}
      BY <2>1, <2>2 DEF NewRow
    <3>2. Licence'[c] = [stage |-> "valid", limit |-> table'[c].max_devices,
                         holders |-> table'[c].locked]
      BY <3>1 DEF Licence, Known
    <3>3. QED
      BY <3>1, <3>2 DEF L!Valid
  <2>4. Licence' = [Licence EXCEPT ![c] = L!Valid(n, {})]
    BY <1>5, <2>3 DEF Licence
  <2>5. L!Issue(c)
    BY <1>3, <2>4 DEF L!Issue, Licence
  <2>6. QED
    BY <2>5 DEF L!LooseNext
<1>7. CASE table' = table
  <2>1. Licence'[c] = L!Withdrawn
    BY <1>1, <1>2, <1>7 DEF Licence, Known, L!Withdrawn
  <2>2. Licence' = [Licence EXCEPT ![c] = L!Withdrawn]
    BY <1>5, <2>1 DEF Licence
  <2>3. L!Withdraw(c)
    BY <1>3, <2>2 DEF L!Withdraw, L!Unissued, Licence
  <2>4. QED
    BY <2>3 DEF L!LooseNext
<1>8. QED
  BY <1>1, <1>6, <1>7

LEMMA DeleteLicence ==
    ASSUME IInv, DeleteKey
    PROVE  [L!LooseNext]_Licence
<1>1. PICK c \in Codes : table' = [table EXCEPT ![c] = NoKey] /\ issued' = issued
  BY DEF DeleteKey
<1>2. table'[c] = NoKey /\ \A e \in Codes \ {c} : table'[e] = table[e]
  BY <1>1 DEF IInv, TypeOK, Table
<1>3. \A e \in Codes \ {c} : Licence'[e] = Licence[e]
  BY <1>1, <1>2 DEF Licence, Known
<1>4. CASE Known(c)
  <2>1. c \in issued
    BY <1>4 DEF IInv, RowsFit
  <2>2. Licence'[c] = L!Withdrawn
    BY <1>1, <1>2, <2>1 DEF Licence, Known, L!Withdrawn
  <2>3. Licence[c].stage = "valid"
    BY <1>4 DEF Licence
  <2>4. Licence' = [Licence EXCEPT ![c] = L!Withdrawn]
    BY <1>3, <2>2 DEF Licence
  <2>5. L!Withdraw(c)
    BY <2>3, <2>4 DEF L!Withdraw, Licence
  <2>6. QED
    BY <2>5 DEF L!LooseNext
<1>5. CASE ~Known(c)
  <2>1. Licence'[c] = Licence[c]
    BY <1>1, <1>2, <1>5 DEF Licence, Known
  <2>2. Licence' = Licence
    BY <1>3, <2>1 DEF Licence
  <2>3. QED
    BY <2>2
<1>6. QED
  BY <1>4, <1>5

\* Each statement that changes the table is a step of the licence, or changes none.
LEMMA NextLicence == ASSUME IInv, [Next]_vars PROVE [L!LooseNext]_Licence
<1>1. CASE GenerateKey
  BY <1>1, GenerateLicence
<1>2. CASE DeleteKey
  BY <1>2, DeleteLicence
<1>3. ASSUME NEW t \in Threads, UpdateKey(t) PROVE [L!LooseNext]_Licence
  BY <1>3, UpdateLicence
<1>4. ASSUME table' = table, issued' = issued PROVE [L!LooseNext]_Licence
  BY <1>4 DEF Licence, Known
<1>5. ASSUME NEW t \in Threads, Begin(t) \/ UpdateKeyFails(t) \/ Abort(t)
      PROVE  table' = table /\ issued' = issued
  BY <1>5 DEF Begin, RedeemKey, RemoveIp, ModifyKeyDuration, RefreshKey, Start,
              UpdateKeyFails, Abort
<1>6. UNCHANGED vars => table' = table /\ issued' = issued
  BY DEF vars
<1>7. QED
  BY <1>1, <1>2, <1>3, <1>4, <1>5, <1>6 DEF Next

\* A key of the database is a licence (see KeysStayLicences).
THEOREM KeysRemainLicences == Spec => KeysStayLicences
<1>1. Spec => [][L!LooseNext]_Licence
  BY RowsKept, NextLicence, PTL DEF Spec
<1>2. QED
  BY <1>1, InitLicence, PTL DEF Spec, KeysStayLicences, L!LooseSpec, Licence
=============================================================================
