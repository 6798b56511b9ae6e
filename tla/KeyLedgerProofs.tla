-------------------------- MODULE KeyLedgerProofs --------------------------
(***************************************************************************)
(* What holds of the ledger for any number of threads, keys, addresses and *)
(* devices, whatever the interleaving.  No handler holds a lock across its *)
(* load and its save, so nothing can be said about the files alone: the    *)
(* inductive invariant says that every copy a thread may still write is as *)
(* good as the file it replaces.  More holds where handlers do not overlap *)
(* (OneWriter), in the second half: promises are kept, keys.json is a      *)
(* licence, and the two files agree while the bot is alone.                *)
(***************************************************************************)
EXTENDS KeyLedger, FiniteSetTheorems, TLAPS

KeyOK(k) == /\ k.locked = k.active
            /\ Cardinality(k.active) <= k.max_devices
            /\ k.used => k.active # {}

TableOK(K) == \A c \in Codes : K[c] # NoKey => KeyOK(K[c])

Backed(I) == \A ip \in Ips :
    I[ip] # NoEntry /\ I[ip].key_used \in Codes => <<I[ip].key_used, ip>> \in granted

JobOK(t) ==
    /\ \A ip \in job[t].todo : ipsSeen[t][ip] # NoEntry
    /\ job[t].op = "redeem" => /\ job[t].ip \in Ips
                               /\ job[t].code \in Codes
                               /\ job[t].todo = {}
    /\ pc[t] = "shift" => job[t].op = "extend"
    /\ pc[t] = "open_ips" => /\ job[t].op = "redeem"
                             /\ <<job[t].code, job[t].ip>> \in granted
    /\ pc[t] = "ips" /\ job[t].op = "redeem" => ipsSeen[t][job[t].ip] \in Entry

IInv == /\ TypeOK
        /\ TableOK(keys)
        /\ Backed(ips)
        /\ \A t \in Threads : TableOK(keysSeen[t]) /\ Backed(ipsSeen[t]) /\ JobOK(t)

-----------------------------------------------------------------------------
(* The records the operations build are as good as those they start from. *)

LEMMA FiniteHolders == ASSUME NEW S \in SUBSET Ips
                       PROVE  IsFiniteSet(S) /\ Cardinality(S) \in Nat
BY IpsAssumption, FS_Subset, FS_CardinalityType

LEMMA NewKeyOK ==
    ASSUME NEW d \in Nat, NEW n \in Nat
    PROVE  NewKey(d, n) \in Key /\ KeyOK(NewKey(d, n))
BY FS_EmptySet DEF NewKey, Key, KeyOK

LEMMA RedeemedOK ==
    ASSUME NEW K \in KeyTable, TableOK(K), NEW c \in Codes, NEW ip, Redeemable(K, c, ip)
    PROVE  Redeemed(K[c], ip) \in Key /\ KeyOK(Redeemed(K[c], ip))
<1>1. K[c] \in Key /\ KeyOK(K[c]) /\ ip \in Ips
  BY IpsAssumption DEF KeyTable, TableOK, Redeemable
<1>2. DEFINE H == K[c].active
<1>3. H \in SUBSET Ips /\ IsFiniteSet(H) /\ Cardinality(H) \in Nat
  BY <1>1, FiniteHolders DEF Key
<1>4. Cardinality(H \cup {ip}) <= K[c].max_devices
  <2>1. CASE ip \in H
    <3>1. H \cup {ip} = H
      BY <2>1
    <3>2. QED
      BY <1>1, <3>1 DEF KeyOK
  <2>2. CASE ip \notin H
    <3>1. Cardinality(H) < K[c].max_devices
      BY <2>2 DEF Redeemable, DeviceAllows, HasRoom
    <3>2. Cardinality(H \cup {ip}) = Cardinality(H) + 1
      BY <1>3, <2>2, FS_AddElement
    <3>3. QED
      BY <1>1, <1>3, <3>1, <3>2 DEF Key
  <2>3. QED
    BY <2>1, <2>2
<1>5. QED
  BY <1>1, <1>3, <1>4 DEF Redeemed, Key, KeyOK

LEMMA WithoutIpOK ==
    ASSUME NEW k \in Key, KeyOK(k), NEW ip \in Ips
    PROVE  WithoutIp(k, ip) \in Key /\ KeyOK(WithoutIp(k, ip))
<1>1. k.active \in SUBSET Ips /\ k.max_devices \in Nat
  BY DEF Key
<1>2. /\ Cardinality(k.active \ {ip}) <= Cardinality(k.active)
      /\ Cardinality(k.active) \in Nat /\ Cardinality(k.active \ {ip}) \in Nat
  BY <1>1, FiniteHolders, FS_Subset, k.active \ {ip} \in SUBSET k.active
<1> DEFINE w == WithoutIp(k, ip)
<1>3. /\ w.active = k.active \ {ip}
      /\ w.locked = k.locked \ {ip}
      /\ w.max_devices = k.max_devices
      /\ w.used = IF k.active \ {ip} = {} THEN FALSE ELSE k.used
  BY DEF WithoutIp, Key
<1>4. w \in Key
  BY DEF WithoutIp, Key
<1>5. w.used => w.active # {}
  BY <1>3
<1>6. QED
  BY <1>1, <1>2, <1>3, <1>4, <1>5 DEF KeyOK, Key

LEMMA RetimedOK ==
    ASSUME NEW k \in Key, KeyOK(k), NEW d \in Int
    PROVE  Retimed(k, d) \in Key /\ KeyOK(Retimed(k, d))
BY DEF Retimed, Key, KeyOK

LEMMA RefreshedOK ==
    ASSUME NEW k \in Key, KeyOK(k)
    PROVE  Refreshed(k) \in Key /\ KeyOK(Refreshed(k))
BY DEF Refreshed, Key, KeyOK

LEMMA EditedOK ==
    ASSUME NEW K \in KeyTable, TableOK(K), NEW c \in Codes,
           NEW k \in Key \cup {NoKey}, k # NoKey => KeyOK(k)
    PROVE  [K EXCEPT ![c] = k] \in KeyTable /\ TableOK([K EXCEPT ![c] = k])
BY DEF KeyTable, TableOK

LEMMA EmptyTablesOK ==
    /\ NoKeys \in KeyTable /\ TableOK(NoKeys)
    /\ NoIps \in IpTable /\ Backed(NoIps)
BY DEF NoKeys, KeyTable, TableOK, NoIps, IpTable, Backed

LEMMA NoJobTyped == NoJob \in Job
BY DEF NoJob, Job, Ops

-----------------------------------------------------------------------------
(* One lemma for each kind of first step. *)

LEMMA StartKeyJobKeeps ==
    ASSUME IInv, NEW t \in Threads, NEW op \in Ops \ {"redeem"}, NEW c \in Codes,
           NEW k \in Key \cup {NoKey}, k # NoKey => KeyOK(k),
           StartKeyJob(t, op, c, k), issued' \subseteq Codes
    PROVE  IInv'
<1> DEFINE K == [keys EXCEPT ![c] = k]
           j == [NoJob EXCEPT !.op = op, !.code = c]
<1>1. K \in KeyTable /\ TableOK(K)
  BY EditedOK DEF IInv, TypeOK
<1>2. j \in Job /\ j.op = op /\ j.todo = {}
  BY NoJobTyped DEF Job, NoJob
<1>3. /\ keysSeen' = [keysSeen EXCEPT ![t] = K]
      /\ pc' = [pc EXCEPT ![t] = "save_keys"]
      /\ job' = [job EXCEPT ![t] = j]
      /\ UNCHANGED <<keys, ips, now, ipsSeen, granted, promise>>
  BY DEF StartKeyJob, EditKey, Goes, disk
<1>4. TypeOK'
  BY <1>1, <1>2, <1>3 DEF IInv, TypeOK, Phases
<1>5. TableOK(keys)' /\ Backed(ips)'
  BY <1>3 DEF IInv, TableOK, Backed
<1>6. ASSUME NEW u \in Threads
      PROVE  (TableOK(keysSeen[u]) /\ Backed(ipsSeen[u]) /\ JobOK(u))'
  <2>1. TableOK(keysSeen'[u])
    BY <1>1, <1>3 DEF IInv, TypeOK
  <2>2. Backed(ipsSeen[u])'
    BY <1>3 DEF IInv, Backed
  <2>3. JobOK(u)'
    BY <1>2, <1>3 DEF IInv, TypeOK, JobOK
  <2>4. QED
    BY <2>1, <2>2, <2>3 DEF TableOK
<1>7. QED
  BY <1>4, <1>5, <1>6 DEF IInv

LEMMA StartIpJobKeeps ==
    ASSUME IInv, NEW t \in Threads, NEW op, NEW j \in Job, j.op # "redeem",
           NEW I \in IpTable, Backed(I), \A ip \in j.todo : I[ip] # NoEntry,
           StartIpJob(t, op, j, I), promise' \in [Ips -> Int]
    PROVE  IInv'
<1>1. /\ ipsSeen' = [ipsSeen EXCEPT ![t] = I]
      /\ pc' = [pc EXCEPT ![t] = "ips"]
      /\ job' = [job EXCEPT ![t] = j]
      /\ UNCHANGED <<keys, ips, now, issued, keysSeen, granted>>
  BY DEF StartIpJob, Goes, disk
<1>2. TypeOK'
  BY <1>1 DEF IInv, TypeOK, Phases
<1>3. TableOK(keys)' /\ Backed(ips)'
  BY <1>1 DEF IInv, TableOK, Backed
<1>4. ASSUME NEW u \in Threads
      PROVE  (TableOK(keysSeen[u]) /\ Backed(ipsSeen[u]) /\ JobOK(u))'
  <2>1. TableOK(keysSeen[u])'
    BY <1>1 DEF IInv, TableOK
  <2>2. Backed(ipsSeen[u])'
    BY <1>1 DEF IInv, TypeOK, Backed
  <2>3. JobOK(u)'
    BY <1>1 DEF IInv, TypeOK, JobOK
  <2>4. QED
    BY <2>1, <2>2, <2>3
<1>5. QED
  BY <1>2, <1>3, <1>4 DEF IInv

-----------------------------------------------------------------------------
(* The operations on keys.json. *)

LEMMA KnownKeyOK ==
    ASSUME IInv, NEW c \in Codes, keys[c] # NoKey
    PROVE  keys[c] \in Key /\ KeyOK(keys[c])
BY DEF IInv, TypeOK, KeyTable, TableOK

LEMMA FirstKeyStepsKeep ==
    ASSUME IInv, NEW t \in Threads,
           \/ GenerateKey(t) \/ RevokeIp(t) \/ ModifyKeyDuration(t)
           \/ RefreshKey(t) \/ DeleteKey(t)
    PROVE  IInv'
<1> USE DEF Ops
<1>0. issued \subseteq Codes
  BY DEF IInv, TypeOK
<1>1. CASE GenerateKey(t)
  <2>1. PICK c \in Codes \ issued, d \in Durations, n \in DeviceCounts :
             /\ StartKeyJob(t, "generate", c, NewKey(d, n))
             /\ issued' = issued \cup {c}
    BY <1>1 DEF GenerateKey
  <2>2. NewKey(d, n) \in Key /\ KeyOK(NewKey(d, n))
    BY NewKeyOK, NumbersAssumption
  <2>3. QED
    BY <1>0, <2>1, <2>2, StartKeyJobKeeps
<1>2. CASE RevokeIp(t)
  <2>1. PICK c \in Codes, ip \in Ips :
             /\ keys[c] # NoKey
             /\ StartKeyJob(t, "revoke", c, WithoutIp(keys[c], ip))
             /\ UNCHANGED issued
    BY <1>2 DEF RevokeIp
  <2>2. WithoutIp(keys[c], ip) \in Key /\ KeyOK(WithoutIp(keys[c], ip))
    BY <2>1, KnownKeyOK, WithoutIpOK
  <2>3. QED
    BY <1>0, <2>1, <2>2, StartKeyJobKeeps
<1>3. CASE ModifyKeyDuration(t)
  <2>1. PICK c \in Codes, d \in Deltas :
             /\ keys[c] # NoKey
             /\ StartKeyJob(t, "modify", c, Retimed(keys[c], d))
             /\ UNCHANGED issued
    BY <1>3 DEF ModifyKeyDuration
  <2>2. Retimed(keys[c], d) \in Key /\ KeyOK(Retimed(keys[c], d))
    BY <2>1, KnownKeyOK, RetimedOK, NumbersAssumption
  <2>3. QED
    BY <1>0, <2>1, <2>2, StartKeyJobKeeps
<1>4. CASE RefreshKey(t)
  <2>1. PICK c \in Codes :
             /\ keys[c] # NoKey
             /\ StartKeyJob(t, "refresh", c, Refreshed(keys[c]))
             /\ UNCHANGED issued
    BY <1>4 DEF RefreshKey
  <2>2. Refreshed(keys[c]) \in Key /\ KeyOK(Refreshed(keys[c]))
    BY <2>1, KnownKeyOK, RefreshedOK
  <2>3. QED
    BY <1>0, <2>1, <2>2, StartKeyJobKeeps
<1>5. CASE DeleteKey(t)
  <2>1. PICK c \in Codes : /\ StartKeyJob(t, "delete", c, NoKey)
                           /\ UNCHANGED issued
    BY <1>5 DEF DeleteKey
  <2>2. QED
    BY <1>0, <2>1, StartKeyJobKeeps
<1>6. QED
  BY <1>1, <1>2, <1>3, <1>4, <1>5

LEMMA RedeemKeyKeeps ==
    ASSUME IInv, NEW t \in Threads, RedeemKey(t)
    PROVE  IInv'
<1>1. PICK c \in Codes, ip \in Ips :
           /\ Redeemable(keys, c, ip)
           /\ EditKey(t, c, Redeemed(keys[c], ip))
           /\ Goes(t, "save_keys", [op |-> "redeem", code |-> c, ip |-> ip,
                                    n |-> keys[c].duration, todo |-> {}])
           /\ UNCHANGED <<disk, now, issued, ipsSeen, granted, promise>>
  BY DEF RedeemKey
<1> DEFINE k == Redeemed(keys[c], ip)
           K == [keys EXCEPT ![c] = k]
           j == [op |-> "redeem", code |-> c, ip |-> ip,
                 n |-> keys[c].duration, todo |-> {}]
<1>2. keys \in KeyTable /\ TableOK(keys)
  BY DEF IInv, TypeOK
<1>3. k \in Key /\ KeyOK(k)
  BY <1>1, <1>2, RedeemedOK
<1>4. K \in KeyTable /\ TableOK(K)
  BY <1>2, <1>3, EditedOK
<1>5. j \in Job
  <2>1. keys[c] \in Key
    BY <1>1, <1>2 DEF Redeemable, KeyTable
  <2>2. keys[c].duration \in Int
    BY <2>1 DEF Key
  <2>3. QED
    BY <2>2 DEF Job, Ops
<1>6. /\ keysSeen' = [keysSeen EXCEPT ![t] = K]
      /\ pc' = [pc EXCEPT ![t] = "save_keys"]
      /\ job' = [job EXCEPT ![t] = j]
      /\ UNCHANGED <<keys, ips, now, issued, ipsSeen, granted, promise>>
  BY <1>1 DEF EditKey, Goes, disk
<1> HIDE DEF K, k
<1>7. TypeOK'
  BY <1>4, <1>5, <1>6 DEF IInv, TypeOK, Phases
<1>8. TableOK(keys)' /\ Backed(ips)'
  BY <1>6 DEF IInv, TableOK, Backed
<1>9. ASSUME NEW u \in Threads
      PROVE  (TableOK(keysSeen[u]) /\ Backed(ipsSeen[u]) /\ JobOK(u))'
  <2>1. TableOK(keysSeen'[u])
    BY <1>4, <1>6 DEF IInv, TypeOK
  <2>2. Backed(ipsSeen[u])'
    BY <1>6 DEF IInv, Backed
  <2>3. JobOK(u)'
    BY <1>6 DEF IInv, TypeOK, JobOK
  <2>4. QED
    BY <2>1, <2>2, <2>3 DEF TableOK
<1>10. QED
  BY <1>7, <1>8, <1>9 DEF IInv

LEMMA SaveKeysKeeps ==
    ASSUME IInv, NEW t \in Threads, SaveKeys(t)
    PROVE  IInv'
<1>1. /\ pc[t] = "save_keys"
      /\ keys' = keysSeen[t]
      /\ granted' = IF job[t].op = "redeem"
                    THEN granted \cup {<<job[t].code, job[t].ip>>} ELSE granted
      /\ UNCHANGED <<ips, now, issued, promise>>
  BY DEF SaveKeys
<1>2. granted \subseteq granted' /\ granted' \subseteq Codes \X Ips
  BY <1>1 DEF IInv, TypeOK, JobOK
<1>3. TableOK(keys') /\ keys' \in KeyTable
  BY <1>1 DEF IInv, TypeOK
<1>4. keysSeen' = [keysSeen EXCEPT ![t] = NoKeys]
  BY DEF SaveKeys, Done
<1>5. CASE AfterSaveKeys(job[t].op) = "idle"
  <2>1. /\ pc' = [pc EXCEPT ![t] = "idle"]
        /\ job' = [job EXCEPT ![t] = NoJob]
        /\ ipsSeen' = [ipsSeen EXCEPT ![t] = NoIps]
    BY <1>5 DEF SaveKeys, Done, Goes
  <2>2. TypeOK'
    BY <1>1, <1>2, <1>3, <1>4, <2>1, EmptyTablesOK, NoJobTyped DEF IInv, TypeOK, Phases
  <2>3. Backed(ips)'
    BY <1>1, <1>2 DEF IInv, Backed
  <2>4. ASSUME NEW u \in Threads
        PROVE  (TableOK(keysSeen[u]) /\ Backed(ipsSeen[u]) /\ JobOK(u))'
    <3>1. TableOK(keysSeen'[u])
      BY <1>4, EmptyTablesOK DEF IInv, TypeOK
    <3>2. Backed(ipsSeen[u])'
      BY <1>2, <2>1, EmptyTablesOK DEF IInv, TypeOK, Backed, NoIps
    <3>3. JobOK(u)'
      BY <1>2, <2>1 DEF IInv, TypeOK, JobOK, NoJob
    <3>4. QED
      BY <3>1, <3>2, <3>3 DEF TableOK
  <2>5. QED
    BY <1>3, <2>2, <2>3, <2>4 DEF IInv, TableOK
<1>6. CASE AfterSaveKeys(job[t].op) # "idle"
  <2>1. /\ pc' = [pc EXCEPT ![t] = AfterSaveKeys(job[t].op)]
        /\ job' = [job EXCEPT ![t] = job[t]]
        /\ UNCHANGED ipsSeen
    BY <1>6 DEF SaveKeys, Goes
  <2>2. job' = job
    BY <2>1 DEF IInv, TypeOK
  <2>3. /\ AfterSaveKeys(job[t].op) \in Phases
        /\ AfterSaveKeys(job[t].op) = "open_ips" => job[t].op = "redeem"
        /\ AfterSaveKeys(job[t].op) = "shift" => job[t].op = "extend"
        /\ AfterSaveKeys(job[t].op) = "ips" => job[t].op # "redeem"
    BY DEF AfterSaveKeys, Phases
  <2>4. TypeOK'
    BY <1>1, <1>2, <1>3, <1>4, <2>1, <2>2, <2>3, EmptyTablesOK DEF IInv, TypeOK
  <2>5. Backed(ips)'
    BY <1>1, <1>2 DEF IInv, Backed
  <2>6. ASSUME NEW u \in Threads
        PROVE  (TableOK(keysSeen[u]) /\ Backed(ipsSeen[u]) /\ JobOK(u))'
    <3>1. TableOK(keysSeen'[u])
      BY <1>4, EmptyTablesOK DEF IInv, TypeOK
    <3>2. Backed(ipsSeen[u])'
      BY <1>2, <2>1 DEF IInv, Backed
    <3>3. JobOK(u)'
      BY <1>1, <1>2, <2>1, <2>2, <2>3 DEF IInv, TypeOK, JobOK
    <3>4. QED
      BY <3>1, <3>2, <3>3 DEF TableOK
  <2>7. QED
    BY <1>3, <2>4, <2>5, <2>6 DEF IInv, TableOK
<1>7. QED
  BY <1>5, <1>6

-----------------------------------------------------------------------------
(* The operations on ips.json. *)

LEMMA ActivateIpKeeps ==
    ASSUME IInv, NEW t \in Threads, ActivateIp(t)
    PROVE  IInv'
<1> DEFINE j == job[t]
           e == ActiveEntry(now + j.n, j.code)
           I == [ips EXCEPT ![j.ip] = e]
<1>1. /\ j \in Job /\ j.op = "redeem" /\ j.todo = {}
      /\ j.ip \in Ips /\ j.code \in Codes /\ <<j.code, j.ip>> \in granted
  BY DEF ActivateIp, IInv, TypeOK, JobOK
<1>2. e \in Entry /\ e.key_used = j.code
  <2>1. now + j.n \in Int
    BY <1>1 DEF IInv, TypeOK, Job
  <2>2. QED
    BY <1>1, <2>1 DEF ActiveEntry, Entry
<1>3. /\ ipsSeen' = [ipsSeen EXCEPT ![t] = I]
      /\ pc' = [pc EXCEPT ![t] = "ips"]
      /\ job' = [job EXCEPT ![t] = j]
      /\ UNCHANGED <<keys, ips, now, issued, keysSeen, granted, promise>>
  BY DEF ActivateIp, Goes, disk
<1>4. job' = job
  BY <1>3 DEF IInv, TypeOK
<1>5. ips \in IpTable /\ Backed(ips)
  BY DEF IInv, TypeOK
<1> HIDE DEF e
<1>6. I \in IpTable /\ I[j.ip] = e
  BY <1>1, <1>2, <1>5 DEF IpTable
<1>7. Backed(I)
  BY <1>1, <1>2, <1>5 DEF Backed, IpTable
<1>8. TypeOK'
  BY <1>3, <1>4, <1>6 DEF IInv, TypeOK, Phases
<1>9. TableOK(keys)' /\ Backed(ips)'
  BY <1>3 DEF IInv, TableOK, Backed
<1>10. ASSUME NEW u \in Threads
       PROVE  (TableOK(keysSeen[u]) /\ Backed(ipsSeen[u]) /\ JobOK(u))'
  <2>1. TableOK(keysSeen[u])'
    BY <1>3 DEF IInv, TableOK
  <2>2. Backed(ipsSeen'[u])
    BY <1>3, <1>7 DEF IInv, TypeOK
  <2>3. JobOK(u)'
    <3>1. CASE u = t
      BY <3>1, <1>1, <1>2, <1>3, <1>4, <1>6 DEF IInv, TypeOK, JobOK
    <3>2. CASE u # t
      BY <3>2, <1>3, <1>4 DEF IInv, TypeOK, JobOK
    <3>3. QED
      BY <3>1, <3>2
  <2>4. QED
    BY <2>1, <2>2, <2>3, <1>3 DEF Backed
<1>11. QED
  BY <1>8, <1>9, <1>10 DEF IInv

LEMMA FirstIpStepsKeep ==
    ASSUME IInv, NEW t \in Threads,
           \/ RemoveIps(t) \/ ExtendIp(t) \/ SetStatus(t)
           \/ AddIps(t) \/ CleanupExpired(t)
    PROVE  IInv'
<1>0. ips \in IpTable /\ Backed(ips) /\ promise \in [Ips -> Int]
  BY DEF IInv, TypeOK
<1>1. \A S : Overrule(S) => promise' \in [Ips -> Int]
  BY <1>0 DEF Overrule
<1>2. CASE RemoveIps(t)
  <2>1. PICK S \in (SUBSET Ips) \ {{}} :
          /\ StartIpJob(t, "remove", [NoJob EXCEPT !.op = "remove",
                                        !.todo = {ip \in S : ips[ip] # NoEntry}], ips)
          /\ Overrule(S)
    BY <1>2 DEF RemoveIps
  <2> DEFINE j == [NoJob EXCEPT !.op = "remove", !.todo = {ip \in S : ips[ip] # NoEntry}]
  <2>2. j \in Job /\ j.op = "remove" /\ j.todo = {ip \in S : ips[ip] # NoEntry}
    BY NoJobTyped DEF Job, NoJob, Ops
  <2>3. \A ip \in j.todo : ips[ip] # NoEntry
    BY <1>0, <2>2 DEF IpTable
  <2>4. QED
    BY <1>0, <1>1, <2>1, <2>2, <2>3, StartIpJobKeeps
<1>3. CASE ExtendIp(t)
  <2>1. PICK ip \in Ips, d \in Deltas :
          /\ ips[ip] # NoEntry
          /\ StartIpJob(t, "extend", [NoJob EXCEPT !.op = "extend",
                                        !.n = d, !.todo = {ip}], ips)
          /\ IF d < 0 THEN Overrule({ip}) ELSE UNCHANGED promise
    BY <1>3 DEF ExtendIp
  <2> DEFINE j == [NoJob EXCEPT !.op = "extend", !.n = d, !.todo = {ip}]
  <2>2. j \in Job /\ j.op = "extend" /\ j.todo = {ip}
    BY NoJobTyped, NumbersAssumption DEF Job, NoJob, Ops
  <2>3. \A a \in j.todo : ips[a] # NoEntry
    BY <1>0, <2>1, <2>2 DEF IpTable
  <2>4. promise' \in [Ips -> Int]
    BY <1>0, <1>1, <2>1
  <2>5. QED
    BY <1>0, <2>1, <2>2, <2>3, <2>4, StartIpJobKeeps
<1>4. CASE SetStatus(t)
  <2>1. PICK S \in (SUBSET Ips) \ {{}}, status \in {"blocked", "active"} :
          /\ StartIpJob(t, "set_status", [NoJob EXCEPT !.op = "set_status"],
               [ip \in Ips |-> IF ip \in S /\ ips[ip] # NoEntry
                               THEN [ips[ip] EXCEPT !.status = status] ELSE ips[ip]])
          /\ Overrule(S)
    BY <1>4 DEF SetStatus
  <2> DEFINE I == [ip \in Ips |-> IF ip \in S /\ ips[ip] # NoEntry
                                  THEN [ips[ip] EXCEPT !.status = status] ELSE ips[ip]]
             j == [NoJob EXCEPT !.op = "set_status"]
  <2>2. j \in Job /\ j.op = "set_status" /\ j.todo = {}
    BY NoJobTyped DEF Job, NoJob, Ops
  <2>3. I \in IpTable /\ Backed(I)
    BY <1>0 DEF IpTable, Entry, Backed
  <2>4. QED
    BY <1>1, <2>1, <2>2, <2>3, StartIpJobKeeps
<1>5. CASE AddIps(t)
  <2>1. PICK S \in (SUBSET Ips) \ {{}} :
          /\ StartIpJob(t, "add", [NoJob EXCEPT !.op = "add"],
               [ip \in Ips |-> IF ip \in S /\ ips[ip] = NoEntry
                               THEN ActiveEntry(0, NoCode) ELSE ips[ip]])
          /\ UNCHANGED promise
    BY <1>5 DEF AddIps
  <2> DEFINE I == [ip \in Ips |-> IF ip \in S /\ ips[ip] = NoEntry
                                  THEN ActiveEntry(0, NoCode) ELSE ips[ip]]
             j == [NoJob EXCEPT !.op = "add"]
  <2>2. j \in Job /\ j.op = "add" /\ j.todo = {}
    BY NoJobTyped DEF Job, NoJob, Ops
  <2>3. I \in IpTable /\ Backed(I)
    BY <1>0, CodesAssumption DEF IpTable, Entry, ActiveEntry, Backed
  <2>4. QED
    BY <1>0, <2>1, <2>2, <2>3, StartIpJobKeeps
<1>6. CASE CleanupExpired(t)
  <2> DEFINE I == [ip \in Ips |-> IF ip \in Due(ips)
                                  THEN [ips[ip] EXCEPT !.status = "expired"] ELSE ips[ip]]
             j == [NoJob EXCEPT !.op = "cleanup"]
  <2>1. StartIpJob(t, "cleanup", j, I) /\ UNCHANGED promise
    BY <1>6 DEF CleanupExpired
  <2>2. j \in Job /\ j.op = "cleanup" /\ j.todo = {}
    BY NoJobTyped DEF Job, NoJob, Ops
  <2>3. I \in IpTable /\ Backed(I)
    BY <1>0 DEF IpTable, Entry, Backed, Due
  <2>4. QED
    BY <1>0, <2>1, <2>2, <2>3, StartIpJobKeeps
<1>7. QED
  BY <1>2, <1>3, <1>4, <1>5, <1>6

\* The change of one address in a thread's copy, and of its key in another copy.
LEMMA OneAddressKeeps ==
    ASSUME IInv, NEW t \in Threads, job[t].op # "redeem",
           NEW I \in IpTable, Backed(I), ipsSeen' = [ipsSeen EXCEPT ![t] = I],
           NEW j \in Job, j.op = job[t].op, \A ip \in j.todo : I[ip] # NoEntry,
           job' = [job EXCEPT ![t] = j],
           NEW phase \in {"save_keys", "shift", "ips"},
           phase = "shift" => job[t].op = "extend", pc' = [pc EXCEPT ![t] = phase],
           NEW K \in [Threads -> KeyTable], \A u \in Threads : TableOK(K[u]),
           keysSeen' = K,
           UNCHANGED <<disk, now, issued, granted, promise>>
    PROVE  IInv'
<1>1. UNCHANGED <<keys, ips, now, issued, granted, promise>>
  BY DEF disk
<1>2. TypeOK'
  BY <1>1 DEF IInv, TypeOK, Phases
<1>3. TableOK(keys)' /\ Backed(ips)'
  BY <1>1 DEF IInv, TableOK, Backed
<1>4. ASSUME NEW u \in Threads
      PROVE  (TableOK(keysSeen[u]) /\ Backed(ipsSeen[u]) /\ JobOK(u))'
  <2>1. TableOK(keysSeen[u])'
    BY DEF TableOK
  <2>2. Backed(ipsSeen'[u])
    BY DEF IInv, TypeOK
  <2>3. JobOK(u)'
    <3>1. CASE u = t
      BY <3>1, <1>1 DEF IInv, TypeOK, JobOK
    <3>2. CASE u # t
      BY <3>2, <1>1 DEF IInv, TypeOK, JobOK
    <3>3. QED
      BY <3>1, <3>2
  <2>4. QED
    BY <2>1, <2>2, <2>3, <1>1 DEF Backed
<1>5. QED
  BY <1>2, <1>3, <1>4 DEF IInv

LEMMA RemoveOneKeeps ==
    ASSUME IInv, NEW t \in Threads, RemoveOne(t)
    PROVE  IInv'
<1>1. PICK ip \in job[t].todo :
        LET c == ipsSeen[t][ip].key_used
            j == [job[t] EXCEPT !.todo = @ \ {ip}, !.code = c, !.ip = ip] IN
        /\ pc[t] = "ips"
        /\ job[t].op = "remove"
        /\ ipsSeen' = [ipsSeen EXCEPT ![t][ip] = NoEntry]
        /\ \/ /\ c \in Codes
              /\ keys[c] # NoKey
              /\ EditKey(t, c, WithoutIp(keys[c], ip))
              /\ Goes(t, "save_keys", j)
           \/ /\ c \in Codes => keys[c] = NoKey
              /\ Goes(t, "ips", j)
              /\ UNCHANGED keysSeen
        /\ UNCHANGED <<disk, now, issued, granted, promise>>
  BY DEF RemoveOne
<1> DEFINE c == ipsSeen[t][ip].key_used
           j == [job[t] EXCEPT !.todo = @ \ {ip}, !.code = c, !.ip = ip]
           I == [ipsSeen[t] EXCEPT ![ip] = NoEntry]
<1>2. /\ job[t] \in Job /\ ip \in Ips /\ ipsSeen[t] \in IpTable
      /\ Backed(ipsSeen[t]) /\ ipsSeen[t][ip] \in Entry
      /\ \A a \in job[t].todo : ipsSeen[t][a] # NoEntry
  <2>1. job[t] \in Job /\ ip \in job[t].todo /\ ipsSeen[t] \in IpTable /\ now \in Nat
    BY DEF IInv, TypeOK
  <2>2. Backed(ipsSeen[t]) /\ \A a \in job[t].todo : ipsSeen[t][a] # NoEntry
    BY DEF IInv, JobOK
  <2>3. ip \in Ips /\ ipsSeen[t][ip] # NoEntry
    BY <2>1, <2>2 DEF Job
  <2>4. ipsSeen[t][ip] \in Entry
    BY <2>1, <2>3 DEF IpTable
  <2>5. QED
    BY <2>1, <2>2, <2>3, <2>4
<1>3. j \in Job /\ j.op = job[t].op /\ j.todo = job[t].todo \ {ip}
  BY <1>2 DEF Job, Entry
<1>4. /\ I \in IpTable /\ Backed(I)
      /\ \A a \in j.todo : I[a] # NoEntry
      /\ ipsSeen' = [ipsSeen EXCEPT ![t] = I]
  <2>1. I \in IpTable /\ Backed(I)
    BY <1>2 DEF IpTable, Backed
  <2>2. \A a \in j.todo : I[a] # NoEntry
    BY <1>2, <1>3 DEF IpTable, Job
  <2>3. QED
    BY <1>1, <2>1, <2>2
<1>5. CASE /\ c \in Codes
           /\ keys[c] # NoKey
           /\ EditKey(t, c, WithoutIp(keys[c], ip))
           /\ Goes(t, "save_keys", j)
  <2> DEFINE k == WithoutIp(keys[c], ip)
             K == [keysSeen EXCEPT ![t] = [keys EXCEPT ![c] = k]]
  <2>1. k \in Key /\ KeyOK(k)
    BY <1>2, <1>5, KnownKeyOK, WithoutIpOK
  <2>2. [keys EXCEPT ![c] = k] \in KeyTable /\ TableOK([keys EXCEPT ![c] = k])
    BY <1>5, <2>1, EditedOK DEF IInv, TypeOK
  <2>3. K \in [Threads -> KeyTable] /\ \A u \in Threads : TableOK(K[u])
    BY <2>2 DEF IInv, TypeOK
  <2>4. /\ keysSeen' = K
        /\ pc' = [pc EXCEPT ![t] = "save_keys"]
        /\ job' = [job EXCEPT ![t] = j]
    BY <1>5 DEF EditKey, Goes
  <2> HIDE DEF K, I, j
  <2>5. QED
    BY <1>1, <1>3, <1>4, <2>3, <2>4, OneAddressKeeps
<1>6. CASE Goes(t, "ips", j) /\ UNCHANGED keysSeen
  <2>1. /\ keysSeen \in [Threads -> KeyTable]
        /\ \A u \in Threads : TableOK(keysSeen[u])
    BY DEF IInv, TypeOK
  <2>2. pc' = [pc EXCEPT ![t] = "ips"] /\ job' = [job EXCEPT ![t] = j]
    BY <1>6 DEF Goes
  <2> HIDE DEF I, j
  <2>3. QED
    BY <1>1, <1>3, <1>4, <1>6, <2>1, <2>2, OneAddressKeeps
<1>7. QED
  BY <1>1, <1>5, <1>6

LEMMA ExtendOneKeeps ==
    ASSUME IInv, NEW t \in Threads, ExtendOne(t)
    PROVE  IInv'
<1>1. PICK ip \in job[t].todo :
        LET c == ipsSeen[t][ip].key_used
            j == [job[t] EXCEPT !.code = c] IN
        /\ pc[t] = "ips"
        /\ job[t].op = "extend"
        /\ \/ /\ c \in Codes
              /\ keys[c] # NoKey
              /\ EditKey(t, c, Retimed(keys[c], j.n))
              /\ Goes(t, "save_keys", j)
           \/ /\ c \in Codes => keys[c] = NoKey
              /\ Goes(t, "shift", j)
              /\ UNCHANGED keysSeen
        /\ UNCHANGED <<disk, now, issued, ipsSeen, granted, promise>>
  BY DEF ExtendOne
<1> DEFINE c == ipsSeen[t][ip].key_used
           j == [job[t] EXCEPT !.code = c]
           I == ipsSeen[t]
<1>2. /\ job[t] \in Job /\ I \in IpTable /\ Backed(I)
      /\ I[ip] \in Entry
      /\ \A a \in job[t].todo : I[a] # NoEntry
  <2>1. job[t] \in Job /\ ip \in job[t].todo /\ I \in IpTable
    BY DEF IInv, TypeOK
  <2>2. Backed(I) /\ \A a \in job[t].todo : I[a] # NoEntry
    BY DEF IInv, JobOK
  <2>3. ip \in Ips /\ I[ip] # NoEntry
    BY <2>1, <2>2 DEF Job
  <2>4. I[ip] \in Entry
    BY <2>1, <2>3 DEF IpTable
  <2>5. QED
    BY <2>1, <2>2, <2>3, <2>4
<1>3. j \in Job /\ j.op = job[t].op /\ j.todo = job[t].todo /\ j.n \in Int
  BY <1>2 DEF Job, Entry
<1>4. ipsSeen' = [ipsSeen EXCEPT ![t] = I]
  BY <1>1 DEF IInv, TypeOK
<1>5. CASE /\ c \in Codes
           /\ keys[c] # NoKey
           /\ EditKey(t, c, Retimed(keys[c], j.n))
           /\ Goes(t, "save_keys", j)
  <2> DEFINE k == Retimed(keys[c], j.n)
             K == [keysSeen EXCEPT ![t] = [keys EXCEPT ![c] = k]]
  <2>1. k \in Key /\ KeyOK(k)
    BY <1>3, <1>5, KnownKeyOK, RetimedOK
  <2>2. [keys EXCEPT ![c] = k] \in KeyTable /\ TableOK([keys EXCEPT ![c] = k])
    BY <1>5, <2>1, EditedOK DEF IInv, TypeOK
  <2>3. K \in [Threads -> KeyTable] /\ \A u \in Threads : TableOK(K[u])
    BY <2>2 DEF IInv, TypeOK
  <2>4. /\ keysSeen' = K
        /\ pc' = [pc EXCEPT ![t] = "save_keys"]
        /\ job' = [job EXCEPT ![t] = j]
    BY <1>5 DEF EditKey, Goes
  <2> HIDE DEF K, j
  <2>5. QED
    BY <1>1, <1>2, <1>3, <1>4, <2>3, <2>4, OneAddressKeeps
<1>6. CASE Goes(t, "shift", j) /\ UNCHANGED keysSeen
  <2>1. /\ keysSeen \in [Threads -> KeyTable]
        /\ \A u \in Threads : TableOK(keysSeen[u])
    BY DEF IInv, TypeOK
  <2>2. pc' = [pc EXCEPT ![t] = "shift"] /\ job' = [job EXCEPT ![t] = j]
    BY <1>6 DEF Goes
  <2> HIDE DEF j
  <2>3. QED
    BY <1>1, <1>2, <1>3, <1>4, <1>6, <2>1, <2>2, OneAddressKeeps
<1>7. QED
  BY <1>1, <1>5, <1>6

LEMMA ShiftExpiryKeeps ==
    ASSUME IInv, NEW t \in Threads, ShiftExpiry(t)
    PROVE  IInv'
<1>1. PICK ip \in job[t].todo :
        /\ pc[t] = "shift"
        /\ ipsSeen' = [ipsSeen EXCEPT ![t][ip] = Shifted(@, job[t].n)]
        /\ Goes(t, "ips", [job[t] EXCEPT !.todo = {}])
        /\ UNCHANGED <<disk, now, issued, keysSeen, granted, promise>>
  BY DEF ShiftExpiry
<1> DEFINE j == [job[t] EXCEPT !.todo = {}]
           e == Shifted(ipsSeen[t][ip], job[t].n)
           I == [ipsSeen[t] EXCEPT ![ip] = e]
<1>2. /\ job[t] \in Job /\ ip \in Ips /\ ipsSeen[t] \in IpTable /\ now \in Nat
      /\ Backed(ipsSeen[t]) /\ ipsSeen[t][ip] # NoEntry
      /\ ipsSeen[t][ip] \in Entry /\ job[t].op = "extend"
  <2>1. job[t] \in Job /\ ip \in job[t].todo /\ ipsSeen[t] \in IpTable /\ now \in Nat
    BY DEF IInv, TypeOK
  <2>2. Backed(ipsSeen[t]) /\ \A a \in job[t].todo : ipsSeen[t][a] # NoEntry
    BY DEF IInv, JobOK
  <2>3. ip \in Ips /\ ipsSeen[t][ip] # NoEntry
    BY <2>1, <2>2 DEF Job
  <2>4. ipsSeen[t][ip] \in Entry
    BY <2>1, <2>3 DEF IpTable
  <2>5. job[t].op = "extend"
    BY <1>1 DEF IInv, JobOK
  <2>6. QED
    BY <2>1, <2>2, <2>3, <2>4, <2>5
<1>3. j \in Job /\ j.op = job[t].op /\ j.todo = {} /\ job[t].n \in Int
  BY <1>2 DEF Job
<1>4. e \in Entry /\ e.key_used = ipsSeen[t][ip].key_used
  BY <1>2, <1>3 DEF Shifted, Entry
<1>5. /\ I \in IpTable /\ Backed(I)
      /\ ipsSeen' = [ipsSeen EXCEPT ![t] = I]
  <2> HIDE DEF e
  <2>1. I \in IpTable
    BY <1>2, <1>4 DEF IpTable
  <2>2. Backed(I)
    <3>1. SUFFICES ASSUME NEW a \in Ips, I[a] # NoEntry, I[a].key_used \in Codes
                   PROVE  <<I[a].key_used, a>> \in granted
      BY DEF Backed
    <3>2. CASE a # ip
      BY <1>2, <3>1, <3>2 DEF Backed, IpTable
    <3>3. CASE a = ip
      BY <1>2, <1>4, <3>1, <3>3 DEF Backed, IpTable
    <3>4. QED
      BY <3>2, <3>3
  <2>3. QED
    BY <1>1, <2>1, <2>2 DEF e
<1>6. /\ keysSeen \in [Threads -> KeyTable]
      /\ \A u \in Threads : TableOK(keysSeen[u])
  BY DEF IInv, TypeOK
<1>7. pc' = [pc EXCEPT ![t] = "ips"] /\ job' = [job EXCEPT ![t] = j]
  BY <1>1 DEF Goes
<1> HIDE DEF I, j
<1>8. QED
  BY <1>1, <1>2, <1>3, <1>5, <1>6, <1>7, OneAddressKeeps

LEMMA LastStepsKeep ==
    ASSUME IInv, NEW t \in Threads, SaveIps(t) \/ SaveIpsFails(t) \/ Abort(t)
    PROVE  IInv'
<1>1. /\ keysSeen' = [keysSeen EXCEPT ![t] = NoKeys]
      /\ ipsSeen' = [ipsSeen EXCEPT ![t] = NoIps]
      /\ pc' = [pc EXCEPT ![t] = "idle"]
      /\ job' = [job EXCEPT ![t] = NoJob]
      /\ UNCHANGED <<keys, now, issued, granted>>
      /\ ips' \in {ips, ipsSeen[t]}
  BY DEF SaveIps, SaveIpsFails, Abort, Done, Goes, disk
<1>2. ips' \in IpTable /\ Backed(ips')
  BY <1>1 DEF IInv, TypeOK
<1>3. promise' \in [Ips -> Int]
  <2>1. CASE Reply(t) /\ pc[t] = "ips"
    <3>1. CASE job[t].op = "redeem"
      <4>1. ipsSeen[t][job[t].ip] \in Entry
        BY <2>1, <3>1 DEF IInv, JobOK
      <4>2. ipsSeen[t][job[t].ip].expires_at \in Int
        BY <4>1 DEF Entry
      <4>3. QED
        BY <2>1, <3>1, <4>2 DEF Reply, IInv, TypeOK
    <3>2. CASE job[t].op # "redeem"
      BY <2>1, <3>2 DEF Reply, IInv, TypeOK
    <3>3. QED
      BY <3>1, <3>2
  <2>2. CASE UNCHANGED promise
    BY <2>2 DEF IInv, TypeOK
  <2>3. QED
    BY <2>1, <2>2 DEF SaveIps, SaveIpsFails, ReadyToSaveIps, Abort
<1>4. TypeOK'
  BY <1>1, <1>2, <1>3, EmptyTablesOK, NoJobTyped DEF IInv, TypeOK, Phases
<1>5. TableOK(keys)' /\ Backed(ips)'
  BY <1>1, <1>2 DEF IInv, TableOK, Backed
<1>6. ASSUME NEW u \in Threads
      PROVE  (TableOK(keysSeen[u]) /\ Backed(ipsSeen[u]) /\ JobOK(u))'
  <2>1. TableOK(keysSeen'[u])
    BY <1>1, EmptyTablesOK DEF IInv, TypeOK
  <2>2. Backed(ipsSeen'[u])
    BY <1>1, EmptyTablesOK DEF IInv, TypeOK
  <2>3. JobOK(u)'
    BY <1>1 DEF IInv, TypeOK, JobOK, NoJob
  <2>4. QED
    BY <1>1, <2>1, <2>2, <2>3 DEF TableOK, Backed
<1>7. QED
  BY <1>4, <1>5, <1>6 DEF IInv

LEMMA TickKeeps == ASSUME IInv, Tick PROVE IInv'
BY DEF IInv, TypeOK, TableOK, Backed, JobOK, Tick, disk, local

-----------------------------------------------------------------------------
(* The theorems. *)

LEMMA InitIInv == Init => IInv
<1> SUFFICES ASSUME Init PROVE IInv
  OBVIOUS
<1>1. TypeOK
  BY EmptyTablesOK, NoJobTyped DEF Init, TypeOK, Phases
<1>2. TableOK(keys) /\ Backed(ips)
  BY EmptyTablesOK DEF Init
<1>3. ASSUME NEW t \in Threads
      PROVE  TableOK(keysSeen[t]) /\ Backed(ipsSeen[t]) /\ JobOK(t)
  BY EmptyTablesOK DEF Init, JobOK, NoJob
<1>4. QED
  BY <1>1, <1>2, <1>3 DEF IInv

LEMMA NextIInv == IInv /\ [Next]_vars => IInv'
<1> SUFFICES ASSUME IInv, [Next]_vars PROVE IInv'
  OBVIOUS
<1>1. ASSUME NEW t \in Threads, KeyStep(t) PROVE IInv'
  BY <1>1, FirstKeyStepsKeep, RedeemKeyKeeps, SaveKeysKeeps DEF KeyStep
<1>2. ASSUME NEW t \in Threads, IpStep(t) PROVE IInv'
  BY <1>2, ActivateIpKeeps, FirstIpStepsKeep, RemoveOneKeeps, ExtendOneKeeps,
     ShiftExpiryKeeps, LastStepsKeep DEF IpStep
<1>3. ASSUME NEW t \in Threads, Abort(t) PROVE IInv'
  BY <1>3, LastStepsKeep
<1>4. CASE Tick
  BY <1>4, TickKeeps
<1>5. CASE UNCHANGED vars
  BY <1>5 DEF vars, IInv, TypeOK, TableOK, Backed, JobOK
<1>6. QED
  BY <1>1, <1>2, <1>3, <1>4, <1>5 DEF Next

\* Every file and every copy of a file a thread still holds is sound, in every
\* reachable state of any number of concurrent handlers.
THEOREM Soundness == Spec => []IInv
BY InitIInv, NextIInv, PTL DEF Spec

\* The records of both files keep their shape.
THEOREM TypeCorrect == Spec => []TypeOK
<1>1. IInv => TypeOK
  BY DEF IInv
<1>2. QED
  BY <1>1, Soundness, PTL

\* No key in keys.json ever lists more addresses than max_devices.
THEOREM NoKeyOverfull == Spec => []KeyBound
<1>1. IInv => KeyBound
  BY DEF IInv, TableOK, KeyOK, KeyBound, Known
<1>2. QED
  BY <1>1, Soundness, PTL

\* A key's two lists are one list.
THEOREM OneList == Spec => []LockedIsActive
<1>1. IInv => LockedIsActive
  BY DEF IInv, TableOK, KeyOK, LockedIsActive, Known
<1>2. QED
  BY <1>1, Soundness, PTL

\* A key marked used has a holder.
THEOREM UsedKeysHaveHolders == Spec => []UsedKeyHasHolder
<1>1. IInv => UsedKeyHasHolder
  BY DEF IInv, TableOK, KeyOK, UsedKeyHasHolder, Known
<1>2. QED
  BY <1>1, Soundness, PTL

\* Whatever the interleaving and wherever handlers die, an entry of ips.json that
\* names a key was preceded by that key's redeem reaching keys.json.
THEOREM GrantsAreBacked == Spec => []GrantBacked
<1>1. IInv => GrantBacked
  BY DEF IInv, Backed, GrantBacked
<1>2. QED
  BY <1>1, Soundness, PTL

-----------------------------------------------------------------------------
(* One writer.  Where no two handlers overlap, the copy a handler works on is the file *)
(* with its own change, and what the files say of each other can be relied on.          *)

OneWriter == \A s, t \in Threads : s = t

\* Where a handler that moves on is.
LEMMA GoesFrame ==
    ASSUME IInv, NEW t \in Threads, NEW phase, NEW j, Goes(t, phase, j)
    PROVE  pc'[t] = phase /\ job'[t] = j
BY DEF IInv, TypeOK, Goes

LEMMA DoneFrame ==
    ASSUME IInv, NEW t \in Threads, Done(t)
    PROVE  pc'[t] = "idle" /\ job'[t] = NoJob /\ job'[t].op = "none"
BY GoesFrame DEF IInv, TypeOK, Done, NoJob

-----------------------------------------------------------------------------
(* What a redeem promised.  A handler that will write ips.json keeps in its copy what   *)
(* was promised to every address, but the one it redeems for.                           *)

Honours(e, p) == p > now =>
    e # NoEntry /\ e.status = "active" /\ (e.expires_at = 0 \/ e.expires_at >= p)

WritesIps == {"remove", "extend", "set_status", "add", "cleanup"}
Redeeming(t, ip) == job[t].op = "redeem" /\ job[t].ip = ip

CopyHonours(t) ==
    /\ job[t].op \in WritesIps \/ pc[t] = "ips" =>
         \A ip \in Ips : Redeeming(t, ip) \/ Honours(ipsSeen[t][ip], promise[ip])
    /\ job[t].op = "redeem" /\ pc[t] = "ips" => ipsSeen[t][job[t].ip].status = "active"
    /\ job[t].op = "remove" \/ (job[t].op = "extend" /\ job[t].n < 0) =>
         \A ip \in job[t].todo : promise[ip] = 0

Promised == /\ \A ip \in Ips : Honours(ips[ip], promise[ip])
            /\ \A t \in Threads : CopyHonours(t)

\* A step that leaves ips.json and every promise alone
LEMMA PromisesStand ==
    ASSUME OneWriter, Promised, UNCHANGED <<ips, now, promise>>, NEW t \in Threads, CopyHonours(t)'
    PROVE  Promised'
<1>1. \A u \in Threads : CopyHonours(u)'
  BY DEF OneWriter
<1>2. \A ip \in Ips : Honours(ips[ip], promise[ip])'
  BY DEF Promised, Honours
<1>3. QED
  BY <1>1, <1>2 DEF Promised

\* A handler that does not write ips.json, or no longer does
LEMMA NoIpsInHand ==
    ASSUME OneWriter, IInv, Promised, UNCHANGED <<ips, now, promise>>, NEW t \in Threads,
           job'[t].op \notin WritesIps, pc'[t] # "ips"
    PROVE  Promised'
<1>1. CopyHonours(t)'
  BY DEF CopyHonours, WritesIps
<1>2. QED
  BY <1>1, PromisesStand

LEMMA KeyStepPromised ==
    ASSUME OneWriter, IInv, Promised, NEW t \in Threads, KeyStep(t)
    PROVE  Promised'
<1>1. UNCHANGED <<ips, now, promise>>
  BY DEF KeyStep, GenerateKey, RevokeIp, ModifyKeyDuration, RefreshKey, DeleteKey, StartKeyJob,
         RedeemKey, SaveKeys, disk
<1>2. ASSUME NEW op \in Ops \ WritesIps, NEW c, NEW k, StartKeyJob(t, op, c, k) PROVE Promised'
  <2>1. pc'[t] = "save_keys" /\ job'[t] = [NoJob EXCEPT !.op = op, !.code = c]
    BY <1>2, GoesFrame DEF StartKeyJob
  <2>2. job'[t].op = op
    BY <2>1 DEF NoJob
  <2>3. QED
    BY <1>1, <1>2, <2>1, <2>2, NoIpsInHand
<1>3. CASE \/ GenerateKey(t) \/ RevokeIp(t) \/ ModifyKeyDuration(t)
           \/ RefreshKey(t) \/ DeleteKey(t)
  <2>1. {"generate", "revoke", "modify", "refresh", "delete"} \subseteq Ops \ WritesIps
    BY DEF Ops, WritesIps
  <2>2. QED
    BY <1>2, <1>3, <2>1 DEF GenerateKey, RevokeIp, ModifyKeyDuration, RefreshKey, DeleteKey
<1>4. CASE RedeemKey(t)
  <2>1. PICK c \in Codes, ip \in Ips :
             Goes(t, "save_keys", [op |-> "redeem", code |-> c, ip |-> ip,
                                   n |-> keys[c].duration, todo |-> {}])
    BY <1>4 DEF RedeemKey
  <2>2. pc'[t] = "save_keys" /\ job'[t].op = "redeem"
    BY <2>1, GoesFrame
  <2>3. QED
    BY <1>1, <2>2, NoIpsInHand DEF WritesIps
<1>5. CASE SaveKeys(t)
  <2>1. CASE AfterSaveKeys(job[t].op) = "idle"
    <3>1. Done(t)
      BY <1>5, <2>1 DEF SaveKeys
    <3>2. QED
      BY <1>1, <3>1, DoneFrame, NoIpsInHand DEF WritesIps
  <2>2. CASE AfterSaveKeys(job[t].op) # "idle"
    <3>1. /\ pc[t] = "save_keys" /\ UNCHANGED ipsSeen
          /\ pc'[t] = AfterSaveKeys(job[t].op) /\ job'[t] = job[t]
      BY <1>5, <2>2, GoesFrame DEF SaveKeys
    <3>2. pc'[t] = "ips" => job[t].op \in WritesIps
      BY <3>1 DEF AfterSaveKeys, WritesIps
    <3>3. CopyHonours(t)'
      BY <1>1, <3>1, <3>2 DEF Promised, CopyHonours, Honours, Redeeming, WritesIps
    <3>4. QED
      BY <1>1, <3>3, PromisesStand
  <2>3. QED
    BY <2>1, <2>2
<1>6. QED
  BY <1>3, <1>4, <1>5 DEF KeyStep

\* An administrator's command starts with a copy that keeps what he does not overrule.
LEMMA StartIpJobPromised ==
    ASSUME OneWriter, IInv, Promised, NEW t \in Threads, NEW op \in WritesIps, NEW j, NEW I,
           StartIpJob(t, op, j, I), j.op = op,
           \A ip \in Ips : promise'[ip] \in {promise[ip], 0},
           \A ip \in Ips : Honours(ips[ip], promise'[ip]) => Honours(I[ip], promise'[ip]),
           op = "remove" \/ (op = "extend" /\ j.n < 0) => \A ip \in j.todo : promise'[ip] = 0
    PROVE  Promised'
<1>1. /\ ipsSeen'[t] = I /\ pc'[t] = "ips" /\ job'[t] = j
      /\ UNCHANGED <<ips, now>>
  BY GoesFrame DEF StartIpJob, disk, IInv, TypeOK
<1>2. now \in Nat
  BY DEF IInv, TypeOK
<1>3. \A ip \in Ips : Honours(ips[ip], promise'[ip])
  BY <1>2 DEF Promised, Honours
<1>4. \A ip \in Ips : Honours(ips[ip], promise[ip])' /\ Honours(ipsSeen[t][ip], promise[ip])'
  BY <1>1, <1>3 DEF Honours
<1>5. CopyHonours(t)'
  BY <1>1, <1>4 DEF CopyHonours, WritesIps
<1>6. QED
  BY <1>4, <1>5 DEF Promised, OneWriter

LEMMA FirstIpStepsPromised ==
    ASSUME OneWriter, IInv, Promised, NEW t \in Threads,
           RemoveIps(t) \/ ExtendIp(t) \/ SetStatus(t) \/ AddIps(t) \/ CleanupExpired(t)
    PROVE  Promised'
<1> USE DEF WritesIps
<1>0. /\ ips \in IpTable /\ now \in Nat /\ promise \in [Ips -> Int]
      /\ \A ip \in Ips : ips[ip] # NoEntry => ips[ip] \in Entry
  BY DEF IInv, TypeOK, IpTable
<1>1. \A S \in SUBSET Ips : Overrule(S) =>
         \A ip \in Ips : promise'[ip] = IF ip \in S THEN 0 ELSE promise[ip]
  BY DEF Overrule
<1>2. CASE RemoveIps(t)
  <2>1. PICK S \in (SUBSET Ips) \ {{}} :
          /\ StartIpJob(t, "remove", [NoJob EXCEPT !.op = "remove",
                                        !.todo = {ip \in S : ips[ip] # NoEntry}], ips)
          /\ Overrule(S)
    BY <1>2 DEF RemoveIps
  <2> DEFINE j == [NoJob EXCEPT !.op = "remove", !.todo = {ip \in S : ips[ip] # NoEntry}]
  <2>2. j.op = "remove" /\ j.todo \subseteq S
    BY DEF NoJob
  <2>3. QED
    BY <1>1, <2>1, <2>2, StartIpJobPromised
<1>3. CASE ExtendIp(t)
  <2>1. PICK ip \in Ips, d \in Deltas :
          /\ StartIpJob(t, "extend", [NoJob EXCEPT !.op = "extend", !.n = d, !.todo = {ip}], ips)
          /\ IF d < 0 THEN Overrule({ip}) ELSE UNCHANGED promise
    BY <1>3 DEF ExtendIp
  <2> DEFINE j == [NoJob EXCEPT !.op = "extend", !.n = d, !.todo = {ip}]
  <2>2. j.op = "extend" /\ j.todo = {ip} /\ j.n = d
    BY DEF NoJob
  <2>3. \A a \in Ips : promise'[a] = IF d < 0 /\ a = ip THEN 0 ELSE promise[a]
    BY <1>0, <1>1, <2>1
  <2>4. QED
    BY <2>1, <2>2, <2>3, StartIpJobPromised
<1>4. CASE SetStatus(t)
  <2>1. PICK S \in (SUBSET Ips) \ {{}}, status \in {"blocked", "active"} :
          /\ StartIpJob(t, "set_status", [NoJob EXCEPT !.op = "set_status"],
               [ip \in Ips |-> IF ip \in S /\ ips[ip] # NoEntry
                               THEN [ips[ip] EXCEPT !.status = status] ELSE ips[ip]])
          /\ Overrule(S)
    BY <1>4 DEF SetStatus
  <2> DEFINE I == [ip \in Ips |-> IF ip \in S /\ ips[ip] # NoEntry
                                  THEN [ips[ip] EXCEPT !.status = status] ELSE ips[ip]]
             j == [NoJob EXCEPT !.op = "set_status"]
  <2>2. j.op = "set_status"
    BY DEF NoJob
  <2>3. \A ip \in Ips : Honours(ips[ip], promise'[ip]) => Honours(I[ip], promise'[ip])
    BY <1>0, <1>1, <2>1 DEF Honours
  <2>4. \A ip \in Ips : promise'[ip] \in {promise[ip], 0}
    BY <1>1, <2>1
  <2>5. StartIpJob(t, "set_status", j, I)
    BY <2>1
  <2> HIDE DEF I, j
  <2>6. QED
    BY <2>2, <2>3, <2>4, <2>5, StartIpJobPromised
<1>5. CASE AddIps(t)
  <2>1. PICK S \in (SUBSET Ips) \ {{}} :
          /\ StartIpJob(t, "add", [NoJob EXCEPT !.op = "add"],
               [ip \in Ips |-> IF ip \in S /\ ips[ip] = NoEntry
                               THEN ActiveEntry(0, NoCode) ELSE ips[ip]])
          /\ UNCHANGED promise
    BY <1>5 DEF AddIps
  <2> DEFINE I == [ip \in Ips |-> IF ip \in S /\ ips[ip] = NoEntry
                                  THEN ActiveEntry(0, NoCode) ELSE ips[ip]]
             j == [NoJob EXCEPT !.op = "add"]
  <2>2. j.op = "add"
    BY DEF NoJob
  <2>3. \A ip \in Ips : Honours(ips[ip], promise'[ip]) => Honours(I[ip], promise'[ip])
    BY DEF Honours
  <2>4. QED
    BY <2>1, <2>2, <2>3, StartIpJobPromised
<1>6. CASE CleanupExpired(t)
  <2> DEFINE I == [ip \in Ips |-> IF ip \in Due(ips)
                                  THEN [ips[ip] EXCEPT !.status = "expired"] ELSE ips[ip]]
             j == [NoJob EXCEPT !.op = "cleanup"]
  <2>1. StartIpJob(t, "cleanup", j, I) /\ UNCHANGED promise
    BY <1>6 DEF CleanupExpired
  <2>2. j.op = "cleanup"
    BY DEF NoJob
  <2>3. \A ip \in Ips : Honours(ips[ip], promise'[ip]) => Honours(I[ip], promise'[ip])
    <3>1. SUFFICES ASSUME NEW ip \in Ips, promise[ip] > now, Honours(ips[ip], promise[ip])
                   PROVE  ip \notin Due(ips)
      BY <2>1 DEF Honours
    <3>2. ips[ip] \in Entry
      BY <1>0, <3>1 DEF Honours
    <3>3. QED
      BY <1>0, <3>1, <3>2 DEF Honours, Due, Entry
  <2>4. QED
    BY <2>1, <2>2, <2>3, StartIpJobPromised
<1>7. QED
  BY <1>2, <1>3, <1>4, <1>5, <1>6

LEMMA ActivateIpPromised ==
    ASSUME OneWriter, IInv, Promised, NEW t \in Threads, ActivateIp(t)
    PROVE  Promised'
<1> DEFINE j == job[t]
           e == ActiveEntry(now + j.n, j.code)
<1>1. /\ ipsSeen'[t] = [ips EXCEPT ![j.ip] = e] /\ pc'[t] = "ips" /\ job'[t] = j
      /\ UNCHANGED <<ips, now, promise>>
  BY GoesFrame DEF ActivateIp, disk, IInv, TypeOK
<1>2. j.op = "redeem" /\ j.ip \in Ips /\ j.todo = {}
  BY DEF ActivateIp, IInv, JobOK
<1>3. ips \in [Ips -> Entry \cup {NoEntry}]
  BY DEF IInv, TypeOK, IpTable
<1>4. ipsSeen'[t][j.ip].status = "active" /\ \A ip \in Ips \ {j.ip} : ipsSeen'[t][ip] = ips[ip]
  BY <1>1, <1>2, <1>3 DEF ActiveEntry
<1>5. CopyHonours(t)'
  BY <1>1, <1>2, <1>4 DEF Promised, CopyHonours, Honours, Redeeming
<1>6. QED
  BY <1>1, <1>5, PromisesStand

LEMMA OneAddressPromised ==
    ASSUME OneWriter, IInv, Promised, NEW t \in Threads, RemoveOne(t) \/ ExtendOne(t) \/ ShiftExpiry(t)
    PROVE  Promised'
<1>0. /\ UNCHANGED <<ips, now, promise>> /\ now \in Nat /\ promise \in [Ips -> Int]
      /\ job[t] \in Job /\ ipsSeen[t] \in [Ips -> Entry \cup {NoEntry}]
  BY DEF RemoveOne, ExtendOne, ShiftExpiry, disk, IInv, TypeOK, IpTable
<1>1. SUFFICES CopyHonours(t)'
  BY <1>0, PromisesStand
<1>2. CASE RemoveOne(t)
  <2>1. PICK ip \in job[t].todo :
          /\ job[t].op = "remove"
          /\ ipsSeen' = [ipsSeen EXCEPT ![t][ip] = NoEntry]
          /\ \E phase : Goes(t, phase, [job[t] EXCEPT !.todo = @ \ {ip},
                                          !.code = ipsSeen[t][ip].key_used, !.ip = ip])
    BY <1>2 DEF RemoveOne
  <2>2. job'[t] = [job[t] EXCEPT !.todo = @ \ {ip}, !.code = ipsSeen[t][ip].key_used, !.ip = ip]
    BY <2>1, GoesFrame
  <2>3. job'[t].op = "remove" /\ job'[t].todo \subseteq job[t].todo
    BY <1>0, <2>1, <2>2 DEF Job
  <2>4. \A a \in job[t].todo : promise[a] = 0
    BY <2>1 DEF Promised, CopyHonours
  <2>5. \A a \in Ips : Honours(ipsSeen[t][a], promise[a])
    BY <2>1 DEF Promised, CopyHonours, Redeeming, WritesIps
  <2>6. \A a \in Ips : ipsSeen'[t][a] = IF a = ip THEN NoEntry ELSE ipsSeen[t][a]
    BY <1>0, <2>1 DEF IInv, TypeOK
  <2>7. \A a \in Ips : Honours(ipsSeen[t][a], promise[a])'
    BY <1>0, <2>1, <2>4, <2>5, <2>6 DEF Honours
  <2>8. QED
    BY <1>0, <2>3, <2>4, <2>7 DEF CopyHonours
<1>3. CASE ExtendOne(t)
  <2>1. PICK ip \in job[t].todo :
          /\ job[t].op = "extend"
          /\ UNCHANGED ipsSeen
          /\ \E phase : Goes(t, phase, [job[t] EXCEPT !.code = ipsSeen[t][ip].key_used])
    BY <1>3 DEF ExtendOne
  <2>2. job'[t] = [job[t] EXCEPT !.code = ipsSeen[t][ip].key_used]
    BY <2>1, GoesFrame
  <2>3. job'[t].op = "extend" /\ job'[t].todo = job[t].todo /\ job'[t].n = job[t].n
    BY <1>0, <2>1, <2>2 DEF Job
  <2>4. QED
    BY <1>0, <2>1, <2>3 DEF Promised, CopyHonours, Honours, Redeeming, WritesIps
<1>4. CASE ShiftExpiry(t)
  <2>1. PICK ip \in job[t].todo :
          /\ pc[t] = "shift"
          /\ ipsSeen' = [ipsSeen EXCEPT ![t][ip] = Shifted(ipsSeen[t][ip], job[t].n)]
          /\ Goes(t, "ips", [job[t] EXCEPT !.todo = {}])
    BY <1>4 DEF ShiftExpiry
  <2>2. job[t].op = "extend" /\ ip \in Ips /\ ipsSeen[t][ip] # NoEntry
    BY <1>0, <2>1 DEF IInv, JobOK, Job
  <2>3. job'[t].op = "extend" /\ job'[t].todo = {}
    BY <1>0, <2>1, <2>2, GoesFrame DEF Job
  <2>4. \A a \in Ips : Honours(ipsSeen[t][a], promise[a])
    BY <2>2 DEF Promised, CopyHonours, Redeeming, WritesIps
  <2>5. \A a \in Ips : ipsSeen'[t][a] = IF a = ip THEN Shifted(ipsSeen[t][ip], job[t].n)
                                         ELSE ipsSeen[t][a]
    BY <1>0, <2>1 DEF IInv, TypeOK
  <2>6. Honours(ipsSeen'[t][ip], promise[ip])
    <3>1. SUFFICES ASSUME promise[ip] > now PROVE Honours(Shifted(ipsSeen[t][ip], job[t].n), promise[ip])
      BY <2>2, <2>5 DEF Honours
    <3>2. job[t].n \in Int /\ ~(job[t].n < 0)
      BY <1>0, <2>1, <2>2, <3>1 DEF Promised, CopyHonours, Job
    <3>3. /\ ipsSeen[t][ip] \in Entry
          /\ ipsSeen[t][ip].status = "active"
          /\ ipsSeen[t][ip].expires_at = 0 \/ ipsSeen[t][ip].expires_at >= promise[ip]
      BY <1>0, <2>2, <2>4, <3>1 DEF Honours
    <3>4. Shifted(ipsSeen[t][ip], job[t].n) \in Entry
      BY <1>0, <3>2, <3>3 DEF Shifted, Entry
    <3>5. Shifted(ipsSeen[t][ip], job[t].n).status = "active"
      BY <3>3 DEF Shifted, Entry
    <3>6. LET x == Shifted(ipsSeen[t][ip], job[t].n).expires_at IN x = 0 \/ x >= promise[ip]
      BY <1>0, <2>2, <3>1, <3>2, <3>3 DEF Shifted, Entry
    <3>7. Shifted(ipsSeen[t][ip], job[t].n) # NoEntry
      BY <3>4, AbsenceAssumption
    <3>8. QED
      BY <3>5, <3>6, <3>7 DEF Honours
  <2>7. \A a \in Ips : Honours(ipsSeen[t][a], promise[a])'
    BY <1>0, <2>2, <2>4, <2>5, <2>6 DEF Honours
  <2>8. QED
    BY <1>0, <2>3, <2>7 DEF CopyHonours
<1>5. QED
  BY <1>2, <1>3, <1>4

LEMMA SaveIpsPromised ==
    ASSUME OneWriter, IInv, Promised, NEW t \in Threads, SaveIps(t)
    PROVE  Promised'
<1>1. /\ pc[t] = "ips" /\ ips' = ipsSeen[t] /\ UNCHANGED now
      /\ pc'[t] = "idle" /\ job'[t].op = "none"
      /\ Reply(t)
  BY DoneFrame DEF SaveIps, ReadyToSaveIps
<1>2. CopyHonours(t)'
  BY <1>1 DEF CopyHonours, WritesIps
<1>3. ASSUME NEW ip \in Ips PROVE Honours(ips'[ip], promise'[ip])
  <2>1. CASE Redeeming(t, ip)
    <3>1. /\ promise'[ip] = ipsSeen[t][ip].expires_at
          /\ ipsSeen[t][ip].status = "active" /\ ipsSeen[t][ip] \in Entry
      BY <1>1, <2>1 DEF Redeeming, Reply, Promised, CopyHonours, IInv, TypeOK, JobOK
    <3>2. ipsSeen[t][ip] # NoEntry
      BY <3>1, AbsenceAssumption
    <3>3. QED
      BY <1>1, <3>1, <3>2 DEF Honours, Entry
  <2>2. CASE ~Redeeming(t, ip)
    <3>1. promise'[ip] = promise[ip]
      BY <1>1, <2>2 DEF Redeeming, Reply, IInv, TypeOK, JobOK
    <3>2. QED
      BY <1>1, <2>2, <3>1 DEF Promised, CopyHonours
  <2>3. QED
    BY <2>1, <2>2
<1>4. \A ip \in Ips : Honours(ips[ip], promise[ip])'
  BY <1>1, <1>3 DEF Honours
<1>5. QED
  BY <1>2, <1>4 DEF Promised, OneWriter

LEMMA PromisedNext ==
    ASSUME OneWriter, ~SaveErrors
    PROVE  IInv /\ Promised /\ [Next]_vars => Promised'
<1> SUFFICES ASSUME IInv, Promised, [Next]_vars PROVE Promised'
  OBVIOUS
<1>1. ASSUME NEW t \in Threads, IpStep(t) PROVE Promised'
  BY <1>1, ActivateIpPromised, FirstIpStepsPromised, OneAddressPromised, SaveIpsPromised
     DEF IpStep, SaveIpsFails
<1>2. ASSUME NEW t \in Threads, Abort(t) PROVE Promised'
  BY <1>2, DoneFrame, NoIpsInHand DEF Abort, disk, WritesIps
<1>3. CASE Tick
  <2>1. /\ now' = now + 1 /\ now \in Nat /\ promise \in [Ips -> Int]
        /\ UNCHANGED <<ips, pc, job, ipsSeen, promise>>
    BY <1>3 DEF Tick, disk, local, IInv, TypeOK
  <2>2. \A ip \in Ips : promise[ip] > now + 1 => promise[ip] > now
    BY <2>1
  <2>3. QED
    BY <2>1, <2>2 DEF Promised, CopyHonours, Honours, Redeeming
<1>4. CASE UNCHANGED vars
  BY <1>4 DEF vars, Promised, CopyHonours, Honours, Redeeming
<1>5. QED
  BY <1>1, <1>2, <1>3, <1>4, KeyStepPromised DEF Next

\* An address that was told "OK" is admitted until the expiry it was told, unless an
\* administrator overrules it, for any number of addresses and keys: handlers that do
\* not overlap may still die anywhere (keys.py:110-148, bot_control.py:871).
THEOREM PromisesKept == OneWriter /\ ~SaveErrors => (Spec => []ActivatedStaysActive)
<1> SUFFICES ASSUME OneWriter, ~SaveErrors PROVE Spec => []ActivatedStaysActive
  OBVIOUS
<1>1. Init => Promised
  BY DEF Init, Promised, CopyHonours, Honours, NoJob
<1>2. IInv /\ Promised => ActivatedStaysActive
  <2>1. SUFFICES ASSUME IInv, Promised, NEW ip \in Ips, promise[ip] > now PROVE IsActive(ip)
    BY DEF ActivatedStaysActive
  <2>2. ips[ip] \in Entry /\ ips[ip].expires_at \in Int /\ now \in Nat /\ promise[ip] \in Int
    BY <2>1 DEF IInv, TypeOK, IpTable, Promised, Honours, Entry
  <2>3. QED
    BY <2>1, <2>2 DEF Promised, Honours, IsActive
<1>3. Spec => []Promised
  BY <1>1, PromisedNext, Soundness, PTL DEF Spec
<1>4. QED
  BY <1>2, <1>3, Soundness, PTL

-----------------------------------------------------------------------------
(* keys.json is a licence.  The copy that a handler is about to write differs from the  *)
(* file in one key, and there as its operation says.                                    *)

\* From what key to what key an operation goes.
KeyChange(j, from, to) ==
    IF j.op = "generate"
    THEN from = NoKey /\ to # NoKey /\ to.max_devices \in Limits /\ to.active = {}
    ELSE /\ from # NoKey
         /\ j.op # "delete" => to # NoKey /\ to.max_devices = from.max_devices
         /\ \/ j.op = "delete" /\ to = NoKey
            \/ j.op = "redeem" /\ to.active = from.active \cup {j.ip}
                               /\ HasRoom(from.active, from, j.ip)
            \/ j.op \in {"revoke", "remove"} /\ \E ip \in Ips : to.active = from.active \ {ip}
            \/ j.op \in {"modify", "refresh", "extend"} /\ to.active = from.active

EditsOneKey(t) ==
    LET c == job[t].code IN
    /\ c \in Codes
    /\ keysSeen[t] = [keys EXCEPT ![c] = keysSeen[t][c]]
    /\ job[t].op = "generate" => c \in issued
    /\ KeyChange(job[t], keys[c], keysSeen[t][c])

Drawn == /\ \A c \in Codes : Known(c) => c \in issued
         /\ \A t \in Threads : pc[t] = "save_keys" => EditsOneKey(t)
         /\ \A t \in Threads : job[t].op = "generate" => pc[t] = "save_keys"
         /\ \A t \in Threads : pc[t] = "idle" => job[t].op = "none"

LEMMA ToSaveKeys ==
    ASSUME OneWriter, IInv, Drawn, NEW t \in Threads, NEW j, NEW c \in Codes, NEW k,
           j.code = c, j.op = "generate" => c \in issued', issued \subseteq issued',
           KeyChange(j, keys[c], k), UNCHANGED keys,
           EditKey(t, c, k), Goes(t, "save_keys", j)
    PROVE  Drawn'
<1>1. pc'[t] = "save_keys" /\ job'[t] = j
  BY GoesFrame
<1>2. keysSeen'[t] = [keys EXCEPT ![c] = k] /\ [keys EXCEPT ![c] = k][c] = k
  BY DEF EditKey, IInv, TypeOK, KeyTable
<1>3. KeyChange(job[t], keys[c], keysSeen[t][c])'
  BY <1>1, <1>2 DEF KeyChange, HasRoom, Limits, NewKey
<1>4. EditsOneKey(t)'
  BY <1>1, <1>2, <1>3 DEF EditsOneKey
<1>5. QED
  BY <1>1, <1>4 DEF Drawn, Known, OneWriter

LEMMA PastKeys ==
    ASSUME OneWriter, IInv, Drawn, NEW t \in Threads, UNCHANGED <<keys, issued>>,
           pc'[t] # "save_keys", job'[t].op # "generate", pc'[t] = "idle" => job'[t].op = "none"
    PROVE  Drawn'
BY DEF Drawn, Known, OneWriter

LEMMA SameDevices ==
    ASSUME NEW k \in Key
    PROVE  /\ \A ip : Redeemed(k, ip).max_devices = k.max_devices
                      /\ Redeemed(k, ip).active = k.active \cup {ip}
           /\ \A ip : WithoutIp(k, ip).max_devices = k.max_devices
                      /\ WithoutIp(k, ip).active = k.active \ {ip}
           /\ \A d : Retimed(k, d).max_devices = k.max_devices /\ Retimed(k, d).active = k.active
           /\ Refreshed(k).max_devices = k.max_devices /\ Refreshed(k).active = k.active
BY DEF Key, NewKey, Redeemed, WithoutIp, Retimed, Refreshed

LEMMA FirstKeyStepsDrawn ==
    ASSUME OneWriter, IInv, Drawn, NEW t \in Threads,
           \/ GenerateKey(t) \/ RevokeIp(t) \/ ModifyKeyDuration(t)
           \/ RefreshKey(t) \/ DeleteKey(t)
    PROVE  Drawn'
<1>1. ASSUME NEW op, NEW c \in Codes, NEW k, StartKeyJob(t, op, c, k), issued \subseteq issued',
             op = "generate" => c \in issued',
             KeyChange([NoJob EXCEPT !.op = op, !.code = c], keys[c], k)
      PROVE  Drawn'
  <2> DEFINE j == [NoJob EXCEPT !.op = op, !.code = c]
  <2>1. j.op = op /\ j.code = c
    BY DEF NoJob
  <2>2. EditKey(t, c, k) /\ Goes(t, "save_keys", j) /\ UNCHANGED keys
    BY <1>1 DEF StartKeyJob, disk
  <2> HIDE DEF j
  <2>3. QED
    BY <1>1, <2>1, <2>2, ToSaveKeys DEF j
<1>2. \A op, c : [NoJob EXCEPT !.op = op, !.code = c].op = op
  BY DEF NoJob
<1>3. CASE GenerateKey(t)
  <2>1. PICK c \in Codes \ issued, d \in Durations, n \in DeviceCounts :
             /\ StartKeyJob(t, "generate", c, NewKey(d, n))
             /\ issued' = issued \cup {c}
    BY <1>3 DEF GenerateKey
  <2>2. keys[c] = NoKey
    BY <2>1 DEF Drawn, Known
  <2>3. NewKey(d, n) \in Key
    BY NewKeyOK, NumbersAssumption
  <2>4. NewKey(d, n) # NoKey
    BY <2>3, AbsenceAssumption
  <2>5. NewKey(d, n).max_devices = NewKey(0, n).max_devices /\ NewKey(d, n).active = {}
    BY DEF NewKey
  <2>6. KeyChange([NoJob EXCEPT !.op = "generate", !.code = c], keys[c], NewKey(d, n))
    BY <1>2, <2>2, <2>4, <2>5 DEF KeyChange, Limits
  <2>7. QED
    BY <1>1, <2>1, <2>6
<1>4. CASE RevokeIp(t)
  <2>1. PICK c \in Codes, ip \in Ips :
             /\ keys[c] # NoKey
             /\ StartKeyJob(t, "revoke", c, WithoutIp(keys[c], ip))
             /\ UNCHANGED issued
    BY <1>4 DEF RevokeIp
  <2>2. keys[c] \in Key /\ WithoutIp(keys[c], ip) \in Key
    BY <2>1, KnownKeyOK, WithoutIpOK
  <2> DEFINE k == WithoutIp(keys[c], ip)
  <2>3. KeyChange([NoJob EXCEPT !.op = "revoke", !.code = c], keys[c], k)
    BY <1>2, <2>1, <2>2, SameDevices, AbsenceAssumption DEF KeyChange
  <2>4. StartKeyJob(t, "revoke", c, k) /\ UNCHANGED issued
    BY <2>1
  <2> HIDE DEF k
  <2>5. QED
    BY <1>1, <2>3, <2>4
<1>5. CASE ModifyKeyDuration(t)
  <2>1. PICK c \in Codes, d \in Deltas :
             /\ keys[c] # NoKey
             /\ StartKeyJob(t, "modify", c, Retimed(keys[c], d))
             /\ UNCHANGED issued
    BY <1>5 DEF ModifyKeyDuration
  <2>2. keys[c] \in Key /\ Retimed(keys[c], d) \in Key
    BY <2>1, KnownKeyOK, RetimedOK, NumbersAssumption
  <2> DEFINE k == Retimed(keys[c], d)
  <2>3. KeyChange([NoJob EXCEPT !.op = "modify", !.code = c], keys[c], k)
    BY <1>2, <2>1, <2>2, SameDevices, AbsenceAssumption DEF KeyChange
  <2>4. StartKeyJob(t, "modify", c, k) /\ UNCHANGED issued
    BY <2>1
  <2> HIDE DEF k
  <2>5. QED
    BY <1>1, <2>3, <2>4
<1>6. CASE RefreshKey(t)
  <2>1. PICK c \in Codes :
             /\ keys[c] # NoKey
             /\ StartKeyJob(t, "refresh", c, Refreshed(keys[c]))
             /\ UNCHANGED issued
    BY <1>6 DEF RefreshKey
  <2>2. keys[c] \in Key /\ Refreshed(keys[c]) \in Key
    BY <2>1, KnownKeyOK, RefreshedOK
  <2> DEFINE k == Refreshed(keys[c])
  <2>3. KeyChange([NoJob EXCEPT !.op = "refresh", !.code = c], keys[c], k)
    BY <1>2, <2>1, <2>2, SameDevices, AbsenceAssumption DEF KeyChange
  <2>4. StartKeyJob(t, "refresh", c, k) /\ UNCHANGED issued
    BY <2>1
  <2> HIDE DEF k
  <2>5. QED
    BY <1>1, <2>3, <2>4
<1>7. CASE DeleteKey(t)
  <2>1. PICK c \in Codes : /\ keys[c] # NoKey
                           /\ StartKeyJob(t, "delete", c, NoKey)
                           /\ UNCHANGED issued
    BY <1>7 DEF DeleteKey
  <2>2. KeyChange([NoJob EXCEPT !.op = "delete", !.code = c], keys[c], NoKey)
    BY <1>2, <2>1 DEF KeyChange
  <2>3. QED
    BY <1>1, <2>1, <2>2
<1>8. QED
  BY <1>3, <1>4, <1>5, <1>6, <1>7

LEMMA RedeemKeyDrawn ==
    ASSUME OneWriter, IInv, Drawn, NEW t \in Threads, RedeemKey(t)
    PROVE  Drawn'
<1>1. PICK c \in Codes, ip \in Ips :
           /\ Redeemable(keys, c, ip)
           /\ EditKey(t, c, Redeemed(keys[c], ip))
           /\ Goes(t, "save_keys", [op |-> "redeem", code |-> c, ip |-> ip,
                                    n |-> keys[c].duration, todo |-> {}])
           /\ UNCHANGED <<keys, issued>>
  BY DEF RedeemKey, disk
<1> DEFINE j == [op |-> "redeem", code |-> c, ip |-> ip, n |-> keys[c].duration, todo |-> {}]
           k == Redeemed(keys[c], ip)
<1>2. keys[c] # NoKey /\ HasRoom(keys[c].active, keys[c], ip)
  BY <1>1 DEF Redeemable, DeviceAllows
<1>3. keys[c] \in Key /\ k \in Key
  BY <1>1, <1>2, KnownKeyOK, RedeemedOK DEF IInv, TypeOK
<1>4. k # NoKey /\ k.max_devices = keys[c].max_devices /\ k.active = keys[c].active \cup {ip}
  BY <1>3, SameDevices, AbsenceAssumption
<1> HIDE DEF k
<1>5. KeyChange(j, keys[c], k)
  BY <1>2, <1>4 DEF KeyChange
<1>6. j.code = c /\ j.op # "generate"
  OBVIOUS
<1> HIDE DEF j
<1>7. QED
  BY <1>1, <1>5, <1>6, ToSaveKeys DEF j, k

\* The one key that changes in keys.json
LEMMA SaveKeysDrawn ==
    ASSUME OneWriter, IInv, Drawn, NEW t \in Threads, SaveKeys(t)
    PROVE  /\ Drawn' /\ EditsOneKey(t) /\ keys' = keysSeen[t] /\ UNCHANGED issued
           /\ job'[t].op # "generate"
<1>1. pc[t] = "save_keys" /\ keys' = keysSeen[t] /\ UNCHANGED issued
  BY DEF SaveKeys
<1>2. EditsOneKey(t)
  BY <1>1 DEF Drawn
<1>3. pc'[t] # "save_keys" /\ job'[t].op # "generate" /\ (pc'[t] = "idle" => job'[t].op = "none")
  BY DoneFrame, GoesFrame DEF SaveKeys, AfterSaveKeys
<1>4. \A c \in Codes : Known(c)' => c \in issued
  BY <1>1, <1>2 DEF EditsOneKey, KeyChange, Drawn, Known, IInv, TypeOK, KeyTable
<1>5. Drawn'
  BY <1>1, <1>3, <1>4 DEF Drawn, OneWriter
<1>6. QED
  BY <1>1, <1>2, <1>3, <1>5

LEMMA IpStepDrawn ==
    ASSUME OneWriter, IInv, Drawn, NEW t \in Threads, IpStep(t)
    PROVE  /\ Drawn' /\ UNCHANGED <<keys, issued>>
           /\ job[t].op # "generate" /\ job'[t].op # "generate"
<1>1. UNCHANGED <<keys, issued>>
  BY DEF IpStep, ActivateIp, RemoveIps, RemoveOne, ExtendIp, ExtendOne, ShiftExpiry, SetStatus, AddIps,
         CleanupExpired, StartIpJob, SaveIps, SaveIpsFails, disk
<1>2. job[t] \in Job /\ pc[t] # "save_keys"
  BY DEF IInv, TypeOK, IpStep, ActivateIp, RemoveIps, RemoveOne, ExtendIp, ExtendOne, ShiftExpiry, SetStatus,
         AddIps, CleanupExpired, StartIpJob, SaveIps, SaveIpsFails, ReadyToSaveIps, Idle
<1>3. job[t].op # "generate"
  BY <1>2 DEF Drawn
<1>4. CASE RemoveIps(t) \/ ExtendIp(t) \/ SetStatus(t) \/ AddIps(t) \/ CleanupExpired(t)
  <2>1. PICK j, op, I : StartIpJob(t, op, j, I) /\ j.op # "generate"
    <3>1. CASE RemoveIps(t)
      <4>1. PICK S : StartIpJob(t, "remove", [NoJob EXCEPT !.op = "remove",
                                               !.todo = {ip \in S : ips[ip] # NoEntry}], ips)
        BY <3>1 DEF RemoveIps
      <4>2. [NoJob EXCEPT !.op = "remove", !.todo = {ip \in S : ips[ip] # NoEntry}].op = "remove"
        BY DEF NoJob
      <4>3. QED
        BY <4>1, <4>2, Zenon
    <3>2. CASE ExtendIp(t)
      <4>1. PICK ip, d : StartIpJob(t, "extend", [NoJob EXCEPT !.op = "extend", !.n = d, !.todo = {ip}], ips)
        BY <3>2 DEF ExtendIp
      <4>2. [NoJob EXCEPT !.op = "extend", !.n = d, !.todo = {ip}].op = "extend"
        BY DEF NoJob
      <4>3. QED
        BY <4>1, <4>2, Zenon
    <3>3. CASE SetStatus(t) \/ AddIps(t) \/ CleanupExpired(t)
      <4>1. \A op : [NoJob EXCEPT !.op = op].op = op
        BY DEF NoJob
      <4>2. \E I : \E op \in {"set_status", "add", "cleanup"} : StartIpJob(t, op, [NoJob EXCEPT !.op = op], I)
        BY <3>3, Zenon DEF SetStatus, AddIps, CleanupExpired
      <4>3. PICK I : \E op \in {"set_status", "add", "cleanup"} :
                        StartIpJob(t, op, [NoJob EXCEPT !.op = op], I)
        BY <4>2
      <4>4. PICK op \in {"set_status", "add", "cleanup"} : StartIpJob(t, op, [NoJob EXCEPT !.op = op], I)
        BY <4>3
      <4>5. [NoJob EXCEPT !.op = op].op # "generate"
        BY <4>1, <4>4
      <4>6. QED
        BY <4>4, <4>5, Zenon
    <3>4. QED
      BY <1>4, <3>1, <3>2, <3>3
  <2>2. pc'[t] = "ips" /\ job'[t].op # "generate"
    BY <2>1, GoesFrame DEF StartIpJob
  <2>3. QED
    BY <1>1, <1>3, <2>2, PastKeys
<1>5. CASE ActivateIp(t) \/ SaveIps(t) \/ SaveIpsFails(t)
  <2>1. /\ pc'[t] # "save_keys" /\ job'[t].op # "generate"
        /\ pc'[t] = "idle" => job'[t].op = "none"
    BY <1>3, <1>5, GoesFrame, DoneFrame DEF ActivateIp, SaveIps, SaveIpsFails
  <2>2. QED
    BY <1>1, <1>3, <2>1, PastKeys
<1>6. CASE ShiftExpiry(t)
  <2>1. pc'[t] = "ips" /\ job'[t] = [job[t] EXCEPT !.todo = {}]
    BY <1>6, GoesFrame DEF ShiftExpiry
  <2>2. job'[t].op = job[t].op
    BY <1>2, <2>1 DEF Job
  <2>3. QED
    BY <1>1, <1>3, <2>1, <2>2, PastKeys
<1>7. CASE RemoveOne(t)
  <2>1. PICK ip \in job[t].todo :
          LET c == ipsSeen[t][ip].key_used
              j == [job[t] EXCEPT !.todo = @ \ {ip}, !.code = c, !.ip = ip] IN
          /\ job[t].op = "remove"
          /\ \/ /\ c \in Codes /\ keys[c] # NoKey
                /\ EditKey(t, c, WithoutIp(keys[c], ip)) /\ Goes(t, "save_keys", j)
             \/ Goes(t, "ips", j)
    BY <1>7 DEF RemoveOne
  <2> DEFINE c == ipsSeen[t][ip].key_used
             j == [job[t] EXCEPT !.todo = @ \ {ip}, !.code = c, !.ip = ip]
             k == WithoutIp(keys[c], ip)
  <2>2. j.op = "remove" /\ j.code = c /\ ip \in Ips
    BY <1>2, <2>1 DEF Job
  <2>3. CASE Goes(t, "ips", j)
    <3> HIDE DEF j
    <3>1. pc'[t] = "ips" /\ job'[t] = j
      BY <2>3, GoesFrame
    <3>2. QED
      BY <1>1, <1>3, <2>2, <3>1, PastKeys
  <2>4. CASE /\ c \in Codes /\ keys[c] # NoKey
             /\ EditKey(t, c, k) /\ Goes(t, "save_keys", j)
    <3>1. keys[c] \in Key /\ k \in Key
      BY <2>2, <2>4, KnownKeyOK, WithoutIpOK
    <3>2. k # NoKey /\ k.max_devices = keys[c].max_devices /\ k.active = keys[c].active \ {ip}
      BY <3>1, SameDevices, AbsenceAssumption
    <3> HIDE DEF j, k
    <3>3. KeyChange(j, keys[c], k)
      BY <2>2, <2>4, <3>2 DEF KeyChange
    <3>4. job'[t] = j
      BY <2>4, GoesFrame
    <3>5. Drawn'
      BY <1>1, <2>2, <2>4, <3>3, ToSaveKeys
    <3>6. QED
      BY <1>1, <1>3, <2>2, <3>4, <3>5
  <2>5. QED
    BY <2>1, <2>3, <2>4
<1>8. CASE ExtendOne(t)
  <2>1. PICK ip \in job[t].todo :
          LET c == ipsSeen[t][ip].key_used
              j == [job[t] EXCEPT !.code = c] IN
          /\ job[t].op = "extend"
          /\ \/ /\ c \in Codes /\ keys[c] # NoKey
                /\ EditKey(t, c, Retimed(keys[c], j.n)) /\ Goes(t, "save_keys", j)
             \/ Goes(t, "shift", j)
    BY <1>8 DEF ExtendOne
  <2> DEFINE c == ipsSeen[t][ip].key_used
             j == [job[t] EXCEPT !.code = c]
             k == Retimed(keys[c], j.n)
  <2>2. j.op = "extend" /\ j.code = c /\ j.n \in Int
    BY <1>2, <2>1 DEF Job
  <2>3. CASE Goes(t, "shift", j)
    <3> HIDE DEF j
    <3>1. pc'[t] = "shift" /\ job'[t] = j
      BY <2>3, GoesFrame
    <3>2. QED
      BY <1>1, <1>3, <2>2, <3>1, PastKeys
  <2>4. CASE /\ c \in Codes /\ keys[c] # NoKey
             /\ EditKey(t, c, k) /\ Goes(t, "save_keys", j)
    <3>1. keys[c] \in Key /\ k \in Key
      BY <2>2, <2>4, KnownKeyOK, RetimedOK
    <3>2. k # NoKey /\ k.max_devices = keys[c].max_devices /\ k.active = keys[c].active
      BY <3>1, SameDevices, AbsenceAssumption
    <3> HIDE DEF j, k
    <3>3. KeyChange(j, keys[c], k)
      BY <2>2, <2>4, <3>2 DEF KeyChange
    <3>4. job'[t] = j
      BY <2>4, GoesFrame
    <3>5. Drawn'
      BY <1>1, <2>2, <2>4, <3>3, ToSaveKeys
    <3>6. QED
      BY <1>1, <1>3, <2>2, <3>4, <3>5
  <2>5. QED
    BY <2>1, <2>3, <2>4
<1>9. QED
  BY <1>4, <1>5, <1>6, <1>7, <1>8 DEF IpStep

LEMMA DrawnNext ==
    ASSUME OneWriter
    PROVE  IInv /\ Drawn /\ [Next]_vars => Drawn'
<1> SUFFICES ASSUME IInv, Drawn, [Next]_vars PROVE Drawn'
  OBVIOUS
<1>1. ASSUME NEW t \in Threads, KeyStep(t) PROVE Drawn'
  BY <1>1, FirstKeyStepsDrawn, RedeemKeyDrawn, SaveKeysDrawn DEF KeyStep
<1>2. ASSUME NEW t \in Threads, IpStep(t) PROVE Drawn'
  BY <1>2, IpStepDrawn
<1>3. ASSUME NEW t \in Threads, Abort(t) PROVE Drawn'
  BY <1>3, DoneFrame, PastKeys DEF Abort, disk
<1>4. CASE Tick \/ UNCHANGED vars
  <2>1. UNCHANGED <<keys, issued, pc, job, keysSeen>>
    BY <1>4 DEF Tick, disk, local, vars
  <2>2. ASSUME NEW t \in Threads, EditsOneKey(t) PROVE EditsOneKey(t)'
    BY <2>1, <2>2 DEF EditsOneKey, KeyChange, HasRoom, Limits, NewKey
  <2>3. QED
    BY <2>1, <2>2 DEF Drawn, Known
<1>5. QED
  BY <1>1, <1>2, <1>3, <1>4 DEF Next

\* The refinement mapping, as KeyLedger gives it to License
Licence == [c \in Codes |->
    IF Known(c)
    THEN [stage |-> "valid", limit |-> keys[c].max_devices, holders |-> keys[c].active]
    ELSE [stage |-> IF c \in issued /\ ~Generating(c) THEN "withdrawn" ELSE "unissued",
          limit |-> 0, holders |-> {}]]

\* A step of the licence of one key
LEMMA IssueStep ==
    ASSUME NEW c \in Codes, Licence[c] = L!Unissued, NEW n \in Limits,
           Licence' = [Licence EXCEPT ![c] = L!Valid(n, {})]
    PROVE  L!Next
<1>1. L!Issue(c)
  BY DEF L!Issue, Licence
<1>2. QED
  BY <1>1 DEF L!Next

\* License has its own copy of the standard module.
LEMMA SameCount == \A S : L!Cardinality(S) = Cardinality(S)
BY DEF L!Cardinality, Cardinality

LEMMA GrantStep ==
    ASSUME NEW c \in Codes, Licence[c].stage = "valid", NEW ip \in Ips,
           Cardinality(Licence[c].holders) < Licence[c].limit,
           Licence' = [Licence EXCEPT ![c].holders = @ \cup {ip}]
    PROVE  L!Next
<1>1. L!Cardinality(Licence[c].holders) < Licence[c].limit
  BY SameCount
<1>2. L!Grant(c, ip)
  BY <1>1 DEF L!Grant, Licence
<1>3. QED
  BY <1>2 DEF L!Next

LEMMA ReleaseStep ==
    ASSUME NEW c \in Codes, Licence[c].stage = "valid", NEW ip \in Ips,
           Licence' = [Licence EXCEPT ![c].holders = @ \ {ip}]
    PROVE  L!Next
<1>1. L!Release(c, ip)
  BY DEF L!Release, Licence
<1>2. QED
  BY <1>1 DEF L!Next

LEMMA WithdrawStep ==
    ASSUME NEW c \in Codes, Licence[c].stage \in {"unissued", "valid"},
           Licence' = [Licence EXCEPT ![c] = L!Withdrawn]
    PROVE  L!Next
<1>1. L!Withdraw(c)
  BY DEF L!Withdraw, Licence
<1>2. QED
  BY <1>1 DEF L!Next

LEMMA LicenceInit == Init => L!Init
<1> SUFFICES ASSUME Init PROVE L!Init
  OBVIOUS
<1>1. ASSUME NEW c \in Codes PROVE Licence[c] = L!Unissued
  BY DEF Init, NoKeys, Known, Licence, L!Unissued
<1>2. QED
  BY <1>1 DEF L!Init, Licence

\* A code that keys.json does not hold is drawn and lost, or it is not.
Lost(c) == c \in issued /\ ~Generating(c)

LEMMA LicenceStutters ==
    ASSUME UNCHANGED keys, \A c \in Codes : ~Known(c) => (Lost(c)' <=> Lost(c))
    PROVE  UNCHANGED Licence
BY DEF Licence, Known, Lost

LEMMA LostByOthers ==
    ASSUME OneWriter, NEW t \in Threads, NEW c \in Codes,
           job[t].op = "generate" => job[t].code # c,
           job'[t].op = "generate" => job'[t].code # c,
           c \in issued' <=> c \in issued
    PROVE  Lost(c)' <=> Lost(c)
BY DEF Lost, Generating, OneWriter

\* The steps that leave keys.json alone
LEMMA NotGenerating ==
    ASSUME OneWriter, NEW t \in Threads, UNCHANGED <<keys, issued>>,
           job[t].op # "generate", job'[t].op # "generate"
    PROVE  UNCHANGED Licence
BY LostByOthers, LicenceStutters

LEMMA FirstKeyStepsStutter ==
    ASSUME OneWriter, IInv, Drawn, NEW t \in Threads,
           \/ GenerateKey(t) \/ RevokeIp(t) \/ ModifyKeyDuration(t)
           \/ RefreshKey(t) \/ DeleteKey(t) \/ RedeemKey(t)
    PROVE  UNCHANGED Licence
<1>1. Idle(t) /\ UNCHANGED keys
  BY DEF GenerateKey, RevokeIp, ModifyKeyDuration, RefreshKey, DeleteKey, RedeemKey, StartKeyJob, disk
<1>2. job[t].op = "none"
  BY <1>1 DEF Drawn, Idle
<1>3. \A op, c : [NoJob EXCEPT !.op = op, !.code = c].op = op
                 /\ [NoJob EXCEPT !.op = op, !.code = c].code = c
  BY DEF NoJob
<1>4. CASE GenerateKey(t)
  <2>1. PICK c \in Codes \ issued, d \in Durations, n \in DeviceCounts :
             /\ StartKeyJob(t, "generate", c, NewKey(d, n))
             /\ issued' = issued \cup {c}
    BY <1>4 DEF GenerateKey
  <2>2. job'[t].op = "generate" /\ job'[t].code = c
    <3>1. job'[t] = [NoJob EXCEPT !.op = "generate", !.code = c]
      BY <2>1, GoesFrame DEF StartKeyJob
    <3>2. QED
      BY <3>1, <1>3
  <2>3. ~Lost(c) /\ ~Lost(c)'
    BY <2>1, <2>2 DEF Lost, Generating
  <2>4. \A e \in Codes \ {c} : Lost(e)' <=> Lost(e)
    BY <1>2, <2>1, <2>2, LostByOthers
  <2>5. QED
    BY <1>1, <2>3, <2>4, LicenceStutters
<1>5. CASE RedeemKey(t)
  <2>1. UNCHANGED issued /\ job'[t].op = "redeem"
    BY <1>5, GoesFrame DEF RedeemKey
  <2>2. QED
    BY <1>1, <1>2, <2>1, NotGenerating
<1>6. CASE RevokeIp(t) \/ ModifyKeyDuration(t) \/ RefreshKey(t) \/ DeleteKey(t)
  <2>0. \E c, k : \E op \in {"revoke", "modify", "refresh", "delete"} : StartKeyJob(t, op, c, k)
    <3>1. CASE RevokeIp(t)
      BY <3>1, Zenon DEF RevokeIp
    <3>2. CASE ModifyKeyDuration(t)
      BY <3>2, Zenon DEF ModifyKeyDuration
    <3>3. CASE RefreshKey(t)
      BY <3>3, Zenon DEF RefreshKey
    <3>4. CASE DeleteKey(t)
      BY <3>4, Zenon DEF DeleteKey
    <3>5. QED
      BY <1>6, <3>1, <3>2, <3>3, <3>4
  <2>1. PICK op, c, k : op \in {"revoke", "modify", "refresh", "delete"} /\ StartKeyJob(t, op, c, k)
    BY <2>0
  <2>2. job'[t] = [NoJob EXCEPT !.op = op, !.code = c]
    BY <2>1, GoesFrame DEF StartKeyJob
  <2>3. job'[t].op # "generate"
    BY <1>3, <2>1, <2>2
  <2>4. UNCHANGED issued
    BY <1>6 DEF RevokeIp, ModifyKeyDuration, RefreshKey, DeleteKey
  <2>5. QED
    BY <1>1, <1>2, <2>3, <2>4, NotGenerating
<1>7. QED
  BY <1>4, <1>5, <1>6

\* A handler that dies loses the code it has drawn.
LEMMA AbortLicence ==
    ASSUME OneWriter, IInv, Drawn, NEW t \in Threads, Abort(t)
    PROVE  L!Next \/ UNCHANGED Licence
<1>1. job'[t].op = "none" /\ UNCHANGED <<keys, issued>>
  BY DoneFrame DEF Abort, disk
<1>2. CASE job[t].op = "generate"
  <2>0. PICK c : c = job[t].code
    OBVIOUS
  <2>1. c \in Codes /\ c \in issued /\ keys[c] = NoKey
    BY <1>2, <2>0 DEF Drawn, EditsOneKey, KeyChange
  <2>2. ~Lost(c) /\ Lost(c)'
    BY <1>1, <1>2, <2>0, <2>1 DEF Lost, Generating, OneWriter
  <2>3. Licence[c].stage = "unissued" /\ Licence'[c] = L!Withdrawn
    BY <1>1, <2>1, <2>2 DEF Licence, Lost, Known, L!Withdrawn
  <2>4. ASSUME NEW d \in Codes, d # c PROVE Licence'[d] = Licence[d]
    <3>1. Lost(d)' <=> Lost(d)
      BY <1>1, <2>0, <2>4, LostByOthers
    <3>2. QED
      BY <1>1, <3>1 DEF Licence, Known, Lost
  <2>5. Licence' = [Licence EXCEPT ![c] = L!Withdrawn]
    BY <2>3, <2>4 DEF Licence
  <2>6. QED
    BY <2>1, <2>3, <2>5, WithdrawStep
<1>3. CASE job[t].op # "generate"
  BY <1>1, <1>3, NotGenerating
<1>4. QED
  BY <1>2, <1>3

\* keys.json is written: the licence of the handler's key takes the operation's step.
LEMMA SaveKeysLicence ==
    ASSUME OneWriter, IInv, Drawn, NEW t \in Threads, SaveKeys(t)
    PROVE  L!Next \/ UNCHANGED Licence
<1> DEFINE c == job[t].code
           k == keys[c]
           n == keysSeen[t][c]
<1>1. /\ EditsOneKey(t) /\ keys' = keysSeen[t] /\ UNCHANGED issued
      /\ job'[t].op # "generate" /\ Drawn'
  BY SaveKeysDrawn
<1>2. /\ c \in Codes /\ keys'[c] = n /\ KeyChange(job[t], k, n)
      /\ \A d \in Codes : d # c => keys'[d] = keys[d]
  BY <1>1 DEF EditsOneKey, IInv, TypeOK, KeyTable
<1>3. ASSUME NEW d \in Codes, d # c PROVE Licence'[d] = Licence[d]
  <2>1. Lost(d)' <=> Lost(d)
    BY <1>1, <1>3, LostByOthers
  <2>2. QED
    BY <1>2, <1>3, <2>1 DEF Licence, Known, Lost
<1>4. ASSUME NEW v, Licence'[c] = v PROVE Licence' = [Licence EXCEPT ![c] = v]
  BY <1>3, <1>4 DEF Licence
<1>5. k # NoKey => Licence[c] = L!Valid(k.max_devices, k.active)
  BY <1>2 DEF Licence, Known, L!Valid
<1>6. n # NoKey => Licence'[c] = L!Valid(n.max_devices, n.active)
  BY <1>2 DEF Licence, Known, L!Valid
<1>7. CASE job[t].op = "generate"
  <2>1. k = NoKey /\ n # NoKey /\ n.max_devices \in Limits /\ n.active = {}
    BY <1>2, <1>7 DEF KeyChange
  <2>2. Licence[c] = L!Unissued
    BY <1>2, <1>7, <2>1 DEF Licence, Known, Generating, L!Unissued
  <2>3. Licence' = [Licence EXCEPT ![c] = L!Valid(n.max_devices, {})]
    BY <1>4, <1>6, <2>1
  <2>4. QED
    BY <1>2, <2>1, <2>2, <2>3, IssueStep
<1>8. CASE job[t].op = "delete"
  <2>1. k # NoKey /\ n = NoKey
    BY <1>2, <1>8 DEF KeyChange
  <2>2. c \in issued'
    BY <1>1, <1>2, <2>1 DEF Drawn, Known
  <2>3. Licence'[c] = L!Withdrawn
    BY <1>1, <1>2, <2>1, <2>2 DEF Licence, Known, Generating, OneWriter, L!Withdrawn
  <2>4. Licence' = [Licence EXCEPT ![c] = L!Withdrawn] /\ Licence[c].stage = "valid"
    BY <1>4, <1>5, <2>1, <2>3 DEF L!Valid
  <2>5. QED
    BY <1>2, <2>4, WithdrawStep
<1>9. CASE job[t].op \notin {"generate", "delete"}
  <2>1. k # NoKey /\ n # NoKey /\ n.max_devices = k.max_devices
    BY <1>2, <1>9 DEF KeyChange
  <2>2. /\ Licence[c].stage = "valid" /\ Licence[c].holders = k.active /\ Licence[c].limit = k.max_devices
        /\ \A H : [Licence[c] EXCEPT !.holders = H] = L!Valid(k.max_devices, H)
    BY <1>5, <2>1 DEF L!Valid
  <2>3. ASSUME NEW H, n.active = H PROVE Licence' = [Licence EXCEPT ![c].holders = H]
    <3>1. Licence'[c] = [Licence[c] EXCEPT !.holders = H]
      BY <1>6, <2>1, <2>2, <2>3
    <3>2. QED
      BY <1>4, <3>1
  <2>4. CASE n.active = k.active
    <3>1. Licence'[c] = Licence[c]
      BY <1>5, <1>6, <2>1, <2>4
    <3>2. Licence' = Licence
      BY <1>3, <3>1 DEF Licence
    <3>3. QED
      BY <3>2
  <2>5. CASE job[t].op = "redeem" /\ n.active # k.active
    <3>1. /\ n.active = k.active \cup {job[t].ip} /\ HasRoom(k.active, k, job[t].ip)
      BY <1>2, <2>5 DEF KeyChange
    <3>2. job[t].ip \in Ips
      BY <1>2, <2>1, <2>5, <3>1 DEF IInv, TypeOK, KeyTable, Key
    <3>3. Cardinality(Licence[c].holders) < Licence[c].limit
      BY <2>2, <2>5, <3>1 DEF HasRoom
    <3>4. Licence' = [Licence EXCEPT ![c].holders = @ \cup {job[t].ip}]
      BY <2>2, <2>3, <3>1
    <3>5. QED
      BY <1>2, <2>2, <3>2, <3>3, <3>4, GrantStep
  <2>6. CASE job[t].op # "redeem" /\ n.active # k.active
    <3>1. PICK ip \in Ips : n.active = k.active \ {ip}
      BY <1>2, <1>9, <2>6 DEF KeyChange
    <3>2. Licence' = [Licence EXCEPT ![c].holders = @ \ {ip}]
      BY <2>2, <2>3, <3>1
    <3>3. QED
      BY <1>2, <2>2, <3>1, <3>2, ReleaseStep
  <2>7. QED
    BY <2>4, <2>5, <2>6
<1>10. QED
  BY <1>7, <1>8, <1>9

\* Each step of the one handler is a step of the licence, or none.
LEMMA LicenceNext ==
    ASSUME OneWriter, IInv, Drawn, [Next]_vars
    PROVE  [L!Next]_Licence
<1>1. ASSUME NEW t \in Threads, KeyStep(t) PROVE [L!Next]_Licence
  BY <1>1, FirstKeyStepsStutter, SaveKeysLicence DEF KeyStep
<1>2. ASSUME NEW t \in Threads, IpStep(t) PROVE [L!Next]_Licence
  BY <1>2, IpStepDrawn, NotGenerating
<1>3. ASSUME NEW t \in Threads, Abort(t) PROVE [L!Next]_Licence
  BY <1>3, AbortLicence
<1>4. CASE Tick \/ UNCHANGED vars
  <2>1. UNCHANGED <<keys, issued, job>>
    BY <1>4 DEF Tick, disk, local, vars
  <2>2. QED
    BY <2>1, LicenceStutters DEF Lost, Generating
<1>5. QED
  BY <1>1, <1>2, <1>3, <1>4 DEF Next

LEMMA DrawnInit == Init => Drawn
BY DEF Init, Drawn, Known, NoKeys, NoJob

\* With one writer at a time, and whichever handlers die or fail to write, keys.json is a
\* licence: a code is issued once, for a fixed number of devices, changes hands one address
\* at a time within that number, and once deleted never comes back (keys.py:54-225).
THEOREM LedgerRefinesLicence == OneWriter => (Spec => KeysAreLicences)
<1> SUFFICES ASSUME OneWriter PROVE Spec => KeysAreLicences
  OBVIOUS
<1>1. IInv /\ Drawn /\ [Next]_vars => Drawn'
  BY DrawnNext
<1>2. Spec => []Drawn
  BY <1>1, Soundness, DrawnInit, PTL DEF Spec
<1>3. IInv /\ Drawn /\ [Next]_vars => [L!Next]_Licence
  BY LicenceNext
<1>4. Spec => [][L!Next]_Licence
  BY <1>2, <1>3, Soundness, PTL DEF Spec
<1>5. QED
  BY <1>4, LicenceInit, PTL DEF Spec, KeysAreLicences, L!Spec, Licence

-----------------------------------------------------------------------------
(* The two files agree.  While the bot's commands run one at a time, to their end,      *)
(* every copy is a copy that may be written next: what it names is on the lists.        *)

BotAlone == OneWriter /\ "revoke" \notin Jobs /\ ~Aborts /\ ~SaveErrors

Names(e, c) == e # NoEntry /\ e.key_used = c

\* The addresses that I gives to a key of K are on the key's list, or no more than it admits.
OnList(I, K) == \A ip \in Ips, c \in Codes : Names(I[ip], c) /\ K[c] # NoKey => ip \in K[c].active
FewNamed(I, K) == \A c \in Codes : K[c] # NoKey =>
    Cardinality({ip \in Ips : Names(I[ip], c)}) <= K[c].max_devices

CopiesAgree(t) ==
    /\ pc[t] = "save_keys" /\ job[t].op # "remove" => OnList(ips, keysSeen[t])
    /\ pc[t] = "save_keys" /\ job[t].op \in {"remove", "extend"} => OnList(ipsSeen[t], keysSeen[t])
    /\ pc[t] \in {"shift", "ips"} => OnList(ipsSeen[t], keys)
    /\ pc[t] = "open_ips" /\ Known(job[t].code) => job[t].ip \in keys[job[t].code].active

FilesAgree ==
    /\ \A c \in Codes, ip \in Ips : <<c, ip>> \in granted => c \in issued
    /\ FewNamed(ips, keys)
    /\ (\A t \in Threads : job[t].op # "remove") => OnList(ips, keys)
    /\ \A t \in Threads : CopiesAgree(t)

LEMMA OnListFew ==
    ASSUME NEW I, NEW K \in KeyTable, TableOK(K), OnList(I, K)
    PROVE  FewNamed(I, K)
<1> SUFFICES ASSUME NEW c \in Codes, K[c] # NoKey
             PROVE  Cardinality({ip \in Ips : Names(I[ip], c)}) <= K[c].max_devices
  BY DEF FewNamed
<1>1. K[c] \in Key /\ Cardinality(K[c].active) <= K[c].max_devices
  BY DEF KeyTable, TableOK, KeyOK
<1> DEFINE S == {ip \in Ips : Names(I[ip], c)}
<1>2. S \subseteq K[c].active /\ K[c].active \in SUBSET Ips /\ K[c].max_devices \in Nat
  BY <1>1 DEF OnList, Key
<1>3. Cardinality(S) <= Cardinality(K[c].active)
  BY <1>2, FiniteHolders, FS_Subset
<1>4. Cardinality(S) \in Nat /\ Cardinality(K[c].active) \in Nat
  BY <1>2, FiniteHolders
<1>5. QED
  BY <1>1, <1>2, <1>3, <1>4

\* A step that writes neither file
LEMMA FilesStand ==
    ASSUME OneWriter, FilesAgree, UNCHANGED <<keys, ips, granted>>, issued \subseteq issued',
           NEW t \in Threads, job[t].op = "remove" => job'[t].op = "remove", CopiesAgree(t)'
    PROVE  FilesAgree'
<1>1. FewNamed(ips, keys)' /\ (OnList(ips, keys) => OnList(ips, keys)')
  BY DEF FilesAgree, FewNamed, OnList, Names
<1>2. \A c \in Codes, ip \in Ips : <<c, ip>> \in granted' => c \in issued'
  BY DEF FilesAgree
<1>3. (\A u \in Threads : job'[u].op # "remove") => \A u \in Threads : job[u].op # "remove"
  BY DEF OneWriter
<1>4. QED
  BY <1>1, <1>2, <1>3 DEF FilesAgree, OneWriter

LEMMA OtherKeyOnList ==
    ASSUME NEW I, NEW K \in KeyTable, OnList(I, K), NEW c \in Codes, NEW k,
           k = NoKey \/ \A ip \in Ips : Names(I[ip], c) => ip \in k.active
    PROVE  OnList(I, [K EXCEPT ![c] = k])
BY DEF OnList, KeyTable

\* A step that takes a copy of keys.json for a handler of the bot
LEMMA EditKeyAgrees ==
    ASSUME OneWriter, IInv, Drawn, FilesAgree, NEW t \in Threads, NEW j, NEW c \in Codes, NEW k,
           Idle(t), EditKey(t, c, k), Goes(t, "save_keys", j), j.op \notin {"remove", "extend"},
           UNCHANGED <<keys, ips, granted>>, issued \subseteq issued',
           k = NoKey \/ \A ip \in Ips : Names(ips[ip], c) => ip \in k.active
    PROVE  FilesAgree'
<1>1. pc'[t] = "save_keys" /\ job'[t] = j /\ job[t].op = "none"
  BY GoesFrame DEF Drawn, Idle
<1>2. keysSeen'[t] = [keys EXCEPT ![c] = k]
  BY DEF EditKey, IInv, TypeOK
<1>3. OnList(ips, keys) /\ keys \in KeyTable
  BY <1>1 DEF FilesAgree, OneWriter, IInv, TypeOK
<1>4. OnList(ips, keysSeen'[t])
  BY <1>2, <1>3, OtherKeyOnList
<1>5. OnList(ips, keysSeen[t])'
  BY <1>4 DEF OnList, Names
<1>6. CopiesAgree(t)'
  BY <1>1, <1>5 DEF CopiesAgree
<1>7. QED
  BY <1>1, <1>6, FilesStand

LEMMA FirstKeyStepsAgree ==
    ASSUME BotAlone, IInv, Drawn, FilesAgree, NEW t \in Threads,
           \/ GenerateKey(t) \/ RevokeIp(t) \/ ModifyKeyDuration(t)
           \/ RefreshKey(t) \/ DeleteKey(t) \/ RedeemKey(t)
    PROVE  FilesAgree'
<1> USE DEF BotAlone
<1>0. /\ \A op, c : [NoJob EXCEPT !.op = op, !.code = c].op = op
      /\ Idle(t) /\ OnList(ips, keys)
  <2>1. Idle(t)
    BY DEF GenerateKey, RevokeIp, ModifyKeyDuration, RefreshKey, DeleteKey, RedeemKey, StartKeyJob
  <2>2. job[t].op = "none"
    BY <2>1 DEF Drawn, Idle
  <2>3. OnList(ips, keys)
    BY <2>2 DEF FilesAgree, OneWriter
  <2>4. QED
    BY <2>1, <2>3 DEF NoJob
<1>1. ASSUME NEW op \in {"generate", "modify", "refresh", "delete"}, NEW c \in Codes, NEW k,
             StartKeyJob(t, op, c, k), issued \subseteq issued',
             k = NoKey \/ \A ip \in Ips : Names(ips[ip], c) => ip \in k.active
      PROVE  FilesAgree'
  <2> DEFINE j == [NoJob EXCEPT !.op = op, !.code = c]
  <2>1. j.op = op
    BY <1>0
  <2>2. EditKey(t, c, k) /\ Goes(t, "save_keys", j) /\ UNCHANGED <<keys, ips, granted>>
    BY <1>1 DEF StartKeyJob, disk
  <2> HIDE DEF j
  <2>3. QED
    BY <1>0, <1>1, <2>1, <2>2, EditKeyAgrees
<1>2. CASE GenerateKey(t)
  <2>1. PICK c \in Codes \ issued, d \in Durations, n \in DeviceCounts :
             /\ StartKeyJob(t, "generate", c, NewKey(d, n))
             /\ issued' = issued \cup {c}
    BY <1>2 DEF GenerateKey
  <2>2. \A ip \in Ips : ~Names(ips[ip], c)
    BY <2>1 DEF FilesAgree, IInv, Backed, Names
  <2>3. QED
    BY <1>1, <2>1, <2>2
<1>3. CASE ModifyKeyDuration(t)
  <2>1. PICK c \in Codes, d \in Deltas :
             /\ keys[c] # NoKey
             /\ StartKeyJob(t, "modify", c, Retimed(keys[c], d))
             /\ UNCHANGED issued
    BY <1>3 DEF ModifyKeyDuration
  <2>2. Retimed(keys[c], d).active = keys[c].active
    BY <2>1, KnownKeyOK, SameDevices
  <2>3. QED
    BY <1>0, <1>1, <2>1, <2>2 DEF OnList
<1>4. CASE RefreshKey(t)
  <2>1. PICK c \in Codes :
             /\ keys[c] # NoKey
             /\ StartKeyJob(t, "refresh", c, Refreshed(keys[c]))
             /\ UNCHANGED issued
    BY <1>4 DEF RefreshKey
  <2>2. Refreshed(keys[c]).active = keys[c].active
    BY <2>1, KnownKeyOK, SameDevices
  <2>3. QED
    BY <1>0, <1>1, <2>1, <2>2 DEF OnList
<1>5. CASE DeleteKey(t)
  <2>1. PICK c \in Codes : StartKeyJob(t, "delete", c, NoKey) /\ UNCHANGED issued
    BY <1>5 DEF DeleteKey
  <2>2. QED
    BY <1>1, <2>1
<1>6. CASE RedeemKey(t)
  <2>1. PICK c \in Codes, ip \in Ips :
           /\ keys[c] # NoKey
           /\ EditKey(t, c, Redeemed(keys[c], ip))
           /\ Goes(t, "save_keys", [op |-> "redeem", code |-> c, ip |-> ip,
                                    n |-> keys[c].duration, todo |-> {}])
           /\ UNCHANGED <<keys, ips, granted, issued>>
    BY <1>6 DEF RedeemKey, Redeemable, disk
  <2> DEFINE j == [op |-> "redeem", code |-> c, ip |-> ip, n |-> keys[c].duration, todo |-> {}]
             k == Redeemed(keys[c], ip)
  <2>2. k.active = keys[c].active \cup {ip}
    BY <2>1, KnownKeyOK, SameDevices
  <2>3. \A a \in Ips : Names(ips[a], c) => a \in k.active
    BY <1>0, <2>1, <2>2 DEF OnList
  <2>4. j.op \notin {"remove", "extend"}
    OBVIOUS
  <2>5. EditKey(t, c, k) /\ Goes(t, "save_keys", j)
    BY <2>1
  <2> HIDE DEF j, k
  <2>6. QED
    BY <1>0, <2>1, <2>3, <2>4, <2>5, EditKeyAgrees
<1>7. CASE RevokeIp(t)
  BY <1>7 DEF RevokeIp, StartKeyJob
<1>8. QED
  BY <1>2, <1>3, <1>4, <1>5, <1>6, <1>7

\* keys.json is written.
LEMMA SaveKeysAgrees ==
    ASSUME BotAlone, IInv, IInv', Drawn, FilesAgree, NEW t \in Threads, SaveKeys(t)
    PROVE  FilesAgree'
<1> USE DEF BotAlone
<1>1. PICK c : c = job[t].code
  OBVIOUS
<1>2. /\ pc[t] = "save_keys" /\ EditsOneKey(t) /\ keys' = keysSeen[t] /\ UNCHANGED <<issued, ips>>
      /\ granted' = IF job[t].op = "redeem"
                    THEN granted \cup {<<c, job[t].ip>>} ELSE granted
  BY <1>1, SaveKeysDrawn DEF SaveKeys
<1>3. /\ c \in Codes /\ KeyChange(job[t], keys[c], keys'[c]) /\ keys \in KeyTable
      /\ \A d \in Codes \ {c} : keys'[d] = keys[d]
  BY <1>1, <1>2 DEF EditsOneKey, IInv, TypeOK, KeyTable
<1>4. \A d \in Codes, ip \in Ips : <<d, ip>> \in granted' => d \in issued'
  <2>1. job[t].op = "redeem" => keys[c] # NoKey
    BY <1>3 DEF KeyChange
  <2>2. job[t].op = "redeem" => c \in issued
    BY <1>3, <2>1 DEF Drawn, Known
  <2>3. QED
    BY <1>2, <2>2 DEF FilesAgree
<1>5. job[t].op # "remove" => OnList(ips, keys)'
  <2>1. job[t].op # "remove" => OnList(ips, keysSeen[t])
    BY <1>2 DEF FilesAgree, CopiesAgree
  <2>2. QED
    BY <1>2, <2>1 DEF OnList, Names
<1>6. FewNamed(ips, keys)'
  <2>1. CASE job[t].op # "remove"
    <3>1. FewNamed(ips', keys')
      BY <1>5, <2>1, OnListFew DEF IInv, TypeOK, OnList, Names
    <3>2. QED
      BY <3>1 DEF FewNamed, Names
  <2>2. CASE job[t].op = "remove"
    <3>1. keys[c] # NoKey /\ keys'[c].max_devices = keys[c].max_devices
      BY <1>3, <2>2 DEF KeyChange
    <3>2. QED
      BY <1>2, <1>3, <3>1 DEF FilesAgree, FewNamed, Names
  <2>3. QED
    BY <2>1, <2>2
<1>7. job'[t].op # "remove" => job[t].op # "remove"
  BY <1>2, GoesFrame DEF SaveKeys, AfterSaveKeys
<1>8. CopiesAgree(t)'
  <2>1. CASE AfterSaveKeys(job[t].op) = "idle"
    <3>1. pc'[t] = "idle"
      BY <2>1, DoneFrame DEF SaveKeys
    <3>2. QED
      BY <3>1 DEF CopiesAgree
  <2>2. CASE AfterSaveKeys(job[t].op) # "idle"
    <3>1. pc'[t] = AfterSaveKeys(job[t].op) /\ job'[t] = job[t] /\ UNCHANGED ipsSeen
      BY <2>2, GoesFrame DEF SaveKeys
    <3>2. CASE job[t].op = "redeem"
      <4>1. job[t].ip \in keys'[c].active
        BY <1>3, <3>2 DEF KeyChange
      <4>2. pc'[t] = "open_ips" /\ job'[t].code = c
        BY <1>1, <3>1, <3>2 DEF AfterSaveKeys
      <4>3. QED
        BY <3>1, <4>1, <4>2 DEF CopiesAgree
    <3>3. CASE job[t].op \in {"remove", "extend"}
      <4>1. OnList(ipsSeen[t], keysSeen[t])
        BY <1>2, <3>3 DEF FilesAgree, CopiesAgree
      <4>2. OnList(ipsSeen[t], keys)'
        BY <1>2, <3>1, <4>1 DEF OnList, Names
      <4>3. pc'[t] \in {"shift", "ips"}
        BY <3>1, <3>3 DEF AfterSaveKeys
      <4>4. QED
        BY <4>2, <4>3 DEF CopiesAgree
    <3>4. QED
      BY <2>2, <3>2, <3>3 DEF AfterSaveKeys
  <2>3. QED
    BY <2>1, <2>2
<1>9. QED
  BY <1>4, <1>5, <1>6, <1>7, <1>8 DEF FilesAgree, OneWriter

\* A command that starts from ips.json
LEMMA StartIpJobAgrees ==
    ASSUME OneWriter, IInv, Drawn, FilesAgree, NEW t \in Threads, NEW op, NEW j, NEW I,
           StartIpJob(t, op, j, I), \A ip \in Ips, c \in Codes : Names(I[ip], c) => Names(ips[ip], c)
    PROVE  FilesAgree'
<1>1. /\ Idle(t) /\ ipsSeen'[t] = I /\ pc'[t] = "ips"
      /\ UNCHANGED <<keys, ips, granted, issued>>
  BY GoesFrame DEF StartIpJob, disk, IInv, TypeOK
<1>2. job[t].op = "none"
  BY <1>1 DEF Drawn, Idle
<1>3. OnList(I, keys)
  BY <1>2 DEF FilesAgree, OneWriter, OnList
<1>4. OnList(ipsSeen[t], keys)'
  BY <1>1, <1>3 DEF OnList, Names
<1>5. CopiesAgree(t)'
  BY <1>1, <1>4 DEF CopiesAgree
<1>6. QED
  BY <1>1, <1>2, <1>5, FilesStand

LEMMA FirstIpStepsAgree ==
    ASSUME OneWriter, IInv, Drawn, FilesAgree, NEW t \in Threads,
           RemoveIps(t) \/ ExtendIp(t) \/ SetStatus(t) \/ AddIps(t) \/ CleanupExpired(t)
    PROVE  FilesAgree'
<1>0. \A ip \in Ips : ips[ip] # NoEntry => ips[ip] \in Entry
  BY DEF IInv, TypeOK, IpTable
<1>1. \A e \in Entry : \A status : [e EXCEPT !.status = status].key_used = e.key_used
  BY DEF Entry
<1>2. CASE RemoveIps(t) \/ ExtendIp(t)
  <2>1. PICK op, j : StartIpJob(t, op, j, ips)
    BY <1>2, Zenon DEF RemoveIps, ExtendIp
  <2>2. QED
    BY <2>1, StartIpJobAgrees
<1>3. CASE SetStatus(t)
  <2>1. PICK S \in (SUBSET Ips) \ {{}}, status \in {"blocked", "active"} :
          StartIpJob(t, "set_status", [NoJob EXCEPT !.op = "set_status"],
               [ip \in Ips |-> IF ip \in S /\ ips[ip] # NoEntry
                               THEN [ips[ip] EXCEPT !.status = status] ELSE ips[ip]])
    BY <1>3 DEF SetStatus
  <2> DEFINE I == [ip \in Ips |-> IF ip \in S /\ ips[ip] # NoEntry
                                  THEN [ips[ip] EXCEPT !.status = status] ELSE ips[ip]]
             j == [NoJob EXCEPT !.op = "set_status"]
  <2>2. \A ip \in Ips, c \in Codes : Names(I[ip], c) => Names(ips[ip], c)
    BY <1>0, <1>1 DEF Names
  <2>3. StartIpJob(t, "set_status", j, I)
    BY <2>1
  <2> HIDE DEF I, j
  <2>4. QED
    BY <2>2, <2>3, StartIpJobAgrees
<1>4. CASE AddIps(t)
  <2>1. PICK S \in (SUBSET Ips) \ {{}} :
          StartIpJob(t, "add", [NoJob EXCEPT !.op = "add"],
               [ip \in Ips |-> IF ip \in S /\ ips[ip] = NoEntry
                               THEN ActiveEntry(0, NoCode) ELSE ips[ip]])
    BY <1>4 DEF AddIps
  <2> DEFINE I == [ip \in Ips |-> IF ip \in S /\ ips[ip] = NoEntry
                                  THEN ActiveEntry(0, NoCode) ELSE ips[ip]]
             j == [NoJob EXCEPT !.op = "add"]
  <2>2. \A ip \in Ips, c \in Codes : Names(I[ip], c) => Names(ips[ip], c)
    BY CodesAssumption DEF Names, ActiveEntry
  <2>3. StartIpJob(t, "add", j, I)
    BY <2>1
  <2> HIDE DEF I, j
  <2>4. QED
    BY <2>2, <2>3, StartIpJobAgrees
<1>5. CASE CleanupExpired(t)
  <2> DEFINE I == [ip \in Ips |-> IF ip \in Due(ips)
                                  THEN [ips[ip] EXCEPT !.status = "expired"] ELSE ips[ip]]
             j == [NoJob EXCEPT !.op = "cleanup"]
  <2>1. StartIpJob(t, "cleanup", j, I)
    BY <1>5 DEF CleanupExpired
  <2>2. \A ip \in Ips, c \in Codes : Names(I[ip], c) => Names(ips[ip], c)
    BY <1>0, <1>1 DEF Names, Due
  <2> HIDE DEF I, j
  <2>3. QED
    BY <2>1, <2>2, StartIpJobAgrees
<1>6. QED
  BY <1>2, <1>3, <1>4, <1>5

LEMMA ActivateIpAgrees ==
    ASSUME OneWriter, IInv, FilesAgree, NEW t \in Threads, ActivateIp(t)
    PROVE  FilesAgree'
<1>1. PICK j : j = job[t]
  OBVIOUS
<1> DEFINE e == ActiveEntry(now + j.n, j.code)
<1>2. /\ ipsSeen'[t] = [ips EXCEPT ![j.ip] = e] /\ pc'[t] = "ips" /\ job'[t] = j
      /\ UNCHANGED <<keys, ips, granted, issued>> /\ pc[t] = "open_ips"
  BY <1>1, GoesFrame DEF ActivateIp, disk, IInv, TypeOK
<1>3. j.op = "redeem" /\ j.ip \in Ips /\ ips \in IpTable
  BY <1>1, <1>2 DEF IInv, JobOK, TypeOK
<1>4. OnList(ips, keys) /\ (keys[j.code] # NoKey => j.ip \in keys[j.code].active)
  BY <1>1, <1>2, <1>3 DEF FilesAgree, CopiesAgree, OneWriter, Known
<1>5. OnList(ipsSeen'[t], keys)
  <2>1. e.key_used = j.code
    BY DEF ActiveEntry
  <2> HIDE DEF e
  <2>2. QED
    BY <1>2, <1>3, <1>4, <2>1 DEF OnList, Names, IpTable
<1>6. OnList(ipsSeen[t], keys)'
  BY <1>2, <1>5 DEF OnList, Names
<1>7. CopiesAgree(t)'
  BY <1>2, <1>6 DEF CopiesAgree
<1>8. QED
  BY <1>1, <1>2, <1>3, <1>7, FilesStand

LEMMA OneAddressAgrees ==
    ASSUME OneWriter, IInv, Drawn, FilesAgree, NEW t \in Threads,
           RemoveOne(t) \/ ExtendOne(t) \/ ShiftExpiry(t)
    PROVE  FilesAgree'
<1>0. /\ UNCHANGED <<keys, ips, granted, issued>>
      /\ job[t] \in Job /\ ipsSeen[t] \in [Ips -> Entry \cup {NoEntry}]
      /\ OnList(ipsSeen[t], keys) /\ keys \in KeyTable
  BY DEF RemoveOne, ExtendOne, ShiftExpiry, disk, IInv, TypeOK, IpTable, FilesAgree, CopiesAgree
<1>1. CASE RemoveOne(t)
  <2>1. PICK ip \in job[t].todo :
          LET c == ipsSeen[t][ip].key_used
              j == [job[t] EXCEPT !.todo = @ \ {ip}, !.code = c, !.ip = ip] IN
          /\ job[t].op = "remove"
          /\ ipsSeen' = [ipsSeen EXCEPT ![t][ip] = NoEntry]
          /\ \/ /\ c \in Codes /\ keys[c] # NoKey
                /\ EditKey(t, c, WithoutIp(keys[c], ip)) /\ Goes(t, "save_keys", j)
             \/ Goes(t, "ips", j)
    BY <1>1 DEF RemoveOne
  <2>2. PICK c, j : /\ c = ipsSeen[t][ip].key_used
                    /\ j = [job[t] EXCEPT !.todo = @ \ {ip}, !.code = c, !.ip = ip]
    OBVIOUS
  <2>3. j.op = "remove" /\ ip \in Ips
    BY <1>0, <2>1, <2>2 DEF Job
  <2>4. \A a \in Ips : ipsSeen'[t][a] = IF a = ip THEN NoEntry ELSE ipsSeen[t][a]
    BY <1>0, <2>1 DEF IInv, TypeOK
  <2>5. \A a \in Ips, d \in Codes : Names(ipsSeen'[t][a], d) => a # ip /\ Names(ipsSeen[t][a], d)
    BY <2>4 DEF Names
  <2>6. CASE Goes(t, "ips", j)
    <3>1. pc'[t] = "ips" /\ job'[t] = j
      BY <2>6, GoesFrame
    <3>2. OnList(ipsSeen'[t], keys)
      BY <1>0, <2>5 DEF OnList
    <3>3. OnList(ipsSeen[t], keys)'
      BY <1>0, <3>2 DEF OnList, Names
    <3>4. CopiesAgree(t)'
      BY <3>1, <3>3 DEF CopiesAgree
    <3>5. QED
      BY <1>0, <2>3, <3>1, <3>4, FilesStand
  <2>7. CASE /\ c \in Codes /\ keys[c] # NoKey
             /\ EditKey(t, c, WithoutIp(keys[c], ip)) /\ Goes(t, "save_keys", j)
    <3>1. PICK k : k = WithoutIp(keys[c], ip)
      OBVIOUS
    <3>2. k.active = keys[c].active \ {ip}
      BY <2>7, <3>1, KnownKeyOK, SameDevices
    <3>3. pc'[t] = "save_keys" /\ job'[t] = j /\ keysSeen'[t] = [keys EXCEPT ![c] = k]
      BY <2>7, <3>1, GoesFrame DEF EditKey, IInv, TypeOK
    <3>4. OnList(ipsSeen'[t], [keys EXCEPT ![c] = k])
      BY <1>0, <2>5, <2>7, <3>2 DEF OnList, KeyTable
    <3>5. OnList(ipsSeen[t], keysSeen[t])'
      BY <3>3, <3>4 DEF OnList, Names
    <3>6. CopiesAgree(t)'
      BY <2>3, <3>3, <3>5 DEF CopiesAgree
    <3>7. QED
      BY <1>0, <2>3, <3>3, <3>6, FilesStand
  <2>8. QED
    BY <2>1, <2>2, <2>6, <2>7
<1>2. CASE ExtendOne(t)
  <2>1. PICK ip \in job[t].todo :
          LET c == ipsSeen[t][ip].key_used
              j == [job[t] EXCEPT !.code = c] IN
          /\ job[t].op = "extend" /\ UNCHANGED ipsSeen
          /\ \/ /\ c \in Codes /\ keys[c] # NoKey
                /\ EditKey(t, c, Retimed(keys[c], j.n)) /\ Goes(t, "save_keys", j)
             \/ Goes(t, "shift", j)
    BY <1>2 DEF ExtendOne
  <2>2. PICK c, j : c = ipsSeen[t][ip].key_used /\ j = [job[t] EXCEPT !.code = c]
    OBVIOUS
  <2>3. j.op = "extend"
    BY <1>0, <2>1, <2>2 DEF Job
  <2>4. OnList(ips, keys)
    BY <2>1 DEF FilesAgree, OneWriter
  <2>5. CASE Goes(t, "shift", j)
    <3>1. pc'[t] = "shift" /\ job'[t] = j
      BY <2>5, GoesFrame
    <3>2. OnList(ipsSeen[t], keys)'
      BY <1>0, <2>1 DEF OnList, Names
    <3>3. CopiesAgree(t)'
      BY <3>1, <3>2 DEF CopiesAgree
    <3>4. QED
      BY <1>0, <2>1, <2>3, <3>1, <3>3, FilesStand
  <2>6. CASE /\ c \in Codes /\ keys[c] # NoKey
             /\ EditKey(t, c, Retimed(keys[c], j.n)) /\ Goes(t, "save_keys", j)
    <3>1. PICK k : k = Retimed(keys[c], j.n)
      OBVIOUS
    <3>2. k.active = keys[c].active
      BY <2>6, <3>1, KnownKeyOK, SameDevices
    <3>3. pc'[t] = "save_keys" /\ job'[t] = j /\ keysSeen'[t] = [keys EXCEPT ![c] = k]
      BY <2>6, <3>1, GoesFrame DEF EditKey, IInv, TypeOK
    <3>4. OnList(ips, [keys EXCEPT ![c] = k]) /\ OnList(ipsSeen[t], [keys EXCEPT ![c] = k])
      BY <1>0, <2>4, <2>6, <3>2, OtherKeyOnList DEF OnList
    <3>5. OnList(ips, keysSeen[t])' /\ OnList(ipsSeen[t], keysSeen[t])'
      BY <1>0, <2>1, <3>3, <3>4 DEF OnList, Names
    <3>6. CopiesAgree(t)'
      BY <2>3, <3>3, <3>5 DEF CopiesAgree
    <3>7. QED
      BY <1>0, <2>1, <2>3, <3>3, <3>6, FilesStand
  <2>7. QED
    BY <2>1, <2>2, <2>5, <2>6
<1>3. CASE ShiftExpiry(t)
  <2>1. PICK ip \in job[t].todo :
          /\ pc[t] = "shift"
          /\ ipsSeen' = [ipsSeen EXCEPT ![t][ip] = Shifted(ipsSeen[t][ip], job[t].n)]
          /\ Goes(t, "ips", [job[t] EXCEPT !.todo = {}])
    BY <1>3 DEF ShiftExpiry
  <2>2. job[t].op = "extend" /\ ip \in Ips /\ ipsSeen[t][ip] # NoEntry
    BY <1>0, <2>1 DEF IInv, JobOK, Job
  <2>3. pc'[t] = "ips" /\ job'[t].op = "extend"
    BY <1>0, <2>1, <2>2, GoesFrame DEF Job
  <2>4. \A a \in Ips : ipsSeen'[t][a] = IF a = ip THEN Shifted(ipsSeen[t][ip], job[t].n)
                                         ELSE ipsSeen[t][a]
    BY <1>0, <2>1 DEF IInv, TypeOK
  <2>5. Shifted(ipsSeen[t][ip], job[t].n).key_used = ipsSeen[t][ip].key_used
    BY <1>0, <2>2 DEF Shifted, Entry
  <2>6. \A a \in Ips, c \in Codes : Names(ipsSeen'[t][a], c) => Names(ipsSeen[t][a], c)
    BY <2>2, <2>4, <2>5 DEF Names
  <2>7. OnList(ipsSeen'[t], keys)
    BY <1>0, <2>6 DEF OnList
  <2>8. OnList(ipsSeen[t], keys)'
    BY <1>0, <2>7 DEF OnList, Names
  <2>9. CopiesAgree(t)'
    BY <2>3, <2>8 DEF CopiesAgree
  <2>10. QED
    BY <1>0, <2>2, <2>3, <2>9, FilesStand
<1>4. QED
  BY <1>1, <1>2, <1>3

\* ips.json is written.
LEMMA SaveIpsAgrees ==
    ASSUME OneWriter, IInv, FilesAgree, NEW t \in Threads, SaveIps(t)
    PROVE  FilesAgree'
<1>1. /\ pc[t] = "ips" /\ ips' = ipsSeen[t] /\ UNCHANGED <<keys, granted, issued>> /\ pc'[t] = "idle"
  BY DoneFrame DEF SaveIps, ReadyToSaveIps
<1>2. OnList(ipsSeen[t], keys) /\ keys \in KeyTable /\ TableOK(keys)
  BY <1>1 DEF FilesAgree, CopiesAgree, IInv, TypeOK
<1>3. FewNamed(ipsSeen[t], keys)
  BY <1>2, OnListFew
<1>4. OnList(ips, keys)' /\ FewNamed(ips, keys)'
  BY <1>1, <1>2, <1>3 DEF OnList, FewNamed, Names
<1>5. CopiesAgree(t)'
  BY <1>1 DEF CopiesAgree
<1>6. QED
  BY <1>1, <1>4, <1>5 DEF FilesAgree, OneWriter

LEMMA FilesAgreeNext ==
    ASSUME BotAlone, IInv, IInv', Drawn, FilesAgree, [Next]_vars
    PROVE  FilesAgree'
<1> USE DEF BotAlone
<1>1. ASSUME NEW t \in Threads, KeyStep(t) PROVE FilesAgree'
  BY <1>1, FirstKeyStepsAgree, SaveKeysAgrees DEF KeyStep
<1>2. ASSUME NEW t \in Threads, IpStep(t) PROVE FilesAgree'
  BY <1>2, FirstIpStepsAgree, ActivateIpAgrees, OneAddressAgrees, SaveIpsAgrees
     DEF IpStep, SaveIpsFails
<1>3. ASSUME NEW t \in Threads PROVE ~Abort(t)
  BY DEF Abort
<1>4. CASE Tick \/ UNCHANGED vars
  <2>1. UNCHANGED <<keys, ips, issued, granted, pc, job, keysSeen, ipsSeen>>
    BY <1>4 DEF Tick, disk, local, vars
  <2>2. ASSUME NEW t \in Threads PROVE CopiesAgree(t)'
    BY <2>1 DEF FilesAgree, CopiesAgree, OnList, Names, Known
  <2>3. FewNamed(ips, keys)' /\ (OnList(ips, keys) => OnList(ips, keys)')
    BY <2>1 DEF FilesAgree, FewNamed, OnList, Names
  <2>4. QED
    BY <2>1, <2>2, <2>3 DEF FilesAgree
<1>5. QED
  BY <1>1, <1>2, <1>3, <1>4 DEF Next

LEMMA FilesAgreeInit == Init => FilesAgree
BY DEF Init, FilesAgree, FewNamed, OnList, CopiesAgree, NoKeys

LEMMA FilesAlwaysAgree == BotAlone => (Spec => [](IInv /\ FilesAgree))
<1> SUFFICES ASSUME BotAlone PROVE Spec => [](IInv /\ FilesAgree)
  OBVIOUS
<1>1. IInv /\ Drawn /\ [Next]_vars => Drawn'
  BY DrawnNext DEF BotAlone
<1>2. IInv /\ IInv' /\ Drawn /\ FilesAgree /\ [Next]_vars => FilesAgree'
  BY FilesAgreeNext
<1>3. QED
  BY <1>1, <1>2, Soundness, DrawnInit, FilesAgreeInit, PTL DEF Spec

\* While only the bot's commands run, one at a time and each to its end, the addresses
\* admitted on a key are never more than the devices it was sold for (keys.py:110-146).
THEOREM BotDeviceLimit == BotAlone => (Spec => []SimultaneousDevices)
<1> SUFFICES ASSUME BotAlone PROVE Spec => []SimultaneousDevices
  OBVIOUS
<1>1. IInv /\ FilesAgree => SimultaneousDevices
  <2> SUFFICES ASSUME IInv, FilesAgree, NEW c \in Codes, Known(c)
               PROVE  Cardinality({ip \in Ips : IsActive(ip) /\ ips[ip].key_used = c})
                        <= keys[c].max_devices
    BY DEF SimultaneousDevices
  <2> DEFINE S == {ip \in Ips : IsActive(ip) /\ ips[ip].key_used = c}
             T == {ip \in Ips : Names(ips[ip], c)}
  <2>1. S \subseteq T /\ T \in SUBSET Ips /\ S \in SUBSET Ips
    BY DEF IsActive, Names
  <2>2. Cardinality(S) <= Cardinality(T)
    BY <2>1, FiniteHolders, FS_Subset
  <2>3. Cardinality(T) <= keys[c].max_devices
    BY DEF FilesAgree, FewNamed, Known
  <2>4. keys[c].max_devices \in Nat
    BY KnownKeyOK DEF Known, Key
  <2>5. Cardinality(S) \in Nat /\ Cardinality(T) \in Nat
    BY <2>1, FiniteHolders
  <2>6. QED
    BY <2>2, <2>3, <2>4, <2>5
<1>2. QED
  BY <1>1, FilesAlwaysAgree, PTL

\* There, an address whose entry names a key is on that key's list, or a remove is at
\* work between the two files (bot_control.py:293-297).
THEOREM BotFilesAgree == BotAlone => (Spec => []EntryHeldByKey)
<1> SUFFICES ASSUME BotAlone PROVE Spec => []EntryHeldByKey
  OBVIOUS
<1>1. FilesAgree => EntryHeldByKey
  BY DEF FilesAgree, OnList, Names, Known, EntryHeldByKey
<1>2. QED
  BY <1>1, FilesAlwaysAgree, PTL
=============================================================================
