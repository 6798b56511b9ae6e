------------------------------ MODULE License ------------------------------
(***************************************************************************)
(* What an access key promises, without files, threads or clocks: a code   *)
(* is issued once for a number of devices, is held by at most that many    *)
(* addresses at a time, changes hands one address at a time, and once it   *)
(* is withdrawn it never comes back.                                       *)
(***************************************************************************)
EXTENDS Naturals, FiniteSets

CONSTANTS Codes, Ips, Limits

VARIABLE licence

Unissued  == [stage |-> "unissued", limit |-> 0, holders |-> {}]
Withdrawn == [stage |-> "withdrawn", limit |-> 0, holders |-> {}]
Valid(n, H) == [stage |-> "valid", limit |-> n, holders |-> H]

Init == licence = [c \in Codes |-> Unissued]

Issue(c) ==
    /\ licence[c] = Unissued
    /\ \E n \in Limits : licence' = [licence EXCEPT ![c] = Valid(n, {})]

Grant(c, ip) ==
    /\ licence[c].stage = "valid"
    /\ Cardinality(licence[c].holders) < licence[c].limit
    /\ licence' = [licence EXCEPT ![c].holders = @ \cup {ip}]

Release(c, ip) ==
    /\ licence[c].stage = "valid"
    /\ licence' = [licence EXCEPT ![c].holders = @ \ {ip}]

Withdraw(c) ==
    /\ licence[c].stage \in {"unissued", "valid"}
    /\ licence' = [licence EXCEPT ![c] = Withdrawn]

Next == \E c \in Codes :
            \/ Issue(c)
            \/ Withdraw(c)
            \/ \E ip \in Ips : Grant(c, ip) \/ Release(c, ip)

Spec == Init /\ [][Next]_licence

-----------------------------------------------------------------------------
(* A weaker promise, where writers overlap: a licence may change hands at    *)
(* any time, within its number, and some were issued before.                 *)

Fits(H, n) == Cardinality(H) <= n

Reassign(c, H) ==
    /\ licence[c].stage = "valid"
    /\ Fits(H, licence[c].limit)
    /\ licence' = [licence EXCEPT ![c].holders = H]

LooseInit ==
    licence \in [Codes -> {Unissued} \cup {Valid(n, H) : n \in Limits, H \in SUBSET Ips}]
    /\ \A c \in Codes : Fits(licence[c].holders, licence[c].limit)

LooseNext == \E c \in Codes : Issue(c) \/ Withdraw(c) \/ \E H \in SUBSET Ips : Reassign(c, H)

LooseSpec == LooseInit /\ [][LooseNext]_licence
=============================================================================
