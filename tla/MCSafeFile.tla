----------------------------- MODULE MCSafeFile ----------------------------
(* Small instances of SafeFile for TLC. *)
EXTENDS SafeFile, TLC

AnyFault == {"crash", "damage", "disk_full"}

\* One process and one fault of any kind; one process that dies again and again; a
\* damaged file and a full disk under one process; two processes with one fault, with a
\* file that may be damaged and with one that is not, and with no fault and time enough
\* to cut each other's pruning short.
AllSettings ==
    {[procs |-> {p}, keep |-> 2, saves |-> 4, may |-> AnyFault, most |-> 1] : p \in Procs} \cup
    {[procs |-> {p}, keep |-> 2, saves |-> 3, may |-> {"crash", "disk_full"}, most |-> 3] :
        p \in Procs} \cup
    {[procs |-> {p}, keep |-> 1, saves |-> 2, may |-> {"damage", "disk_full"}, most |-> 2] :
        p \in Procs} \cup
    {[procs |-> Procs, keep |-> 1, saves |-> 3, may |-> may, most |-> 1] :
        may \in {{"damage"}, {"crash", "disk_full"}}} \cup
    {[procs |-> Procs, keep |-> 1, saves |-> 4, may |-> {}, most |-> 0]}

Symmetric == Permutations(Procs)
=============================================================================
