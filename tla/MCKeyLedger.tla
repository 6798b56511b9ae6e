---------------------------- MODULE MCKeyLedger ----------------------------
(* Small instances of KeyLedger for TLC. *)
EXTENDS KeyLedger, TLC

\* Without the operations that only move durations and expiry times.
RaceJobs == Ops \ {"none", "modify", "extend", "add"}

\* Keys and threads are interchangeable, and addresses where all are valid.
Interchangeable ==
    Permutations(Codes) \cup Permutations(Ips) \cup Permutations(Threads)
=============================================================================
