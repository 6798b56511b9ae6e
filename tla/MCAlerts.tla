------------------------------ MODULE MCAlerts ------------------------------
(* Instances of Alerts for TLC. *)
EXTENDS Alerts

CONSTANTS c1, c2

\* No file yet, or two faults.
AllSettings ==
    {s \in [exists : BOOLEAN, failures : 0 .. 1, restarts : 0 .. 2] :
        s.failures + s.restarts = IF s.exists THEN 2 ELSE 0}
=============================================================================
