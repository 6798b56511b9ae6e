---------------------------- MODULE MCScheduler -----------------------------
(* Small instances of Scheduler for TLC. *)
EXTENDS Scheduler

CONSTANTS l1, x, y

\* A task that runs beside one that hangs; a task that runs, with a stop or a restart;
\* two loops, since one was stopped and a new one started, with a task that hangs.
Cases ==
    {[loops |-> {l1}, before |-> {y}, later |-> {x}, slow |-> {y}, stops |-> 0],
     [loops |-> {l1}, before |-> {x}, later |-> {}, slow |-> {}, stops |-> 1],
     [loops |-> Loops, before |-> {}, later |-> {x}, slow |-> Tids, stops |-> 1]}
=============================================================================
