----------------------------- MODULE Scheduler ------------------------------
(***************************************************************************)
(* scheduler.py in one process: the loop threads that start due tasks, the *)
(* threads that run a task and note when, and the bot commands that add    *)
(* and remove tasks and start and stop the loop, over one table of tasks   *)
(* that is kept in a file and in a cache good for _sched_ttl seconds.      *)
(*                                                                         *)
(* _load returns the cached dictionary itself, so threads change one       *)
(* object in place; but it reads the file outside the lock and may replace *)
(* that object while another thread still works on it.  Dictionaries       *)
(* therefore have an identity here: heap maps each to its contents.        *)
(*                                                                         *)
(* A tick is a part of the loop's pause.  Time passes while every thread   *)
(* sleeps, waits or is in its handler: loads and saves take milliseconds.  *)
(* Last runs are kept as the ticks since, up to Interval: an older one     *)
(* makes no difference.  Writes succeed (SafeFile has those that fail).    *)
(***************************************************************************)
EXTENDS Integers, FiniteSets

CONSTANTS
    Tids,           \* ids of tasks
    Loops, Runners, Commanders,     \* threads: _scheduler_loop, _run_task, the bot
    Interval,       \* ticks between two runs of a task
    Ttl,            \* _sched_ttl
    Pause,          \* time.sleep(30) between two passes of the loop
    ErrorPause,     \* time.sleep(60) after an exception in one
    Settings,       \* what a behaviour may start from, see Setting
    None            \* no task, no dictionary

Threads == Loops \cup Runners \cup Commanders

\* How many loops the process can come to have, the tasks that are in the file at the
\* start and those that may be added, and the tasks whose handler never comes back,
\* always raises or is unknown; a bound on stops and restarts.
Setting == [loops : SUBSET Loops, before : SUBSET Tids, later : SUBSET Tids, slow : SUBSET Tids,
            stops : Nat]

ASSUME SchedulerAssumption ==
    /\ Settings \subseteq Setting
    /\ {Interval, Ttl, Pause, ErrorPause} \subseteq Nat \ {0}
    /\ IsFiniteSet(Tids)
    /\ IsFiniteSet(Threads)
    /\ Loops \cap Runners = {} /\ Loops \cap Commanders = {} /\ Runners \cap Commanders = {}
    /\ None \notin Nat \cup Tids \cup Threads

VARIABLES
    file,       \* scheduled_tasks.json
    heap,       \* the dictionaries in memory
    cache,      \* _sched_cache: [data, age]
    running,    \* _running
    pc,         \* where each thread is
    local,      \* its variables
    status,     \* history: what the administrator was told of each task
    recorded,   \* history: ticks since a run of each task was last saved
    overlap,    \* history: did a load ever begin during another thread's load or update?
    stops,      \* stops and restarts so far
    setting     \* never changes

vars == <<setting, file, heap, cache, running, pc, local, status, recorded, overlap, stops>>
history == <<setting, status, recorded, overlap, stops>>

Since == 0 .. Interval
Table == [Tids -> Since \cup {None}]
NoTasks == [tid \in Tids |-> None]
Present(table) == {tid \in Tids : table[tid] # None}

\* One dictionary for the cache and one for each thread are ever in use.
Dicts == 0 .. Cardinality(Threads)
Statuses == {"new", "asked", "confirmed", "withdrawn", "removed"}
Phases == {"none", "created", "check", "asleep", "visit", "handler", "idle",
           "read", "fill", "use", "save"}

Local == [data : Dicts \cup {None}, tid : Tids \cup {None}, op : {"add", "remove", "list", "none"},
          left : SUBSET Tids, size : Nat, wait : 0 .. Pause + ErrorPause]
NoLocals == [data |-> None, tid |-> None, op |-> "none", left |-> {}, size |-> 0, wait |-> 0]

Goto(t, phase) == pc' = [pc EXCEPT ![t] = phase]
AtRest(t) == pc[t] \in {"none", "asleep", "handler", "idle"}

\* Where a thread returns to when it is done with the table.
Home(t) == IF t \in Commanders THEN "idle" ELSE "none"
Done(t) == Goto(t, Home(t)) /\ local' = [local EXCEPT ![t] = NoLocals]

-----------------------------------------------------------------------------
(* _load *)

InUse(d) == d = cache.data \/ \E t \in Threads : local[t].data = d
NewDict == CHOOSE d \in Dicts : ~InUse(d)

\* When a thread lets go of its dictionary and a dictionary is (or stays) the cached
\* one, those that no one refers to are gone.
Collect(t, cached) ==
    heap' = [d \in Dicts |-> IF d = cached \/ \E u \in Threads \ {t} : local[u].data = d
                             THEN heap[d] ELSE NoTasks]

\* From its load to its save a thread relies on the table staying as it is.
Busy(t) == pc[t] \in {"read", "fill", "use", "save"}

\* The first block under the lock, by a thread with these variables: a fresh cache is
\* returned as it is.
Load(t, mine) ==
    /\ IF cache.age < Ttl
       THEN Goto(t, "use") /\ local' = [local EXCEPT ![t] = [mine EXCEPT !.data = cache.data]]
       ELSE Goto(t, "read") /\ local' = [local EXCEPT ![t] = mine]
    /\ overlap' = (overlap \/ \E u \in Threads \ {t} : Busy(u))
    /\ UNCHANGED <<setting, file, heap, cache, running, recorded, stops>>

\* safe_read_json, with no lock held
Read(t) ==
    /\ pc[t] = "read"
    /\ heap' = [heap EXCEPT ![NewDict] = file]
    /\ local' = [local EXCEPT ![t].data = NewDict]
    /\ Goto(t, "fill")
    /\ UNCHANGED <<file, cache, running, history>>

BugStampOnly(t) ==
    /\ pc[t] = "fill"
    /\ cache' = [cache EXCEPT !.age = 0]
    /\ Goto(t, "use")
    /\ UNCHANGED <<file, heap, running, local, history>>

\* The second block under the lock
Fill(t) ==
    /\ pc[t] = "fill"
    /\ cache' = [data |-> local[t].data, age |-> 0]
    /\ Goto(t, "use")
    /\ Collect(t, local[t].data)
    /\ UNCHANGED <<file, running, local, history>>

\* _save writes the file and the cache under the lock; its callers then return.
Save(t) ==
    /\ file' = heap[local[t].data]
    /\ cache' = [data |-> local[t].data, age |-> 0]
    /\ Collect(t, local[t].data)
    /\ Done(t)
    /\ UNCHANGED <<setting, running, overlap, stops>>

-----------------------------------------------------------------------------
(* _scheduler_loop *)

\* The thread's first line
Begin(l) ==
    /\ pc[l] = "created"
    /\ running' = TRUE
    /\ Goto(l, "check")
    /\ UNCHANGED <<file, heap, cache, local, history>>

\* while _running, then the load that begins a pass
Check(l) ==
    /\ UNCHANGED status
    /\ IF running THEN Load(l, NoLocals)
       ELSE Done(l) /\ UNCHANGED <<setting, file, heap, cache, running, recorded, overlap, stops>>

StartPass(l) ==
    /\ pc[l] = "use"
    /\ local' = [local EXCEPT ![l].left = Tids,
                              ![l].size = Cardinality(Present(heap[local[l].data]))]
    /\ Goto(l, "visit")
    /\ UNCHANGED <<file, heap, cache, running, history>>

Sleep(l, ticks) ==
    /\ local' = [local EXCEPT ![l] = [NoLocals EXCEPT !.wait = ticks]]
    /\ Goto(l, "asleep")

Resized(l) == Cardinality(Present(heap[local[l].data])) # local[l].size

BugErrorEndsLoop(l) ==
    /\ pc[l] = "visit"
    /\ Resized(l)
    /\ Done(l)
    /\ UNCHANGED <<file, heap, cache, running, history>>

\* A dictionary that changed size while the loop goes through it raises RuntimeError.
PassFails(l) ==
    /\ pc[l] = "visit"
    /\ Resized(l)
    /\ Sleep(l, ErrorPause)
    /\ Collect(l, cache.data)
    /\ UNCHANGED <<file, cache, running, history>>

BugDueEarly(since) == since >= Interval - 1
Due(since) == since >= Interval

\* The next task is looked at; a due one gets a thread. The thread of a slow task
\* never reaches the table, so none is kept for it.
Visit(l, tid) ==
    LET table == heap[local[l].data] IN
    /\ pc[l] = "visit"
    /\ ~Resized(l)
    /\ tid \in local[l].left \cap Present(table)
    /\ \/ /\ ~Due(table[tid]) \/ tid \in setting.slow
          /\ Goto(l, "visit")
          /\ local' = [local EXCEPT ![l].left = @ \ {tid}]
       \/ /\ Due(table[tid]) /\ tid \notin setting.slow
          /\ \E r \in Runners :
               /\ pc[r] = "none"
               /\ Goto(r, "handler")
               /\ local' = [local EXCEPT ![l].left = @ \ {tid}, ![r].tid = tid]
    /\ UNCHANGED <<file, heap, cache, running, history>>

EndPass(l) ==
    /\ pc[l] = "visit"
    /\ ~Resized(l)
    /\ local[l].left \cap Present(heap[local[l].data]) = {}
    /\ Sleep(l, Pause)
    /\ Collect(l, cache.data)
    /\ UNCHANGED <<file, cache, running, history>>

FirstCheck(l) == pc[l] = "check" /\ Check(l)

BugStopIgnored(l) ==
    /\ pc[l] = "asleep"
    /\ local[l].wait = 0
    /\ Load(l, NoLocals)
    /\ UNCHANGED status

Wake(l) ==
    /\ pc[l] = "asleep"
    /\ local[l].wait = 0
    /\ Check(l)

-----------------------------------------------------------------------------
(* _run_task *)

HandlerReturns(r) ==
    /\ pc[r] = "handler"
    /\ Load(r, local[r])
    /\ UNCHANGED status

HandlerRaises(r) ==
    /\ pc[r] = "handler"
    /\ Done(r)
    /\ UNCHANGED <<file, heap, cache, running, history>>

BugNoteNextRun(r) ==
    /\ pc[r] = "use"
    /\ IF local[r].tid \in Present(heap[local[r].data])
       THEN /\ heap' = [heap EXCEPT ![local[r].data][local[r].tid] = 0 - Interval]
            /\ Goto(r, "save")
            /\ UNCHANGED local
       ELSE Done(r) /\ Collect(r, cache.data)
    /\ UNCHANGED <<file, cache, running, history>>

\* last_run = time.time(), unless the task is gone
NoteRun(r) ==
    /\ pc[r] = "use"
    /\ IF local[r].tid \in Present(heap[local[r].data])
       THEN /\ heap' = [heap EXCEPT ![local[r].data][local[r].tid] = 0]
            /\ Goto(r, "save")
            /\ UNCHANGED local
       ELSE Done(r) /\ Collect(r, cache.data)
    /\ UNCHANGED <<file, cache, running, history>>

SaveRun(r) ==
    /\ pc[r] = "save"
    /\ Save(r)
    /\ recorded' = [recorded EXCEPT ![local[r].tid] = 0]
    /\ UNCHANGED status

-----------------------------------------------------------------------------
(* register_task, remove_task, list_tasks, start_scheduler, stop_scheduler *)

\* The administrator's next command. The id of a new task is made from the time and
\* the type, a removed one's is the one he was given.
Command(c) ==
    /\ pc[c] = "idle"
    /\ \/ /\ Load(c, [NoLocals EXCEPT !.op = "list"])
          /\ UNCHANGED status
       \/ \E tid \in Tids :
            \/ /\ status[tid] = "new"
               /\ tid \in setting.later
               /\ status' = [status EXCEPT ![tid] = "asked"]
               /\ Load(c, [NoLocals EXCEPT !.op = "add", !.tid = tid])
            \/ /\ status[tid] = "confirmed"
               /\ status' = [status EXCEPT ![tid] = "withdrawn"]
               /\ Load(c, [NoLocals EXCEPT !.op = "remove", !.tid = tid])

\* The change, in the dictionary that _load returned
Change(c) ==
    LET d == local[c].data  tid == local[c].tid IN
    /\ pc[c] = "use"
    /\ \/ /\ local[c].op = "list"
          /\ Done(c)
          /\ Collect(c, cache.data)
          /\ UNCHANGED status
       \/ /\ local[c].op = "add"
          /\ heap' = [heap EXCEPT ![d][tid] = Interval]      \* last_run = 0: due at once
          /\ Goto(c, "save")
          /\ UNCHANGED <<local, status>>
       \/ /\ local[c].op = "remove"
          /\ IF tid \in Present(heap[d])
             THEN /\ heap' = [heap EXCEPT ![d][tid] = None]
                  /\ Goto(c, "save")
                  /\ UNCHANGED <<local, status>>
             ELSE /\ status' = [status EXCEPT ![tid] = "removed"]      \* "no encontrada"
                  /\ Done(c)
                  /\ Collect(c, cache.data)
    /\ UNCHANGED <<setting, file, cache, running, recorded, overlap, stops>>

SaveChange(c) ==
    /\ pc[c] = "save"
    /\ Save(c)
    /\ status' = [status EXCEPT ![local[c].tid] =
                     IF local[c].op = "add" THEN "confirmed" ELSE "removed"]
    /\ UNCHANGED recorded

\* The flag is tested here and set by the new thread.
StartScheduler(c) ==
    /\ pc[c] = "idle"
    /\ ~running
    /\ \E l \in setting.loops : pc[l] = "none" /\ Goto(l, "created")
    /\ UNCHANGED <<file, heap, cache, running, local, history>>

StopScheduler(c) ==
    /\ pc[c] = "idle"
    /\ stops < setting.stops
    /\ running' = FALSE
    /\ stops' = stops + 1
    /\ UNCHANGED <<setting, file, heap, cache, pc, local, status, recorded, overlap>>

-----------------------------------------------------------------------------
Blank == [d \in Dicts |-> NoTasks]
Empty == [data |-> 0, age |-> Ttl]

Aged(table) == [tid \in Tids |-> IF table[tid] = None \/ table[tid] = Interval
                                 THEN table[tid] ELSE table[tid] + 1]

\* The cached dictionary, the only one in use then, gets the name 0.
Tick ==
    /\ \A t \in Threads : AtRest(t)
    /\ \A l \in Loops : pc[l] = "asleep" => local[l].wait > 0
    /\ file' = Aged(file)
    /\ heap' = [Blank EXCEPT ![0] = Aged(heap[cache.data])]
    /\ cache' = [data |-> 0, age |-> IF cache.age < Ttl THEN cache.age + 1 ELSE Ttl]
    /\ local' = [t \in Threads |-> IF pc[t] = "asleep"
                                   THEN [local[t] EXCEPT !.wait = @ - 1] ELSE local[t]]
    /\ recorded' = [tid \in Tids |-> IF recorded[tid] < Interval
                                     THEN recorded[tid] + 1 ELSE Interval]
    /\ UNCHANGED <<setting, running, pc, status, overlap, stops>>

\* The process ends anywhere and starts again: the file is what is left. A command
\* that was under way is answered by what the file says.
Restart ==
    /\ stops < setting.stops
    /\ stops' = stops + 1
    /\ heap' = Blank
    /\ cache' = Empty
    /\ running' = FALSE
    /\ pc' = [t \in Threads |-> Home(t)]
    /\ local' = [t \in Threads |-> NoLocals]
    /\ status' = [tid \in Tids |->
                     IF status[tid] \in {"asked", "withdrawn"}
                     THEN IF file[tid] = None THEN "removed" ELSE "confirmed"
                     ELSE status[tid]]
    /\ UNCHANGED <<setting, file, recorded, overlap>>

Init ==
    /\ setting \in Settings
    /\ heap = Blank
    /\ cache = Empty
    /\ running = FALSE
    /\ pc = [t \in Threads |-> Home(t)]
    /\ local = [t \in Threads |-> NoLocals]
    /\ file = [tid \in Tids |-> IF tid \in setting.before THEN Interval ELSE None]
    /\ status = [tid \in Tids |-> IF tid \in setting.before THEN "confirmed" ELSE "new"]
    /\ recorded = [tid \in Tids |-> Interval]
    /\ overlap = FALSE
    /\ stops = 0

Loop(l) ==
    \/ Begin(l) \/ FirstCheck(l) \/ Read(l) \/ Fill(l) \/ StartPass(l)
    \/ PassFails(l) \/ (\E tid \in Tids : Visit(l, tid)) \/ EndPass(l) \/ Wake(l)

Run(r) ==
    \/ HandlerReturns(r) \/ HandlerRaises(r)
    \/ Read(r) \/ Fill(r) \/ NoteRun(r) \/ SaveRun(r)

Serve(c) == Read(c) \/ Fill(c) \/ Change(c) \/ SaveChange(c)

Ask(c) == Command(c) \/ StartScheduler(c) \/ StopScheduler(c)

Next ==
    \/ \E l \in Loops : Loop(l)
    \/ \E r \in Runners : Run(r)
    \/ \E c \in Commanders : Serve(c) \/ Ask(c)
    \/ Tick
    \/ Restart

Spec == Init /\ [][Next]_vars

\* Threads are scheduled and the kept handlers come back. Time passes between
\* commands, however many are sent.
Fairness ==
    /\ \A l \in Loops : WF_vars(Loop(l))
    /\ \A r \in Runners : WF_vars(Run(r))
    /\ \A c \in Commanders : WF_vars(Serve(c))
    /\ SF_vars(Tick)

FairSpec == Spec /\ Fairness

-----------------------------------------------------------------------------
TypeOK ==
    /\ setting \in Settings
    /\ file \in Table
    /\ heap \in [Dicts -> Table]
    /\ cache \in [data : Dicts, age : 0 .. Ttl]
    /\ running \in BOOLEAN
    /\ pc \in [Threads -> Phases]
    /\ local \in [Threads -> Local]
    /\ status \in [Tids -> Statuses]
    /\ recorded \in [Tids -> Since]
    /\ overlap \in BOOLEAN
    /\ stops \in 0 .. setting.stops

\* As long as no load fell into another thread's load or update, a task that was
\* confirmed stays in the file until it is removed and a removed one does not come
\* back, through passes, runs, expired caches and restarts (scheduler.py:20-36).
ConfirmedIsKept ==
    ~overlap => \A tid \in Tids :
        /\ status[tid] = "confirmed" => file[tid] # None
        /\ status[tid] = "removed" => file[tid] = None

Started(tid) == \E l \in Loops : /\ Visit(l, tid)
                                 /\ Due(heap[local[l].data][tid])

\* A task is not started within Interval of the last run that was saved, however many
\* loops there are, as long as no load fell into another thread's load or update.
NotTooSoon ==
    [][\A tid \in Tids : Started(tid) /\ ~overlap => recorded[tid] = Interval]_vars

\* While the scheduler is on, a task that stays in the file is run again and again,
\* whatever becomes of the other tasks' handlers and of the passes that fail.
RunsAgain ==
    \A tid \in Tids :
        <>[](running /\ file[tid] # None) => []<><<Started(tid)>>_vars

\* When the flag is off for good every loop comes to its end.
StopEndsLoops == <>[]~running => <>[](\A l \in Loops : pc[l] = "none")
=============================================================================
