----------------------------- MODULE SafeFile ------------------------------
(***************************************************************************)
(* file_utils.py: how every JSON file of the program is read and written.  *)
(* A save copies the current file to .backups, lists the copies, unlinks   *)
(* the oldest one by one, writes a temporary file and renames it over the  *)
(* old one.  A read that finds the file damaged copies the newest backup   *)
(* over it and reads again.  Each process reads, adds one update, and      *)
(* saves what it read together with that update.                           *)
(*                                                                         *)
(* A file's content is the set of updates it holds.  copy2 gives a copy    *)
(* the modification time of its source, and backups are ranked by that     *)
(* time, so it is part of the state; ticks counts the files written.  Two  *)
(* saves within a second write the same backup name.                       *)
(***************************************************************************)
EXTENDS Integers, FiniteSets

CONSTANTS
    Procs,          \* processes (a process serialises its own saves with a lock)
    MaxSaves,       \* bound on the updates
    LastSecond,     \* bound on the clock
    MaxTicks,       \* bound on the files written (repairs can repeat for ever)
    Settings,       \* what behaviours may meet, see setting
    Bad,            \* content json.load rejects
    Absent          \* no such file

ASSUME SafeFileAssumption ==
    /\ IsFiniteSet(Procs)
    /\ Bad \notin SUBSET (1..MaxSaves)
    /\ {MaxSaves, LastSecond, MaxTicks} \subseteq Nat
    /\ Settings \subseteq [procs : SUBSET Procs, keep : Nat \ {0}, saves : 1..MaxSaves,
                           may : SUBSET {"crash", "damage", "disk_full"}, most : Nat]

VARIABLES
    file,       \* the JSON file: [content, mtime]
    backups,    \* .backups: one copy per name, that is per second
    second,     \* time.strftime("%Y%m%d-%H%M%S")
    ticks,      \* the next modification time
    setting,    \* constant in a behaviour: the processes at work, max_backups (5 in the
                \* code), a bound on the updates, which faults may happen, how many
    faults,     \* faults so far
    pc, mine,   \* where each process is, and its locals
    saved,      \* history: updates whose save returned
    result,     \* history: what each process last read
    made,       \* history: backups begun
    pruned      \* history: backups begun when the last prune that ran to its end
                \* listed them

history == <<saved, result, made, pruned>>
vars == <<file, backups, second, ticks, setting, faults, pc, mine, history>>

Contents == (SUBSET (1..MaxSaves)) \cup {Bad}
Files == [content : Contents, mtime : Nat]
ASSUME AbsentAssumption == Absent \notin Files

Phases == {"idle", "find", "rank", "restore", "copying", "reread", "have",
           "backup", "backing", "list", "sort", "unlink", "write", "rename"}

\* The locals: the content read or being saved, the source of a copy, its name; the
\* backups listed and their modification times when they were sorted, and how many
\* had been begun by then (history).
Locals == [data : SUBSET (1..MaxSaves), src : Files \cup {Absent}, name : 0..LastSecond,
           list : SUBSET (0..LastSecond), times : [0..LastSecond -> Nat], seen : Nat]
NoLocals == [data |-> {}, src |-> Absent, name |-> 0,
             list |-> {}, times |-> [n \in 0..LastSecond |-> 0], seen |-> 0]

Exists(f) == f # Absent
Readable(f) == Exists(f) /\ f.content # Bad
At(p, phase) == pc[p] = phase
Goto(p, phase) == pc' = [pc EXCEPT ![p] = phase]
Local(p, l) == mine' = [mine EXCEPT ![p] = l]

\* A new file gets the current time; the clock never gives the same time twice.
Written(content) == [content |-> content, mtime |-> ticks]

-----------------------------------------------------------------------------
(* safe_read_json *)

\* json.load of what is there, or default
Returns(p, data) ==
    /\ Goto(p, "have")
    /\ Local(p, [NoLocals EXCEPT !.data = data])
    /\ result' = [result EXCEPT ![p] = data]
    /\ UNCHANGED <<saved, made, pruned>>

BugUncaught(p) ==
    /\ At(p, "idle")
    /\ \/ Exists(file) /\ Returns(p, file.content)
       \/ ~Exists(file) /\ Returns(p, {})
    /\ UNCHANGED <<file, backups, second, ticks, setting, faults>>
Read(p) ==
    /\ At(p, "idle")
    /\ \/ Readable(file) /\ Returns(p, file.content)
       \/ ~Exists(file) /\ Returns(p, {})
       \/ /\ Exists(file) /\ ~Readable(file)
          /\ Goto(p, "find")
          /\ UNCHANGED <<mine, history>>
    /\ UNCHANGED <<file, backups, second, ticks, setting, faults>>

Names == {n \in DOMAIN backups : Exists(backups[n])}

\* os.listdir(backup_dir)
List(p, phase) ==
    /\ Goto(p, phase)
    /\ Local(p, [mine[p] EXCEPT !.list = Names, !.seen = made])
    /\ UNCHANGED <<file, backups, second, ticks, setting, faults, history>>

FindBackup(p) == At(p, "find") /\ List(p, "rank")

\* The newest backup by modification time, whatever it holds.
BugOldest(names) == {n \in names : \A o \in names : backups[n].mtime <= backups[o].mtime}
Newest(names) == {n \in names : \A o \in names : backups[n].mtime >= backups[o].mtime}

\* os.path.getmtime of a backup that was unlinked since it was listed raises, and
\* nothing around _find_backup catches it.
RankBackups(p) ==
    /\ At(p, "rank")
    /\ \/ mine[p].list = {} /\ Returns(p, {})
       \/ /\ mine[p].list \subseteq Names
          /\ \E n \in Newest(mine[p].list) :
               Goto(p, "restore") /\ Local(p, [NoLocals EXCEPT !.name = n])
          /\ UNCHANGED history
       \/ /\ ~(mine[p].list \subseteq Names)
          /\ Goto(p, "idle")
          /\ Local(p, NoLocals)
          /\ UNCHANGED history
    /\ UNCHANGED <<file, backups, second, ticks, setting, faults>>

\* shutil.copy2(backup, path) first empties path; if the backup has been pruned
\* meanwhile it raises before that, and the read returns default.
Restore(p) ==
    LET b == backups[mine[p].name] IN
    /\ At(p, "restore")
    /\ ticks < MaxTicks
    /\ \/ /\ Exists(b)
          /\ file' = Written(Bad)
          /\ ticks' = ticks + 1
          /\ Goto(p, "copying")
          /\ Local(p, [mine[p] EXCEPT !.src = b])
          /\ UNCHANGED history
       \/ /\ ~Exists(b)
          /\ Returns(p, {})
          /\ UNCHANGED <<file, ticks>>
    /\ UNCHANGED <<backups, second, setting, faults>>

CopyBack(p) ==
    /\ At(p, "copying")
    /\ file' = mine[p].src
    /\ Goto(p, "reread")
    /\ UNCHANGED <<backups, second, ticks, setting, faults, mine, history>>

Reread(p) ==
    /\ At(p, "reread")
    /\ Returns(p, IF Readable(file) THEN file.content ELSE {})
    /\ UNCHANGED <<file, backups, second, ticks, setting, faults>>

-----------------------------------------------------------------------------
(* safe_write_json *)

\* The caller's change to what it read: one update that was never made before.
Update(p) ==
    \E u \in 1..setting.saves :
        /\ At(p, "have")
        /\ \A q \in Procs : u \notin mine[q].data
        /\ \A v \in saved : u > v
        /\ Local(p, [mine[p] EXCEPT !.data = @ \cup {u}])
        /\ Goto(p, "backup")
        /\ UNCHANGED <<file, backups, second, ticks, setting, faults, history>>

\* The caller only wanted to read.
ReadOnly(p) ==
    /\ At(p, "have")
    /\ Goto(p, "idle")
    /\ Local(p, NoLocals)
    /\ UNCHANGED <<file, backups, second, ticks, setting, faults, history>>

\* _backup_file opens the file and empties the copy named after the second.
OpenBackup(p) ==
    /\ At(p, "backup")
    /\ \/ /\ Exists(file)
          /\ backups' = [backups EXCEPT ![second] = Written(Bad)]
          /\ ticks' = ticks + 1
          /\ made' = made + 1
          /\ Local(p, [mine[p] EXCEPT !.src = file, !.name = second])
          /\ Goto(p, "backing")
       \/ /\ ~Exists(file)
          /\ Goto(p, "write")
          /\ UNCHANGED <<backups, ticks, made, mine>>
    /\ UNCHANGED <<file, second, setting, faults, saved, result, pruned>>

\* A copy that another process pruned before it was complete is gone: setting its
\* modification time raises, and there is no pruning.
CopyToBackup(p) ==
    /\ At(p, "backing")
    /\ \/ /\ Exists(backups[mine[p].name])
          /\ backups' = [backups EXCEPT ![mine[p].name] = mine[p].src]
          /\ Goto(p, "list")
       \/ /\ ~Exists(backups[mine[p].name])
          /\ Goto(p, "write")
          /\ UNCHANGED backups
    /\ UNCHANGED <<file, second, ticks, setting, faults, mine, history>>

\* Pruning lists the copies, sorts the list by modification time, and unlinks the
\* oldest while the list is longer than max_backups.  An exception (a copy that
\* another process has unlinked) is swallowed and ends the pruning.
ListBackups(p) == At(p, "list") /\ List(p, "sort")

BugTooMany(list) == Cardinality(list) > setting.keep + 1
TooMany(list) == Cardinality(list) > setting.keep

\* while len(backups) > max_backups
PruneOn(p, list) ==
    IF TooMany(list)
    THEN Goto(p, "unlink") /\ UNCHANGED pruned
    ELSE Goto(p, "write") /\ pruned' = IF mine[p].seen > pruned THEN mine[p].seen ELSE pruned

SortBackups(p) ==
    /\ At(p, "sort")
    /\ \/ /\ mine[p].list \subseteq Names
          /\ Local(p, [mine[p] EXCEPT !.times =
                           [n \in 0..LastSecond |-> IF n \in mine[p].list
                                                    THEN backups[n].mtime ELSE 0]])
          /\ PruneOn(p, mine[p].list)
       \/ /\ ~(mine[p].list \subseteq Names)
          /\ Goto(p, "write")
          /\ UNCHANGED <<mine, pruned>>
    /\ UNCHANGED <<file, backups, second, ticks, setting, faults, saved, result, made>>

Oldest(l) == {n \in l.list : \A o \in l.list : l.times[n] <= l.times[o]}

UnlinkOldest(p) ==
    /\ At(p, "unlink")
    /\ \E n \in Oldest(mine[p]) :
         \/ /\ Exists(backups[n])
            /\ backups' = [backups EXCEPT ![n] = Absent]
            /\ Local(p, [mine[p] EXCEPT !.list = @ \ {n}])
            /\ PruneOn(p, mine[p].list \ {n})
         \/ /\ ~Exists(backups[n])
            /\ Goto(p, "write")
            /\ UNCHANGED <<backups, mine, pruned>>
    /\ UNCHANGED <<file, second, ticks, setting, faults, saved, result, made>>

\* mkstemp, json.dump, fsync: the temporary file is not yet path
BugUnlinkFirst(p) ==
    /\ At(p, "write")
    /\ file' = Absent
    /\ Local(p, [mine[p] EXCEPT !.src = Written(mine[p].data)])
    /\ ticks' = ticks + 1
    /\ Goto(p, "rename")
    /\ UNCHANGED <<backups, second, setting, faults, history>>
BugWriteInPlace(p) ==
    /\ At(p, "write")
    /\ file' = Written(Bad)
    /\ Local(p, [mine[p] EXCEPT !.src = Written(mine[p].data)])
    /\ ticks' = ticks + 1
    /\ Goto(p, "rename")
    /\ UNCHANGED <<backups, second, setting, faults, history>>
WriteTemp(p) ==
    /\ At(p, "write")
    /\ Local(p, [mine[p] EXCEPT !.src = Written(mine[p].data)])
    /\ ticks' = ticks + 1
    /\ Goto(p, "rename")
    /\ UNCHANGED <<file, backups, second, setting, faults, history>>

Finish(p, data) ==
    /\ saved' = saved \cup data
    /\ Goto(p, "idle")
    /\ Local(p, NoLocals)

\* shutil.move(tmp, path)
Rename(p) ==
    /\ At(p, "rename")
    /\ file' = mine[p].src
    /\ Finish(p, mine[p].data)
    /\ UNCHANGED <<backups, second, ticks, setting, faults, result, made, pruned>>

-----------------------------------------------------------------------------
(* Faults *)

Fault(kind) ==
    /\ kind \in setting.may
    /\ faults < setting.most
    /\ faults' = faults + 1
    /\ UNCHANGED setting

\* No room on the disk.  For the temporary file: the exception reaches the caller.  For
\* a backup: it is left empty or cut short if it was begun, nothing is pruned, and the
\* save goes on.  For a restore: the read returns default, with path as it was or emptied.
DiskFull(p) ==
    /\ Fault("disk_full")
    /\ \/ At(p, "write") /\ Goto(p, "idle") /\ Local(p, NoLocals) /\ UNCHANGED history
       \/ /\ At(p, "backing") \/ (At(p, "backup") /\ Exists(file))
          /\ Goto(p, "write")
          /\ UNCHANGED <<mine, history>>
       \/ (At(p, "restore") \/ At(p, "copying")) /\ Returns(p, {})
    /\ UNCHANGED <<file, backups, second, ticks>>

Crash(p) ==
    /\ Fault("crash")
    /\ ~At(p, "idle")
    /\ Goto(p, "idle")
    /\ Local(p, NoLocals)
    /\ UNCHANGED <<file, backups, second, ticks, history>>

\* The file is damaged from outside (disk, manual edit).
Damage ==
    /\ Fault("damage")
    /\ Readable(file)
    /\ file' = Written(Bad)
    /\ ticks' = ticks + 1
    /\ UNCHANGED <<backups, second, pc, mine, history>>

NextSecond ==
    /\ second < LastSecond
    /\ second' = second + 1
    /\ UNCHANGED <<file, backups, ticks, setting, faults, pc, mine, history>>

Init ==
    /\ file = Absent
    /\ backups = [n \in 0..LastSecond |-> Absent]
    /\ second = 0
    /\ ticks = 1
    /\ setting \in Settings
    /\ faults = 0
    /\ pc = [p \in Procs |-> "idle"]
    /\ mine = [p \in Procs |-> NoLocals]
    /\ saved = {}
    /\ result = [p \in Procs |-> {}]
    /\ made = 0
    /\ pruned = 0

Step(p) ==
    \/ Read(p) \/ FindBackup(p) \/ RankBackups(p) \/ Restore(p) \/ CopyBack(p) \/ Reread(p)
    \/ Update(p) \/ ReadOnly(p)
    \/ OpenBackup(p) \/ CopyToBackup(p) \/ ListBackups(p) \/ SortBackups(p) \/ UnlinkOldest(p)
    \/ WriteTemp(p) \/ Rename(p)
    \/ DiskFull(p) \/ Crash(p)

Next == NextSecond \/ Damage \/ \E p \in setting.procs : Step(p)

Spec == Init /\ [][Next]_vars

-----------------------------------------------------------------------------
TypeOK ==
    /\ file \in Files \cup {Absent}
    /\ backups \in [0..LastSecond -> Files \cup {Absent}]
    /\ second \in 0..LastSecond
    /\ ticks \in Nat
    /\ setting \in Settings
    /\ faults \in 0..setting.most
    /\ pc \in [Procs -> Phases]
    /\ mine \in [Procs -> Locals]
    /\ saved \subseteq 1..MaxSaves
    /\ result \in [Procs -> SUBSET (1..MaxSaves)]
    /\ made \in Nat /\ pruned \in 0..made

\* Whatever is happening to the file and wherever its writers die, a reader never
\* opens a half-written file unless something outside damaged it ("atomic saves",
\* file_utils.py:1).
NeverHalfWritten == "damage" \notin setting.may => ~Exists(file) \/ Readable(file)

\* A single process that meets one fault, a crash anywhere, a full disk or a
\* damaged file, loses one save at most: what a read returns holds all the others
\* ("automatic backup recovery", file_utils.py:1).
LosesAtMostOneSave ==
    Cardinality(setting.procs) = 1 /\ setting.most = 1 =>
        \A p \in Procs : At(p, "have") => Cardinality(saved \ result[p]) <= 1

\* Without damage nothing that was saved is ever lost by a single process, though
\* it may die at any step of a save.
NothingLostByCrash ==
    Cardinality(setting.procs) = 1 /\ "damage" \notin setting.may =>
        \A p \in Procs : At(p, "have") => saved \subseteq result[p]

\* .backups holds at most max_backups copies and those begun since some prune that ran
\* to its end had listed it: dead processes, full disks and prunes that cut each other
\* short (the exception swallowed at file_utils.py:72) leave one more copy each, and
\* the next prune that nobody disturbs removes them all.
BackupsBounded == Cardinality(Names) <= setting.keep + (made - pruned)
=============================================================================
