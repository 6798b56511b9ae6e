------------------------------- MODULE Alerts -------------------------------
(***************************************************************************)
(* alerts.py in two processes: the proxy, whose request hook triggers      *)
(* alerts, and the bot, which shows them.  An alert is appended to the     *)
(* cached list and the list is written at once if the last such write was  *)
(* Gap ago, by the next round of a flush thread otherwise.                 *)
(*                                                                         *)
(* Alerts are numbered.  A process has one thread that uses the list, and  *)
(* one that flushes it; both work on the cached object itself.  A write    *)
(* dumps the list to a temporary file, then moves it.  Time passes while   *)
(* all threads rest or Telegram is slow to take the notification.          *)
(*                                                                         *)
(* The panel, in whose process the bot may run, triggers new_registration  *)
(* (website/app.py:763-764).  No configuration the program makes is of     *)
(* that type, so nothing is recorded, and Configs has none of that type:   *)
(* with one, a second list would be saved over the proxy's.                *)
(*                                                                         *)
(* AlertsInit, AlertsNext and AlertsSpec are this module's formulas:       *)
(* BotProofs reads it together with BotPoll.                               *)
(***************************************************************************)
EXTENDS Integers, Sequences, FiniteSets, SequencesExt, FiniteSetsExt

CONSTANTS
    Configs,        \* the enabled alert configurations, each of a type of its own that
                    \* the proxy triggers
    MaxAlerts,      \* bound: alerts of a behaviour
    MaxRecent,      \* data["max_recent"]
    Ttl,            \* _a_ttl
    Gap,            \* now - _a_last_save < 10
    Pause,          \* time.sleep(30) of the flush loop
    AlertCooldown,  \* cfg["cooldown"]
    Settings,       \* what a behaviour may start from, see Setting
    None

Procs == {"proxy", "bot"}
Actors == Procs \X {"user", "flush"}
User(p) == <<p, "user">>
Flusher(p) == <<p, "flush">>

\* Is there an alerts.json, how often may a write fail and a process end
Setting == [exists : BOOLEAN, failures : Nat, restarts : Nat]

VARIABLES
    file,       \* "recent" of alerts.json, or None
    cache,      \* _a_cache of each process: [data, age]
    dirty,      \* _a_dirty
    lastSave,   \* ticks since _a_last_save, up to Gap
    cooling,    \* ticks until a configuration may notify again (_last_alert)
    at,         \* where each thread is
    local,      \* its variables: [copy, cfg, wait]
    log,        \* history: ticks since each alert was recorded
    upset,      \* history: what has happened that may have lost an alert
    setting     \* the faults still to come

alertVars == <<file, cache, dirty, lastSave, cooling, at, local, log, upset, setting>>
history == <<log, upset>>

AlertIds == 1 .. MaxAlerts
Recent == SeqOf(AlertIds, MaxRecent)

ASSUME AlertsAssumption ==
    /\ Settings \subseteq Setting
    /\ {MaxAlerts, MaxRecent, Ttl, Gap, Pause, AlertCooldown} \subseteq Nat \ {0}
    /\ Pause < Ttl
    /\ Gap < Ttl
    /\ None \notin Configs \cup Recent \cup Nat

Known == {n \in AlertIds : log[n] # None}
Old == Pause + Ttl + 1

Newest == Max(Known \cup {0})

Local == [copy : Recent \cup {None}, cfg : Configs \cup {None}, wait : 0 .. Pause,
          next : {"use", "idle"}]
NoLocals == [copy |-> None, cfg |-> None, wait |-> 0, next |-> "idle"]
Stages == {"idle", "look", "default", "fill", "use", "posting", "dump", "move", "asleep", "dead"}

Reach(a, stage) == at' = [at EXCEPT ![a] = stage]
Done(a) == Reach(a, "idle") /\ local' = [local EXCEPT ![a] = NoLocals]

-----------------------------------------------------------------------------
(* _load *)

BugNeverExpires(p) == cache[p].data # None
Fresh(p) == cache[p].data # None /\ cache[p].age < Ttl

Load(p, mine) ==
    /\ Reach(User(p), IF Fresh(p) THEN "use" ELSE "look")
    /\ local' = [local EXCEPT ![User(p)] = mine]
    /\ UNCHANGED <<file, cache, dirty, lastSave, cooling, setting, history>>

Look(p) ==
    /\ at[User(p)] = "look"
    /\ IF file = None
       THEN Reach(User(p), "default") /\ UNCHANGED local
       ELSE Reach(User(p), "fill") /\ local' = [local EXCEPT ![User(p)].copy = file]
    /\ UNCHANGED <<file, cache, dirty, lastSave, cooling, setting, history>>

Fill(p) ==
    /\ at[User(p)] = "fill"
    /\ cache' = [cache EXCEPT ![p] = [data |-> local[User(p)].copy, age |-> 0]]
    /\ local' = [local EXCEPT ![User(p)].copy = None]
    /\ Reach(User(p), "use")
    /\ UNCHANGED <<file, dirty, lastSave, cooling, setting, history>>

-----------------------------------------------------------------------------
(* _save *)

BugUnstamped(p, data, after) ==
    /\ cache' = [cache EXCEPT ![p].data = data]
    /\ dirty' = [dirty EXCEPT ![p] = lastSave[p] < Gap]
    /\ lastSave' = [lastSave EXCEPT ![p] = IF @ < Gap THEN @ ELSE 0]
    /\ Reach(User(p), IF lastSave[p] < Gap THEN after ELSE "dump")
    /\ local' = [local EXCEPT ![User(p)].next = after]

\* The part under the lock; then either the callers return or the list is written.
Save(p, data, after) ==
    /\ cache' = [cache EXCEPT ![p] = [data |-> data, age |-> 0]]
    /\ dirty' = [dirty EXCEPT ![p] = lastSave[p] < Gap]
    /\ lastSave' = [lastSave EXCEPT ![p] = IF @ < Gap THEN @ ELSE 0]
    /\ Reach(User(p), IF lastSave[p] < Gap THEN after ELSE "dump")
    /\ local' = [local EXCEPT ![User(p)].next = after]

\* _save(default): the other process may have made the file in the meantime.
SaveDefault(p) ==
    /\ at[User(p)] = "default"
    /\ Save(p, <<>>, "use")
    /\ upset' = IF file = None THEN upset ELSE upset \cup {"default"}
    /\ UNCHANGED <<file, cooling, log, setting>>

\* json.dump of the object as it is now; two writes at a time may be moved in the
\* other order.
Dump(a) ==
    /\ at[a] = "dump"
    /\ local' = [local EXCEPT ![a].copy = cache[a[1]].data]
    /\ Reach(a, "move")
    /\ upset' = IF \E b \in Actors \ {a} : at[b] = "move" THEN upset \cup {"crossed"} ELSE upset
    /\ UNCHANGED <<file, cache, dirty, lastSave, cooling, log, setting>>

Sleep(a) ==
    /\ Reach(a, "asleep")
    /\ local' = [local EXCEPT ![a] = [NoLocals EXCEPT !.wait = Pause]]

\* shutil.move. A default that has been saved is then used by the caller of _load.
Move(a) ==
    /\ at[a] = "move"
    /\ file' = local[a].copy
    /\ IF a[2] = "flush" THEN Sleep(a)
       ELSE Reach(a, local[a].next) /\ local' = [local EXCEPT ![a].copy = None]
    /\ upset' = IF local[a].next = "use" /\ file # None THEN upset \cup {"default"} ELSE upset
    /\ UNCHANGED <<cache, dirty, lastSave, cooling, log, setting>>

\* safe_write_json raises: the flush thread ends with it, a user's caller gets it, and
\* in both cases the list no longer counts as dirty.
WriteFails(a) ==
    /\ at[a] = "dump"
    /\ setting.failures > 0
    /\ setting' = [setting EXCEPT !.failures = @ - 1]
    /\ upset' = upset \cup {"failed"}
    /\ IF a[2] = "flush" THEN Reach(a, "dead") /\ UNCHANGED local ELSE Done(a)
    /\ UNCHANGED <<file, cache, dirty, lastSave, cooling, log>>

-----------------------------------------------------------------------------
(* _alert_flush_loop and _flush_save *)

Flush(p) ==
    LET a == Flusher(p) IN
    /\ at[a] = "asleep"
    /\ local[a].wait = 0
    /\ dirty' = [dirty EXCEPT ![p] = FALSE]
    /\ IF dirty[p]
       THEN Reach(a, "dump") /\ UNCHANGED local
       ELSE Sleep(a)
    /\ UNCHANGED <<file, cache, lastSave, cooling, setting, history>>

-----------------------------------------------------------------------------
(* trigger, get_recent, list_alert_configs *)

\* data["recent"][-max_recent:]
LastOf(seq) == IF Len(seq) > MaxRecent THEN SubSeq(seq, Len(seq) - MaxRecent + 1, Len(seq)) ELSE seq

\* The hook has raised, or a screen has blocked a client.
Trigger ==
    /\ at[User("proxy")] = "idle"
    /\ Newest < MaxAlerts
    /\ \E c \in Configs : Load("proxy", [NoLocals EXCEPT !.cfg = c])

\* The notification goes to Telegram first, for up to ten seconds.
Notify ==
    LET a == User("proxy")  c == local[a].cfg IN
    /\ at[a] = "use"
    /\ c # None
    /\ IF cooling[c] > 0
       THEN Done(a) /\ UNCHANGED cooling
       ELSE Reach(a, "posting") /\ cooling' = [cooling EXCEPT ![c] = AlertCooldown] /\ UNCHANGED local
    /\ UNCHANGED <<file, cache, dirty, lastSave, setting, history>>

\* Sent or not, the alert joins the list, and the list is saved.
Record ==
    /\ at[User("proxy")] = "posting"
    /\ Save("proxy", LastOf(Append(cache["proxy"].data, Newest + 1)), "idle")
    /\ log' = [log EXCEPT ![Newest + 1] = 0]
    /\ UNCHANGED <<file, cooling, upset, setting>>

\* /alert recent and /alert list; the proxy's hook after a default was saved for it
Show ==
    /\ at[User("bot")] = "idle"
    /\ Load("bot", NoLocals)

Shown(p) ==
    /\ at[User(p)] = "use"
    /\ local[User(p)].cfg = None
    /\ Done(User(p))
    /\ UNCHANGED <<file, cache, dirty, lastSave, cooling, setting, history>>

-----------------------------------------------------------------------------
Older(age, limit) == IF age < limit THEN age + 1 ELSE limit

AlertsTick ==
    /\ \A p \in Procs : /\ at[User(p)] \in {"idle", "posting"}
                        /\ \/ at[Flusher(p)] = "dead"
                           \/ at[Flusher(p)] = "asleep" /\ local[Flusher(p)].wait > 0
    /\ cache' = [p \in Procs |-> [cache[p] EXCEPT !.age = Older(@, Ttl)]]
    /\ lastSave' = [p \in Procs |-> Older(lastSave[p], Gap)]
    /\ cooling' = [c \in Configs |-> IF cooling[c] > 0 THEN cooling[c] - 1 ELSE 0]
    /\ local' = [a \in Actors |-> IF at[a] = "asleep" THEN [local[a] EXCEPT !.wait = @ - 1] ELSE local[a]]
    /\ log' = [n \in AlertIds |-> IF log[n] = None THEN None ELSE Older(log[n], Old)]
    /\ UNCHANGED <<file, dirty, at, upset, setting>>

FirstStage(a) == IF a[2] = "flush" THEN "asleep" ELSE "idle"
FirstLocals(a) == IF a[2] = "flush" THEN [NoLocals EXCEPT !.wait = Pause] ELSE NoLocals

\* A process ends anywhere and starts again. Alerts that no flush had come for are lost.
Restart(p) ==
    /\ setting.restarts > 0
    /\ setting' = [setting EXCEPT !.restarts = @ - 1]
    /\ cache' = [cache EXCEPT ![p] = [data |-> None, age |-> Ttl]]
    /\ dirty' = [dirty EXCEPT ![p] = FALSE]
    /\ lastSave' = [lastSave EXCEPT ![p] = Gap]
    /\ cooling' = IF p = "proxy" THEN [c \in Configs |-> 0] ELSE cooling
    /\ at' = [a \in Actors |-> IF a[1] = p THEN FirstStage(a) ELSE at[a]]
    /\ local' = [a \in Actors |-> IF a[1] = p THEN FirstLocals(a) ELSE local[a]]
    /\ log' = [n \in AlertIds |-> IF p = "proxy" /\ n \in Known /\ log[n] <= Pause
                                /\ (file = None \/ n \notin ToSet(file))
                             THEN None ELSE log[n]]
    /\ UNCHANGED <<file, upset>>

AlertsInit ==
    /\ setting \in Settings
    /\ file = IF setting.exists THEN <<>> ELSE None
    /\ cache = [p \in Procs |-> [data |-> None, age |-> Ttl]]
    /\ dirty = [p \in Procs |-> FALSE]
    /\ lastSave = [p \in Procs |-> Gap]
    /\ cooling = [c \in Configs |-> 0]
    /\ at = [a \in Actors |-> FirstStage(a)]
    /\ local = [a \in Actors |-> FirstLocals(a)]
    /\ log = [n \in AlertIds |-> None]
    /\ upset = {}

AlertsNext ==
    \/ \E p \in Procs : Look(p) \/ Fill(p) \/ SaveDefault(p) \/ Flush(p) \/ Shown(p) \/ Restart(p)
    \/ \E a \in Actors : Dump(a) \/ Move(a) \/ WriteFails(a)
    \/ Trigger \/ Notify \/ Record \/ Show
    \/ AlertsTick

AlertsSpec == AlertsInit /\ [][AlertsNext]_alertVars

-----------------------------------------------------------------------------
AlertsTypeOK ==
    /\ setting \in Setting
    /\ file \in Recent \cup {None}
    /\ cache \in [Procs -> [data : Recent \cup {None}, age : 0 .. Ttl]]
    /\ dirty \in [Procs -> BOOLEAN]
    /\ lastSave \in [Procs -> 0 .. Gap]
    /\ cooling \in [Configs -> 0 .. AlertCooldown]
    /\ at \in [Actors -> Stages]
    /\ local \in [Actors -> Local]
    /\ log \in [AlertIds -> (0 .. Old) \cup {None}]
    /\ upset \subseteq {"default", "crossed", "failed"}

\* max_recent later alerts push one out of the list.
PushedOut(n) == Cardinality({m \in Known : m > n}) >= MaxRecent

\* An alert is on disk at the latest one round of the flush thread after it was
\* recorded, and stays there; so a process that ends loses the alerts of one round at
\* most. Not so once a write failed, a default was saved over the other process's
\* file, or two writes overlapped (alerts.py:47-68).
AlertsReachDisk ==
    upset = {} => \A n \in Known :
        log[n] > Pause => PushedOut(n) \/ (file # None /\ n \in ToSet(file))

\* One life of the bot's cache later /alert recent shows it (alerts.py:130-133).
AlertsAreShown ==
    upset = {} /\ at[User("bot")] = "use" => \A n \in Known :
        log[n] = Old => PushedOut(n) \/ n \in ToSet(cache["bot"].data)
=============================================================================
