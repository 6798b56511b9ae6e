---------------------------- MODULE SharedRules -----------------------------
(***************************************************************************)
(* filter_rules.py and webhooks.py: a table of rules (of webhooks) in a    *)
(* JSON file that two processes share, each behind its own cache good for  *)
(* Ttl ticks.  The bot's thread adds and removes; the proxy's request hook *)
(* applies; and, with webhooks only, the threads of the proxy that deliver *)
(* an event note its outcome in the table and save all of it.              *)
(*                                                                         *)
(* A table is the set of rules in it: what a rule says, and when and how   *)
(* its last delivery went, is left out.  Loads and saves take milliseconds *)
(* and time passes between them, or while a delivery waits for its turn or *)
(* its answer.                                                             *)
(***************************************************************************)
EXTENDS Integers, FiniteSets

CONSTANTS
    Items,          \* patterns, countries, header rules; ids of webhooks
    Deliveries,     \* threads of the executor
    Ttl,            \* _f_ttl, _wh_ttl
    Settings,       \* what a behaviour may start from, see Setting
    None            \* no file, nothing cached, no item

Procs == {"bot", "proxy"}
Actors == Procs \cup Deliveries
Proc(a) == IF a = "bot" THEN "bot" ELSE "proxy"

\* Which of the two files, what is in it at the start (it may not exist), the threads
\* there are, how often a write may fail and a process may end.
Setting == [kind : {"filters", "webhooks"}, before : (SUBSET Items) \cup {None},
            deliveries : SUBSET Deliveries, failures : Nat, restarts : Nat]

ASSUME RulesAssumption ==
    /\ Settings \subseteq Setting
    /\ Ttl \in Nat \ {0}
    /\ None \notin Items /\ \A items \in SUBSET Items : None # items
    /\ Deliveries \cap Procs = {}

VARIABLES
    file,       \* filters.json or webhooks.json
    cache,      \* _f_cache or _wh_cache of each process: [data, age]
    pc,         \* where each actor is
    local,      \* its variables: the table it works on, the rule it is about
    status,     \* history: what the administrator was last told of each rule
    unsaved,    \* history: rules whose last change could not be saved
    since,      \* history: ticks since the file was last saved with a change of it
    upset,      \* history: what has been saved that may have undone a change
    setting     \* which file this is, and the faults still to come

history == <<status, unsaved, since, upset>>
vars == <<file, cache, pc, local, setting, history>>

Table == (SUBSET Items) \cup {None}
Local == [data : Table, item : Items \cup {None},
          op : {"add", "remove", "list", "apply", "success", "failure", "none"}]
NoLocals == [data |-> None, item |-> None, op |-> "none"]
Phases == {"idle", "posting", "look", "default", "fill", "use", "save", "stamp"}

Goto(a, phase) == pc' = [pc EXCEPT ![a] = phase]
Done(a) == Goto(a, "idle") /\ local' = [local EXCEPT ![a] = NoLocals]

-----------------------------------------------------------------------------
(* _load and _save *)

BugNeverExpires(p) == cache[p].data # None
Fresh(p) == cache[p].data # None /\ cache[p].age < Ttl

Load(a, mine) ==
    /\ IF Fresh(Proc(a))
       THEN Goto(a, "use") /\ local' = [local EXCEPT ![a] = [mine EXCEPT !.data = cache[Proc(a)].data]]
       ELSE Goto(a, "look") /\ local' = [local EXCEPT ![a] = mine]
    /\ UNCHANGED <<file, cache, setting, history>>

\* Outside the lock: os.path.exists and safe_read_json. Without a file there are no
\* webhooks; a file of empty filters is made.
Look(a) ==
    /\ pc[a] = "look"
    /\ local' = [local EXCEPT ![a].data = IF file = None THEN {} ELSE file]
    /\ Goto(a, IF file # None THEN "fill"
               ELSE IF setting.kind = "filters" THEN "default" ELSE "use")
    /\ UNCHANGED <<file, cache, setting, history>>

\* _save(default): the other process may have made the file in the meantime.
SaveDefault(a) ==
    /\ pc[a] = "default"
    /\ file' = local[a].data
    /\ cache' = [cache EXCEPT ![Proc(a)] = [data |-> local[a].data, age |-> 0]]
    /\ upset' = IF file = None THEN upset ELSE upset \cup {"default"}
    /\ Goto(a, "use")
    /\ UNCHANGED <<local, status, unsaved, since, setting>>

Fill(a) ==
    /\ pc[a] = "fill"
    /\ cache' = [cache EXCEPT ![Proc(a)] = [data |-> local[a].data, age |-> 0]]
    /\ Goto(a, "use")
    /\ UNCHANGED <<file, local, setting, history>>

\* The second half of _save; its callers then return.
Stamp(a) ==
    /\ pc[a] = "stamp"
    /\ cache' = [cache EXCEPT ![Proc(a)] = [data |-> local[a].data, age |-> 0]]
    /\ Done(a)
    /\ UNCHANGED <<file, setting, history>>

-----------------------------------------------------------------------------
(* The bot: register, add_..., remove, remove_..., list_webhooks, get_... *)

\* A rule may be asked for again; the id of a webhook is made from the time, so one
\* whose registration failed is never asked for.
Command ==
    /\ pc["bot"] = "idle"
    /\ \E mine \in [data : {None}, item : Items \cup {None}, op : {"add", "remove", "list"}] :
         /\ mine.op = "list" <=> mine.item = None
         /\ mine.op = "add" /\ setting.kind = "webhooks" => status[mine.item] = "never" /\ mine.item \notin unsaved
         /\ Load("bot", mine)

\* A rule that is there is not added again and one that is not is not removed, nothing
\* is saved, and the answer is as if it had been or "no encontrado", also when it is
\* there only because a save of it failed. The cached table is changed in place, and
\* before it is saved.
Change ==
    LET mine == local["bot"]
        there == mine.item \in mine.data
        changed == IF mine.op = "add" THEN mine.data \cup {mine.item} ELSE mine.data \ {mine.item}
    IN
    /\ pc["bot"] = "use"
    /\ \/ /\ mine.op = "list" \/ (mine.op = "add" <=> there)
          /\ status' = IF mine.op = "list" THEN status
                       ELSE [status EXCEPT ![mine.item] = IF there THEN "listed" ELSE "removed"]
          /\ Done("bot")
          /\ UNCHANGED cache
       \/ /\ mine.op # "list" /\ ~(mine.op = "add" <=> there)
          /\ cache' = IF cache["bot"].data = mine.data
                      THEN [cache EXCEPT !["bot"].data = changed] ELSE cache
          /\ local' = [local EXCEPT !["bot"].data = changed]
          /\ Goto("bot", "save")
          /\ UNCHANGED status
    /\ UNCHANGED <<file, unsaved, since, upset, setting>>

SaveChange ==
    LET mine == local["bot"] IN
    /\ pc["bot"] = "save"
    /\ file' = mine.data
    /\ status' = [status EXCEPT ![mine.item] = IF mine.op = "add" THEN "listed" ELSE "removed"]
    /\ unsaved' = unsaved \ {mine.item}
    /\ since' = [since EXCEPT ![mine.item] = 0]
    /\ Goto("bot", "stamp")
    /\ UNCHANGED <<cache, local, upset, setting>>

BugErrorSwallowed ==
    /\ pc["bot"] = "save"
    /\ setting.failures > 0
    /\ setting' = [setting EXCEPT !.failures = @ - 1]
    /\ status' = [status EXCEPT ![local["bot"].item] =
                      IF local["bot"].op = "add" THEN "listed" ELSE "removed"]
    /\ Done("bot")
    /\ UNCHANGED <<file, cache, unsaved, since, upset>>

\* safe_write_json raises: the file is as it was, the cached table is not, and the
\* administrator has no answer.
SaveChangeFails ==
    /\ pc["bot"] = "save"
    /\ setting.failures > 0
    /\ setting' = [setting EXCEPT !.failures = @ - 1]
    /\ unsaved' = unsaved \cup {local["bot"].item}
    /\ Done("bot")
    /\ UNCHANGED <<file, cache, status, since, upset>>

-----------------------------------------------------------------------------
(* The proxy: check_url_blocked, is_blocked_country, apply_header_rules; dispatch *)

Request ==
    /\ pc["proxy"] = "idle"
    /\ Load("proxy", [NoLocals EXCEPT !.op = "apply"])

\* The event is handed to the executor for the webhooks that want it.
Apply ==
    /\ pc["proxy"] = "use"
    /\ \/ Done("proxy")
       \/ /\ setting.kind = "webhooks"
          /\ \E d \in setting.deliveries, i \in local["proxy"].data :
               /\ pc[d] = "idle"
               /\ pc' = [pc EXCEPT !["proxy"] = "idle", ![d] = "posting"]
               /\ local' = [local EXCEPT !["proxy"] = NoLocals, ![d].item = i]
    /\ UNCHANGED <<file, cache, setting, history>>

\* urlopen returns or raises: either way the table is loaded to note it.
Posted(d) ==
    /\ pc[d] = "posting"
    /\ \E outcome \in {"success", "failure"} : Load(d, [local[d] EXCEPT !.op = outcome])

\* if wid in data
Note(d) ==
    /\ pc[d] = "use"
    /\ IF local[d].item \in local[d].data THEN Goto(d, "save") /\ UNCHANGED local ELSE Done(d)
    /\ UNCHANGED <<file, cache, setting, history>>

\* A save within Ttl of a change may be of a table that was read before it.
SaveNote(d) ==
    /\ pc[d] = "save"
    /\ file' = local[d].data
    /\ upset' = IF \E i \in Items : since[i] < Ttl THEN upset \cup {"delivery"} ELSE upset
    /\ Goto(d, "stamp")
    /\ UNCHANGED <<cache, local, status, unsaved, since, setting>>

\* A save that raises after a success counts as a failure of the delivery.
SaveNoteFails(d) ==
    /\ pc[d] = "save"
    /\ setting.failures > 0
    /\ setting' = [setting EXCEPT !.failures = @ - 1]
    /\ \/ /\ local[d].op = "success"
          /\ local' = [local EXCEPT ![d].op = "failure", ![d].data =
                          IF Fresh("proxy") THEN cache["proxy"].data ELSE None]
          /\ Goto(d, IF Fresh("proxy") THEN "use" ELSE "look")
       \/ local[d].op = "failure" /\ Done(d)
    /\ UNCHANGED <<file, cache, history>>

\* The default cannot be saved: the command ends in an error, the request goes on
\* without rules.
SaveDefaultFails(a) ==
    /\ pc[a] = "default"
    /\ setting.failures > 0
    /\ setting' = [setting EXCEPT !.failures = @ - 1]
    /\ Done(a)
    /\ UNCHANGED <<file, cache, history>>

-----------------------------------------------------------------------------
Tick ==
    /\ \A a \in Actors : pc[a] \in {"idle", "posting"}
    /\ cache' = [p \in Procs |-> [cache[p] EXCEPT !.age = IF @ < Ttl THEN @ + 1 ELSE Ttl]]
    /\ since' = [i \in Items |-> IF since[i] < Ttl THEN since[i] + 1 ELSE Ttl]
    /\ UNCHANGED <<file, pc, local, status, unsaved, upset, setting>>

\* A process ends anywhere and starts again: its cache and its deliveries are gone.
Restart(p) ==
    /\ setting.restarts > 0
    /\ setting' = [setting EXCEPT !.restarts = @ - 1]
    /\ cache' = [cache EXCEPT ![p] = [data |-> None, age |-> Ttl]]
    /\ pc' = [a \in Actors |-> IF Proc(a) = p THEN "idle" ELSE pc[a]]
    /\ local' = [a \in Actors |-> IF Proc(a) = p THEN NoLocals ELSE local[a]]
    /\ UNCHANGED <<file, history>>

Init ==
    /\ setting \in Settings
    /\ file = setting.before
    /\ cache = [p \in Procs |-> [data |-> None, age |-> Ttl]]
    /\ pc = [a \in Actors |-> "idle"]
    /\ local = [a \in Actors |-> NoLocals]
    /\ status = [i \in Items |-> IF file # None /\ i \in file THEN "listed" ELSE "never"]
    /\ unsaved = {}
    /\ since = [i \in Items |-> Ttl]
    /\ upset = {}

LoadSteps(a) == Look(a) \/ SaveDefault(a) \/ SaveDefaultFails(a) \/ Fill(a) \/ Stamp(a)
Bot == Command \/ Change \/ SaveChange \/ SaveChangeFails
Proxy == Request \/ Apply
Deliver(d) == Posted(d) \/ Note(d) \/ SaveNote(d) \/ SaveNoteFails(d)

Next ==
    \/ \E a \in Actors : LoadSteps(a)
    \/ Bot
    \/ Proxy
    \/ \E d \in Deliveries : Deliver(d)
    \/ Tick
    \/ \E p \in Procs : Restart(p)

Spec == Init /\ [][Next]_vars

-----------------------------------------------------------------------------
TypeOK ==
    /\ setting \in Setting
    /\ file \in Table
    /\ cache \in [Procs -> [data : Table, age : 0 .. Ttl]]
    /\ pc \in [Actors -> Phases]
    /\ local \in [Actors -> Local]
    /\ \A a \in Actors : local[a].data = None <=> pc[a] \in {"idle", "posting", "look"}
    /\ status \in [Items -> {"never", "listed", "removed"}]
    /\ unsaved \subseteq Items
    /\ since \in [Items -> 0 .. Ttl]
    /\ upset \subseteq {"default", "delivery"}

\* What a table says agrees with what the administrator was told of a rule; of one
\* whose last change could not be saved nothing is claimed.
Agrees(table, i) ==
    i \notin unsaved =>
        /\ status[i] = "listed" => i \in table
        /\ status[i] \in {"never", "removed"} => i \notin table

\* A rule the bot confirmed is in the file until it is removed, and a removed one does
\* not come back, through expired caches, restarts and the failed saves of other rules
\* (filter_rules.py:13-38, webhooks.py:36-53). Set aside are three cases in which the
\* code breaks its word: a rule whose own save failed, which the bot confirms from its
\* cache when it is asked again (filter_rules.py:43, bot_control.py:547-549), until a
\* later save of it succeeds; a default saved over the other process's change; and a
\* delivery's stale copy saved over one.
ConfirmedIsKept ==
    upset = {} => \A i \in Items : Agrees(IF file = None THEN {} ELSE file, i)

\* Ttl after it was saved the proxy goes by a change, in the same cases.
TakesEffect ==
    pc["proxy"] = "use" /\ upset = {} =>
        \A i \in Items : since[i] = Ttl => Agrees(local["proxy"].data, i)
=============================================================================
