# TilinX in TLA+

TilinX sells timed access to a game proxy. A client buys a key, redeems it from its
address with a Telegram bot or on a web page, and from then on the mitmproxy addon lets
that address through until the key's time is up. This directory holds TLA+ models of the
program's core, the TLC configurations that check them on small instances, and proofs,
checked by TLAPS, of what holds for every value of the constants. Everything is written
from the Python source; a line number such as `keys.py:136` refers to it.

`PROJECT.json` lists the components, the runs with the properties each checks, the source
lines behind every definition, the hazards of the code with the properties aimed at them,
and the theorems.

    tlc -workers 2 -config KeyLedgerRaces.cfg MCKeyLedger     # one run
    tlapm KeyLedgerProofs.tla                                 # one proof module

## 1. The system

Three programs share a directory of JSON files, with no lock between them: the **proxy**
(`tilinx_proxy.py` under mitmproxy), the **web panel** (`website/app.py` under gunicorn),
and the **bot** (`bot_control.py`, alone or as a thread of the web process). Each keeps
caches and counters in memory and loses them when it restarts.

| component | state | operations | who else touches it |
|---|---|---|---|
| keys (`keys.py`) | `keys.json`: duration, device limit, used, address lists | generate, redeem, remove-ip, extend, refresh, delete; fps keys | bot, panel, bulk commands |
| address table (`database/`, `bulk_ops.py`, `scheduler.py`) | `ips.json`: status, expiry, key | load, save, block, extend, bulk commands, cleanup | bot, panel, scheduler; read by the proxy |
| JSON files (`file_utils.py`) | a file, its temporary file, `.backups/` | read with repair, atomic write with backup and prune | every module |
| proxy gate (`tilinx_proxy.py`) | 15 s cache of `ips.json`, `uids.json`, files to inject | request and response hooks | every file above, all the screens below |
| brain (`brain/`) | expiring in-memory store, optional file | `process`: track, analyse, score, decide, cache, persist | the proxy's request hook |
| bot polling (`bot_control.py`) | offset, cooldowns, error count in memory | poll, dispatch, start, stop | Telegram server; every command |
| panel (`website/app.py`, `adminx.py`) | login attempts and request counters in memory, signed sessions, `adminx.json` | login and lock-out, sessions, key routes, accounts of resellers | keys, database; the bot changes accounts too |
| rate limiter (`rate_limiter.py`) | windows and adaptive scores in memory | check, reset, decay, clean-up | proxy hook, bot |
| scheduler (`scheduler.py`) | `scheduled_tasks.json` behind a 30 s cache | register, remove, loop, task threads | bot commands; address table |
| webhooks, filter rules, templates | a JSON file behind a 30 or 60 s cache each | register, remove, apply, dispatch, send | bot writes, proxy reads and writes back |
| alerts (`alerts.py`) | configs and recent alerts, cached, flushed every 30 s | trigger, list, flush | proxy, bot |
| tokens and codes (`auth_jwt.py`, `twofa.py`) | refresh tokens, revoked list, backup codes | create, verify, refresh, revoke; set up, verify | bot, panel |
| watchdog (`watchdog.py`) | services, restart windows | check, restart, give up | `/health` |
| verification links (`bot_control.py`, `website/app.py`) | pending tokens, chat addresses | generate, consume | keys |
| WAF, GeoIP, cache, monitor, start-up checks, logging, scripts | small caches or none | text matching, lookups, reports | proxy, panel |
| database mode (`database/postgres_db.py`, the `SUPABASE_ENABLED` branches) | table `keys` on a server | the key operations as SQL statements | replaces `keys.json` where configured, as `render.yaml` does |

What is hard here:

* **whole-file read-modify-write without a lock across it.** Module locks cover the write
  alone, and none reaches another process; every operation on two files can be cut in two
  by another handler or by the end of its process;
* **caches with a time to live**, refreshed by whoever reads first, while others rewrite
  the file;
* **crashes** between a backup, a temporary file and a rename, between `keys.json` and
  `ips.json`, in the middle of a batch of commands;
* **an unreliable peer**: Telegram's answers are lost, refused or repeated, handlers raise,
  and the bot may be started several times on one queue;
* **objects that threads share**: the cached dictionaries of the scheduler, of the rules
  and of the alerts, and the entry of a failed login, are changed in place;
* **statements that interleave**: in database mode an operation reads a row and later sets
  some of its columns, whatever happened to the row in between;
* **feedback over time** in the brain: what a verdict writes raises the next score, and
  everything has an expiry of its own.

What makes each part correct: a key never admits more devices than it was sold for, and an
entry in `ips.json` comes from a redeem; no save is half seen or lost to a crash; a change
of `ips.json` reaches the proxy within the life of its cache, and accounts follow
addresses; a verdict needs evidence and is forgiven by silence; every command is dealt
with and no poller deals with one twice between two resets of its offset; what the
administrator was told of a rule, an account or a key is so, as far as the code saves
before it answers; an alert reaches the disk; a lock-out is earned, and comes before too
many guesses.

## 2. What is modelled

### KeyLedger, License

`KeyLedger` is `keys.json` (`keys`), `ips.json` (`ips`), a clock, and threads (bot poller,
scheduler task, web requests) that run handlers. A handler is a sequence of steps: one that
loads a file and changes its own copy (`keysSeen[t]`, `ipsSeen[t]`), one that writes the
copy back; between any two of them other threads run, time passes, or the handler dies
(`Abort`). So a redeem is `RedeemKey` (load, all checks, change), `SaveKeys`, `ActivateIp`
(load the other file), `SaveIps`; `/bulk remove` loads `ips.json` first, then for each
address loads and saves `keys.json` (`RemoveOne`, `SaveKeys`), and writes its old copy of
`ips.json` last. `SaveIpsFails` is `database.save`, which swallows its exception. History
variables: `granted`, the pairs a redeem wrote to `keys.json`, and `promise`, the expiry an
address was last told.

`License` is what a key promises without files or threads; `KeyLedger` implements it
(`KeysAreLicences`) when one handler runs at a time, crashes included. `LooseSpec` is the
weaker promise that still holds for a key in the database, where one update may bring back
an address another has removed: never more holders than the limit, and withdrawn for good.

`MCLedgerWriter` is `KeyLedger` with one thread in two settings, kept apart by the action
constraint `Within`: every operation and handlers that die, on keys for one device; and, once
a key for two devices has been made, the bot's commands alone on three addresses.

### PostgresKeys

The same key operations where `SUPABASE_ENABLED` is set, and `keys.json` plays no part. Every
statement is a transaction of its own, so a step: `RedeemKey`, `RemoveIp`,
`ModifyKeyDuration` and `RefreshKey` read a row, decide, and leave in `job[t]` the columns
they will set and to what; `UpdateKey` sets them, in whatever the row is by then, or in no
row. `UpdateKeyFails` is a statement that raises (nobody looks at the `False` it returns),
`Abort` the end of a process. `GenerateKey` and `DeleteKey` are one statement each. `Init`
includes the rows `migrate_from_local` makes of a `keys.json`. History: `expected`, what a
key is by the answers given about it; `job[t].stale`, the columns another update has set
since the thread read the row.

### SafeFile

One JSON file under `safe_read_json` and `safe_write_json`, a step for every system call
whose order matters: read, pick the newest backup, copy it back (which first empties the
file), read again; make the backup (again in place), list the copies, sort the list, unlink
the oldest one by one, write the temporary file, rename. A copy that another process has
unlinked since it was listed ends the pruning (`SortBackups`, `UnlinkOldest`: the exception
is swallowed), and ends a read that ranks the copies with an error (`RankBackups`: there it
is not). A file's content is the set of updates in it, so "lost" is a subset. Faults are a
crash anywhere, damage from outside, and a disk that is full at the temporary file, the
backup or the restore; the variable `setting`, constant in a behaviour, says which of them
may happen and how often, how many processes are at work and how many backups are kept.
History: `saved`; `result`, what each process last read; `made`, the backups begun, and
`pruned`, how many of them had been begun when the last prune that ran to its end listed
the directory.

Two savers can stop each other's pruning, each at a copy that the other has just unlinked,
and leave one copy more than they were to keep, without any fault. So `BackupsBounded` is
not "at most `max_backups`": it allows the copies begun since the listing of the last prune
that ran to its end, and says that such a prune clears away everything older.

### AccessGate

The request hook, one step per place at which the file, the cache or the clock may have
changed: the screens (a free choice of pass, refuse, throttle), `is_active_ip`, the uid
check, the words of a refusal, the patterns, and the second check for a protected host; and
the response hook with the login binding. `cache`, `Fresh`, `LoadDb` and `CacheAfterLoad`
are `load_db`. The writers of `ips.json` appear as `WriteEntry`, which writes any entry,
and so covers every outcome of `KeyLedger`; `ToggleReadable` makes the file unreadable for
a while. History: `okAt[ip]`, when the file last admitted an address, and `steadyFrom[ip]`,
since when it has done so without a change.

### Brain

`BrainV2.process` from the hit counter to the persisted file, in seconds: every entry of
the store carries the time it has left. `Cached` answers from a cached verdict; `Judge`
runs the analysis, twice when the first finds nothing (`risk_scoring.py:41`), scores,
decides and marks. `Restart` loads the file, with whatever has expired since.

### BotPoll

`bot_poll` with the Telegram server. The server holds updates until it is asked for later
ones; a poller raises its offset past an update before it looks at it. A request may fail
with or without the server having taken notice (`Refused`, `Unanswered`), a handler may
raise, which drops the rest of the answer, the process may crash. The web process starts
the poller from two places and the stand-alone bot from a third, and `start_bot` tests a
flag that only the started thread sets, so there may be several; `Homes` says which may
run where.

### Scheduler

`scheduler.py` in one process. `_load` hands out the cached dictionary itself, which several
threads then change in place, and replaces it when its 30 s are over with what it read
outside the lock; so dictionaries have an identity (`heap`), and each thread refers to one
(`local[t].data`). The loop's pass visits one task at a time (`Visit`), fails when the
dictionary has changed size under it (`PassFails`), and a task thread notes the run only
after its handler (`NoteRun`, `SaveRun`). The clock is kept as ages: `file` has for every
task the ticks since its last run. History: `recorded`, the ticks since a run was last
saved; `status`, what the administrator was told; `overlap`, whether a load ever began
between another thread's load and its save, after which an update may be lost.

### SharedRules

`filter_rules.py` and `webhooks.py`, which are the same code around two files: a cache of
each process, good for `Ttl`; `Load`, `Look`, `SaveDefault`, `Fill` and `Stamp` are `_load`
and `_save` with the lock given up in between; `Command`, `Change` and `SaveChange` the
bot's add and remove; `Request` and `Apply` the proxy's hook. With webhooks a delivery
(`Posted`, `Note`, `SaveNote`) loads the table when its request is answered, notes the
outcome, and saves all of it. A table is the set of its rules. History: `status`, what the
administrator was last told of each rule; `unsaved`, the rules whose last change could not be
saved; `since`, how long ago a change was saved; `upset`, whether a default or a delivery's
copy has been saved over the table of another process, after which a change may be undone.

After a failed save the cached table has a rule that the file lacks, and a second command
for it is answered ✅ from the cache: `status` is then "listed" with nothing saved. The
properties name this case and claim nothing of a rule in `unsaved`; they do claim that the
other rules are not hurt by the failure, and that a later save of the rule mends it.

### Alerts

`alerts.py` in the proxy, which triggers, and the bot, which shows: a cached list per
process, `_save` with its choice between writing at once and marking the list dirty, the
flush thread with its pause, the notification that waits for Telegram before the alert is
recorded, and writes of two steps (`Dump`, `Move`). Failing writes end the flush thread.
Alerts are numbered; `log` has the age of each, and `upset` what has happened that may lose
one: two writes that cross are among these. The panel, in whose process the bot may run,
triggers `new_registration` too (`website/app.py:763-764`); no configuration that the
program makes is of that type, so nothing is recorded, and this trigger is left out. With a
configuration of that type written into the file by hand, the panel and the proxy would
save their lists over each other, and the properties here would not hold.

### Panel

`before_request` with its idle sessions, `api_login` with `LOGIN_ATTEMPTS`, logout, the
key routes as far as who may use them (`UseKeys`: any session, an account's included; what
they do to the keys is in `KeyLedger`), the adminX routes, of which one checks the account
(`CheckAccount`, `MakeAccountKey`), and `adminx.json` as the panel's threads and the bot
load, change and save it. An entry of `LOGIN_ATTEMPTS` is a dictionary with an identity (`heap`): threads find it
or make one (`LoginStart`), verify the password meanwhile, and change it later
(`LoginFails`) or drop it (`LoginSucceeds`). `EvictLogins` is the clean-up thread when
there are too many entries. A session is in the browser's cookie: a response overwrites it,
so it outlives a restart. History: `tries` counts failed logins of one life of an entry (an
eviction or a restart begins it anew), `fails` those since the last success, `told` is what
was last answered about an account, `upset` whether logins of one address, or changes of
`adminx.json`, have overlapped.

## 3. Runs

Each property has a mutant of a mapped definition, kept beside it under a name that starts
with `Bug`, which breaks it. The type invariants of `SharedRules`, `Panel`,
`PostgresKeys` and `Alerts` are proved and not among the runs' properties.

| run | instance | what it shows |
|---|---|---|
| `ledger_races` | 1 key without device count, 2 addresses, 2 threads, crashes, failing saves; all operations but those that move durations and times | the device limit of a key's list, the agreement of its two lists, the used mark and the order key-then-address survive every interleaving |
| `ledger_writer` | 1 thread; either all operations and crashes on 2 keys for one device, 1 valid address and a malformed one, or no crash and no panel route on 1 key for 2 devices and 3 addresses | an "OK" is kept until its expiry; `keys.json` refines `License`; in the second setting the two files agree and the device limit holds for admitted addresses |
| `concurrent_redeem` (violation) | 1 key for 1 device, 2 threads | both redeems answer OK, two devices admitted |
| `safe_file` | one process with one fault of any kind; one that dies three times; two processes with one fault, or with none and two more saves, in which they cut each other's pruning short | no half-written file, no save lost to a crash alone, one save at most lost to one fault, a prune that runs to its end leaves no old copies |
| `access_gate` | 1 address, 1 account, TTL 2, expiries 0 and 4, clock from 2 to 5, protected and login URLs | revocation and activation take effect within the TTL; an account is bound only to an address admitted before |
| `brain_score` | 1 client, 2 paths, all times and thresholds scaled down | a challenge needs an anomaly; silence forgives |
| `bot_poll` | 2 pollers in one process or two, 2 updates, cooldown 1, reset after 2 refusals | no update forgotten, none dispatched twice by a poller between two resets, the queue moves on |
| `scheduler` | 2 tasks, 2 loops, 1 task thread, the bot; interval 3, cache 1, pauses 1 and 2 ticks; three settings: a task beside one that hangs, a task with a stop or a restart, two loops | confirmed tasks are kept and removed ones stay away, no task is run too soon, each is run again, a stop ends the loops |
| `shared_rules` | 2 rules, TTL 2; filters with a failing write and a restart; webhooks with up to 2 deliveries, or one and a fault; with and without a file | what was confirmed is kept and applied within the TTL, also when a save of another rule fails, as long as no default and no delivery was saved over it |
| `alerts` | 3 alerts of 2 kinds, a list of 2, TTL 3, 1 tick between direct writes, rounds of 2; either no file or any two of failing writes and restarts | an alert is on disk after one round and shown one TTL later |
| `panel` | lock-out after 3 failures for 2 ticks, idle limit 1; three settings: two threads guessing from one address, with a restart; one thread, two addresses and an eviction; one thread and the bot changing two accounts | lock-outs are earned; guesses are bounded for each life of an entry; the key of a deactivated account opens no session, and a session it has makes no key on the account's route |
| `database_keys` | 1 key, limits 0 and 2, 3 valid addresses and a malformed one, 2 threads, failing statements and crashes, migrated rows | rows are sound, answers are kept but for failed and overtaken updates, a key refines the weaker `License` |

**Why these bounds.** The races of `KeyLedger` are between two handlers on one key: a
third only repeats what one of the two can do again after it ended, and threads return to
idle. Two addresses are needed for "one more than allowed"; device counts 0 and 1 clamp to
the same limit, and `ledger_writer` has a limit of two with a third address to break it.
The clock is at 1 when a redeem sets an expiry of 2: before, at and after the expiry all
occur. `Horizon` bounds the durations an operation starts from, not those it reaches.
`access_gate` runs the clock for more than a life of the cache, with an expiry inside it;
a page that is neither protected nor a login takes the same steps and fewer. In `scheduler`
the cache lasts as long as a pause and the interval outlives both, as with 30 s, 30 s and an hour;
the task thread and the bot meet on the table at any step, and a second task thread could
only repeat what the bot's thread does to the first. In `Brain` the ratios matter and not the seconds: thresholds keep
their order and their values in points (25, 55, 80; 20 up to 80), windows shrink from
seconds and hours to 2, 3 and 4 ticks with the cached verdicts shorter than the marks and
the burst keys as short as the window. Its scores are those of the code, so a client needs
several marked requests to reach a block, as it does there. In `shared_rules`, `alerts` and `panel` every time is kept as an
age up to the point where the code stops looking at it, so those runs have no bound on the
clock; the faults are what `setting` allows. A list of two and three alerts push one out;
`Pause < Ttl` and `Gap < Ttl` as 30 s and 10 s are below 60 s. Three failures before a
block let two threads overlap with one to spare. Two threads suffice in `database_keys` for one
update to overtake another, and 3 addresses to try one more than the limit of two.
Four saves let a file go through
the backup limit of two and lose a copy, and let two processes that keep one copy each cut
the other's pruning short; two updates let one command fail in front of
another, and a reset after two refusals exercises both branches of the error count.

`CHECK_DEADLOCK FALSE` stands where a bound, on the clock or on the number of saves, ends a
behaviour; the other runs have the check on.

**Fairness** is assumed in `BotPoll` and `Scheduler`. In the latter the threads' own steps
are weakly fair, but for the handlers of tasks that `setting.slow` names; `Tick` is strongly
fair, because it waits for the moments when no thread is at work on the table: loads and
saves take milliseconds and the poller accepts a chat's next command after 0.3 s. The
administrator's commands are not fair. `RunsAgain` has as a premise that the scheduler stays
on and the task in the file. In `BotPoll` a poller's own steps are weakly fair: its
thread is scheduled, and every request a handler makes has a timeout. `Receive` is
strongly fair: a poller that asks for ever gets an answer now and then. Nothing is assumed
of starts, crashes, refusals or users; `QueueMovesOn` has as a premise that some poller
stays at work and that refusals stop, since a poller that is refused over and over goes
back to offset 0 by design.

## 4. Proofs

| module | theorems | argument |
|---|---|---|
| `KeyLedgerProofs` | `Soundness`, `TypeCorrect`, `NoKeyOverfull`, `OneList`, `UsedKeysHaveHolders`, `GrantsAreBacked` | no lock protects a file, so an invariant of the files alone is not inductive: `IInv` says that each copy some thread may still write is as sound as the file, and where a redeem stands between its two files |
| | `PromisesKept`, `LedgerRefinesLicence`, `BotDeviceLimit`, `BotFilesAgree` | for one writer at a time (`OneWriter`): the copy at hand is then the file but for the job's own changes, so no save undoes another. `PromisesKept` also needs saves that do not fail, since `database.save` answers as if they had not. `LedgerRefinesLicence` maps each step to one of `License` or a stutter, also with aborted jobs and failed saves. The last two, for the bot alone, add that no panel revokes (`BotAlone`), and count the slots of a key against its entries in `ips.json` |
| `SafeFileProofs` | `TypeCorrect`, `BackupsStayBounded`, `FileStaysWhole`, `NothingIsLostByCrash`, `LosesOneSave` | the bound on the backups rests on one fact about each process that is pruning (`Fresh`): the copies that are there and that it has not listed are no more than those begun since it listed; the others can only unlink, so what it has left when its list is short enough is what the bound allows. The file is whole because a temporary file is complete before the rename, and without damage no process repairs. A single process carries everything saved in the file or at hand, whatever crashes. With one fault the argument is the order of modification times: until it happens the newest backup misses one save at most and is older than the file (`Unhurt`), and after it either the file or that backup is readable (`Hurt`) |
| `ProxyProofs` | `CacheSound`, `GateTyped`, `RevocationBounded`, `AccountsFollowAddresses`, `ActivationBounded` | `CInv`: whatever the cached table admits now, the file admitted at the table's stamp or later; with the TTL this bounds the age of every admission. `SInv` is its converse for activations: a client whose entry has been active for longer than the TTL is active in every table the proxy may use, since a table read after the last change of an entry has that entry |
| | `MarksAreEarned`, `StoreTyped`, `ChallengesAreEarned`, `SilenceIsForgiven` | a client no analysis flagged has no reputation, history or cached verdict, in memory or in the file; with volume below the challenge threshold it can't earn one. `FInv`: what is left of the life of every entry of a client, in memory and in the file, is no more than `Forget` less its silence, so a silence of `Forget` leaves nothing, and one request alone scores nothing |
| `BotProofs` | `OffsetsAreTrue`, `BotTyped`, `ServerForgetsWhatIsDone`, `NoCommandTwice` | of `BotPoll`: below a poller's offset everything is done but the dispatch under way; what waits in its answer is above it, without a gap that is not done |
| | `AlertsKept`, `AlertsTyped`, `AlertsAreWritten`, `AlertsComeUp` | of `Alerts`: the file alone does not say where a recent alert is. While nothing is upset, an alert that the file lacks is in the proxy's cached list, which is then dirty and younger than the flush thread's next round is far (`DirtyList`, so `Pause < Ttl` keeps it from expiring first), or in a write under way (`OnDisk`). The file, the copy a thread is about to move and the cached list each follow the one before (`InOrder`), so what a list is past all later ones are past; this is what makes an alert missing from the bot's older copy one that was pushed out (`BotCopy`) |
| `SchedulerProofs` | `TasksKept`, `SchedulerTyped`, `ConfirmedStaysKept`, `RunsAreApart` | the file says nothing of a change still in a dictionary, and `_load` hands out dictionaries that others change. Always: what each thread has at hand in each phase, a dictionary just read is no one else's, and one is free for the next load. While no load falls into another thread's load or update: one thread at most is at work, whoever goes through the table has the cached dictionary, and that, while fresh, is the file but for the task about to be saved (`Faithful`); what is about to be saved is what the administrator asked for, and the age of a run in the file is no more than its real one (`Told`) |
| `PostgresKeysProofs` | `RowsKept`, `DatabaseTyped`, `RowsStaySound`, `AnswersStayKept`, `KeysRemainLicences` | what a thread is about to write fits the row it will find, whatever others did since it read it: the limit of a row never changes, both lists are set together, and columns no one has set since are as they were read. The refinement of `License` (`LooseSpec`) follows step by step |
| `SharedRulesProofs` | `RulesKept`, `RulesTyped`, `ConfirmedStays`, `ChangesTakeEffect` | the file alone says nothing of the next save, which writes a cached table: but for the rule at hand and those in `unsaved` the bot's cache and working table say what the administrator was told, and a proxy's copy does for every rule saved longer ago than the copy is old |
| `PanelProofs` | `PanelKept`, `PanelTyped`, `LockoutsAreEarned`, `GuessesBounded`, `AccountsStayChecked` | a thread may store a dictionary of its own over another's, so the counts in the store are not inductive: every dictionary, stored or only held, belongs to one address and counts no more than its failures. How many guesses come before a lock-out follows from a measure: the failures there is still room for, summed over the dictionaries of an address, together with those made never grow. `tries` starts again when an entry is evicted or the process restarts, so the bound is for one life of an entry. For accounts, the one copy about to be saved is the file with one change, and a thread between check and key serves an account that was active or has just been told of |

The proofs use the modules' `ASSUME`s only: finite `Ips`, natural numbers, and a `NoKey` and
`NoEntry` that are no key and no entry in `KeyLedger`; finitely many processes, settings that
keep at least one backup, a `Bad` that is no content and an `Absent` that is no file in
`SafeFile`; `Ttl` positive in `AccessGate`; the challenge and block thresholds above 35,
what volume alone can score, in `Brain`; natural numbers in `BotPoll`; finite `Ips`, natural
numbers and a `NoKey` that is no row in `PostgresKeys`; a positive `Ttl` and a `None` that
is no rule in `SharedRules`; finite sets of tasks and threads, three disjoint kinds of thread
and positive times in `Scheduler`; positive sizes and times, `Pause` and `Gap` below `Ttl`, and a
`None` of its own in `Alerts`; finite `Ips` and `Threads`, positive limits and a `None` of its
own in `Panel`. TLC evaluates them in every run.

Some theorems have a hypothesis of their own, in their statement:

* `OneWriter`: there is one thread of handlers. It is what the bot is to itself: `bot_control.py`
  dispatches one update after the other. With two threads the statements are false, as section
  5 says and `ConcurrentRedeem` shows for the limit. `~SaveErrors` is a disk that takes what is
  written, `~Aborts` a process that is not killed between its two saves.
* `ForgetLasts` and `OneIsHarmless` of `ProxyProofs`: nothing the brain keeps outlives `Forget`,
  and a client's first request is neither a burst nor a scrape, loop or volume. Most thresholds
  are read from the environment (`anomaly_engine.py:23-28`, `behavior_tracker.py:23`), so these
  are no assumptions of the module; the code's defaults satisfy them.

Checked by TLC only:

* `QueueMovesOn`, `RunsAgain` and `StopEndsLoops`: liveness under fairness is outside what
  TLAPS proves;
* `BotKeepsFilesAgreed` and `BotKeepsDeviceLimit`, as the run states them: they pick the behaviours
  of one writer out of a run that has others. `BotFilesAgree` and `BotDeviceLimit` prove the same
  promises for every instance that has no other.

## 5. What the code does that its words do not say

One of these has a run that ends in a violation and a finding in `PROJECT.json`: two
redeems at once exceed the device limit. The others were met while modelling and have no
run of their own.

Files and keys:

* the repair tries the newest backup only and gives up beside older ones that are readable
  (`file_utils.py:86`);
* two writers of `ips.json` at a time: the later save undoes the earlier one, a confirmed
  activation included, and a `database.save` that fails answers "OK" all the same
  (`keys.py:146`, `database/__init__.py:101-123`);
* `revoke-ip` of the panel frees the key's slot but leaves the address admitted
  (`website/app.py:694`);
* a refreshed key keeps its address lists in file mode, not in database mode
  (`keys.py:258-266`);
* a key of duration 0, "Sin límite" in the panel, expires at once (`keys.py:140`);
* two savers that prune at once, or a prune that a crash or a full disk forestalls, leave
  copies beyond `max_backups` until the next prune that nothing disturbs
  (`file_utils.py:65-73`); a copy cut short by a full disk stays, with the newest time, and
  is the one a repair would take (`file_utils.py:59-63`);
* a read that finds its file damaged raises, instead of returning the default, when a
  backup is pruned between the listing and its `getmtime` (`file_utils.py:81-85`);
* a repair that runs while another process saves may copy an older content over the new
  one (`file_utils.py:20`);

Proxy and brain:

* a throttled request skips the rest of the hook, access check included, and goes on to the
  server, where the decision engine says it is to be slowed down (`tilinx_proxy.py:439`,
  `brain/decision_engine_v2.py:17`);
* the brain's hit count is not of a sliding window: every hit renews the expiry of the
  counter (`brain/behavior_tracker.py:38`, `brain/memory_store.py:65-72`); at `MAX_KEYS` new
  keys are dropped without a word (`memory_store.py:51`);
* the proxy answers a client whose entry the cleanup has marked "expired" with the words
  for an unknown one (`tilinx_proxy.py:300-319`);
* of two accounts at one address the later in `uids.json` decides (`tilinx_proxy.py:482`);

Bot and scheduler:

* commands that queue up while the bot is down are dropped by the cooldown, but the first
  of each chat (`bot_control.py:1006`);
* a task registered while another thread is between its load and its save may be lost,
  though the bot has confirmed it (`scheduler.py:25-36`); two tasks of one type registered
  in the same second share an id (`scheduler.py:41`);
* the last run of a task is noted after its handler: one that takes longer than the loop's
  30 s is started again and again beside itself, and one that raises or is of an unknown
  type is tried at every pass (`scheduler.py:116-124`, `139`);
* a stop and a start within the loop's pause leave two loops; a stop before the new
  thread's first line is lost (`scheduler.py:129`, `148-161`).

Rules and alerts:

* a delivery saves the proxy's cached copy of `webhooks.json`, up to a minute old: a webhook
  registered in between is lost, one removed in between is back although the bot said
  "eliminado" (`webhooks.py:121-124`); since each save renews the cache, a proxy that
  delivers often may not read the file again at all;
* after a failed write the cached table has the change and the file has not: asked again,
  the bot answers ✅ without saving, and a restart or 60 s later the rule is gone
  (`filter_rules.py:43`, `bot_control.py:547-549`);
* a process that finds no file writes an empty one, and may write it over a rule another has
  just added (`filter_rules.py:24-31`); a whitelisted country has no effect on the verdict
  (`filter_rules.py:83-86`);
* two writes of the alerts, by the flush thread and directly, may be moved in the other
  order; a failed write ends the flush thread for good, with the list no longer marked
  dirty (`alerts.py:47-68`); the notification holds the proxy's hook for up to ten seconds;
* of the types of alert that the proxy triggers the default configurations know
  `system_error` only, and of the panel's `new_registration` (`website/app.py:764`) none.

Panel:

* the count of failed logins is not reset when a block ends, so the next failure blocks
  again; a thread that started before there was an entry may replace a blocked one by its
  own (`website/app.py:358-406`); blocked addresses are evicted like the others;
* a request in flight while its browser logs out writes the session back;
* two changes of `adminx.json` at once may reactivate an account (`adminx.py`); a toggle of
  an account that was removed in between answers success (`app.py:922-923`); an account's
  own keys can be listed and deleted after it was deactivated;
* a deactivated or removed account with a session from before is refused on its own route
  only (`website/app.py:854-856`): the panel's other key routes ask for `logged_in` alone,
  which the login of an account sets too, so it still makes, extends, refreshes, revokes and
  deletes keys there (`website/app.py:390`, `627-729`), for as long as it comes back before
  the session times out;
* nothing sets `tfa_pending`, so the second factor is never asked for; in database mode an
  account has the field `is_active` where the login reads `active`, so none can log in.

Database mode, which `render.yaml` deploys:

* `database.save` does nothing there, and the statement that would add an address is called
  by `migrate_from_local` alone: a redeem answers "✅ IP Activada" and the address is never
  in table `ips`;
* two redeems at once may both be answered OK while the row keeps one of the addresses;
* a used key that was migrated has the status "used" and is refused to everyone; the
  database stores `max_devices` 0 as it comes; nobody looks at the result of `update_key`
  and `add_key`.

## 6. Not modelled

`PROJECT.json` says it component by component. In short:

* text: the patterns of the WAF, wording, HTML, reports, the protobuf parsing of a login,
  the configuration templates, which are constants;
* pure reads and lookups: monitoring, start-up checks, the memo of `geoip.py`, `cache.py`;
* what nothing calls: tokens and second factor (no login reaches `auth_jwt.py` or
  `twofa.py`), the watchdog (no service is ever registered), the tables for addresses, users
  and sessions of the database;
* the rate limiter and the request counters of the panel: counters in one process, behind a
  lock, whose only effect is a refusal, which the screens of `AccessGate` and `Panel` allow
  at any time;
* scripts run by hand.

In the modules themselves: `KeyLedger` and `PostgresKeys` leave out the fps keys; `Brain`
the caps of its store (`MAX_KEYS`) and the path counters, which nothing reads; `BotPoll` the
`scheduler.start_scheduler` of `start_bot`, and it lets a stopped poller be started again,
which the code's callers do only through a new process. `Scheduler` has one interval for all
tasks, and ids that are never used twice. `SharedRules` leaves out what a rule says and the
counters of a webhook's deliveries; `Alerts` the text of an alert and the editing of
configurations, which no command does; `Panel` keeps the count of failures up to the limit.

## 7. Plan

Done: every component of section 2 modelled, and proofs of the safety properties of all of
them. Left, in this order:

1. composition: `KeyLedger` under `AccessGate` (an address redeemed is let in within the
   TTL), and `SafeFile` under `KeyLedger`;
2. the rate limiter's windows, and the verification links of the bot and the panel.
