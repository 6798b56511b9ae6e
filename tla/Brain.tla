------------------------------- MODULE Brain --------------------------------
(***************************************************************************)
(* brain/: the risk score the proxy asks for on every request.  BrainV2    *)
(* tracks the request, answers a cached block or challenge, and otherwise  *)
(* looks for anomalies, scores them together with the client's past, and   *)
(* caches what it decides; a block or a challenge adds to that past.  All  *)
(* of it lives in a MemoryStore of keys that expire, written to a file now *)
(* and then, and read back at start.                                       *)
(*                                                                         *)
(* Only the proxy's event loop calls process, so a request is one step.    *)
(* Readers drop an expired key before they look at it, as the cleanup      *)
(* thread does, so an entry is its value and the seconds it has left, and  *)
(* it is gone with the second after them: no clock is needed.  Counts stop *)
(* one above the largest number they are compared with.                    *)
(*                                                                         *)
(* Left out: path counters (never read), cached "allow" and "rate_limit"   *)
(* (never used), the limits of MAX_KEYS and MAX_LIST_ITEMS, decay_history  *)
(* (nothing calls it).                                                     *)
(*                                                                         *)
(* ProxyProofs reads this module together with AccessGate, the proxy's     *)
(* other part; hence the names BrainInit, BrainNext and BrainSpec.         *)
(***************************************************************************)
EXTENDS Integers, Sequences, FiniteSets

CONSTANTS
    Clients, Paths,
    Window,             \* TilinX_BRAIN_WINDOW
    Recent,             \* events process looks at
    EventSpan,          \* get_recent ignores older events
    BurstHits, BurstWindow, BurstMax, CountLife,    \* CountLife: ex of the two burst keys
    ScrapeMin, ScrapePercent, LoopLength, RefreshGap,
    Volume,             \* the four thresholds of _volume_score
    RateLimit, Challenge, Block,                    \* thresholds of the decision
    ChallengeTtl, BlockTtl,
    Penalty, PenaltyCap,
    Forget,             \* ex of brain:reputation and brain:history
    PersistInterval

ASSUME BrainAssumption ==
    /\ {Window, Recent, EventSpan, BurstHits, BurstWindow, BurstMax, CountLife, ScrapeMin,
        ScrapePercent, LoopLength, RefreshGap, RateLimit, Challenge, Block, ChallengeTtl,
        BlockTtl, Penalty, PenaltyCap, Forget, PersistInterval} \subseteq Nat
    /\ Volume \in [1..4 -> Nat]
    /\ 0 < Recent
    \* Volume alone is at most 35 points.
    /\ 35 < Challenge /\ 35 < Block

VARIABLES
    store,      \* MemoryStore, by client
    disk,       \* the file of persist_to_disk
    persists,   \* is TilinX_BRAIN_PERSIST_PATH set?
    stale,      \* seconds since _last_persist
    whitelist,  \* _WHITELIST and TilinX_BRAIN_WHITELIST
    verdict,    \* history: the action each client was last answered
    flagged,    \* history: clients an analysis ever found an anomaly for
    quiet       \* history: seconds since each client's last request

brainVars == <<store, disk, persists, stale, whitelist, verdict, flagged, quiet>>

Smaller(a, b) == IF a <= b THEN a ELSE b

-----------------------------------------------------------------------------
(* MemoryStore *)

Lasting(V, life) == [v : V, left : 0..life]
Gone == [v |-> 0, left |-> 0]
Undecided == [v |-> "none", left |-> 0]
Aged(x, gone) == IF x.left = 0 THEN gone ELSE [x EXCEPT !.left = @ - 1]

Event == [age : Nat, path : Paths]
Bad == {"challenge", "block"}
Actions == {"allow", "rate_limit"} \cup Bad

Client == [events : {e \in Seq(Event) : Len(e) <= Recent},
           hits : Lasting(0..BurstHits + 1, Window),
           stamp : Lasting({0, 1}, CountLife),
           count : Lasting(0..BurstMax + 1, CountLife),
           reputation : Lasting(0..100, Forget),
           history : Lasting(0..PenaltyCap, Forget),
           decision : [v : {"none"} \cup Bad, left : 0..ChallengeTtl \cup 0..BlockTtl]]

Stranger == [events |-> << >>, hits |-> Gone, stamp |-> Gone, count |-> Gone,
             reputation |-> Gone, history |-> Gone, decision |-> Undecided]

\* Events are newest first, so those get_recent ignores are at the end.
Remembered(events) ==
    LET n == Cardinality({i \in DOMAIN events : events[i].age < EventSpan - 1})
    IN  [i \in 1..n |-> [events[i] EXCEPT !.age = @ + 1]]

Older(s) == [events |-> Remembered(s.events), hits |-> Aged(s.hits, Gone),
             stamp |-> Aged(s.stamp, Gone), count |-> Aged(s.count, Gone),
             reputation |-> Aged(s.reputation, Gone), history |-> Aged(s.history, Gone),
             decision |-> Aged(s.decision, Undecided)]

-----------------------------------------------------------------------------
(* BehaviorTracker.track *)

Tracked(s, path) ==
    [s EXCEPT !.events = SubSeq(<<[age |-> 0, path |-> path]>> \o @, 1,
                                Smaller(Len(@) + 1, Recent)),
              !.hits = [v |-> Smaller(@.v + 1, BurstHits + 1), left |-> Window]]

-----------------------------------------------------------------------------
(* AnomalyEngine *)

\* detect_burst: whether it finds one, and what it writes
LastWithin(s) == s.stamp # Gone /\ CountLife - s.stamp.left < BurstWindow
NextCount(s) == Smaller(IF LastWithin(s) THEN s.count.v + 1 ELSE 1, BurstMax + 1)

Burst(s) == s.hits.v > BurstHits \/ (LastWithin(s) /\ NextCount(s) > BurstMax)
Counted(s) ==
    IF s.hits.v > BurstHits THEN s
    ELSE [s EXCEPT !.count = [v |-> NextCount(s), left |-> CountLife],
                   !.stamp = IF Burst(s) THEN @ ELSE [v |-> 1, left |-> CountLife]]

PathsOf(events) == {events[i].path : i \in DOMAIN events}

Scraping(s) == LET n == Len(s.events) IN
    /\ n >= ScrapeMin
    /\ 100 * Cardinality(PathsOf(s.events)) < ScrapePercent * n

\* paths[-5:]: the oldest ones
Loop(s) == LET n == Len(s.events) IN
    /\ n >= LoopLength
    /\ Cardinality(PathsOf(SubSeq(s.events, n - LoopLength + 1, n))) = 1

FastRefresh(s) ==
    /\ Len(s.events) >= 3
    /\ \A i \in {1, 2} : s.events[i+1].age - s.events[i].age \in 1..(RefreshGap - 1)

\* analyze: the signals found, and the store it leaves
Signals(c, s) ==
    IF c \in whitelist THEN {}
    ELSE {x \in {"burst"} : Burst(s)} \cup {x \in {"scraping"} : Scraping(s)} \cup
         {x \in {"loop"} : Loop(s)} \cup {x \in {"fast_refresh"} : FastRefresh(s)}
Analyzed(c, s) == IF c \in whitelist THEN s ELSE Counted(s)

-----------------------------------------------------------------------------
(* RiskScoring and DecisionEngineV2 *)

VolumeScore(n) ==
    IF n > Volume[4] THEN 35
    ELSE IF n > Volume[3] THEN 25
    ELSE IF n > Volume[2] THEN 15
    ELSE IF n > Volume[1] THEN 8
    ELSE 0

Points(name, n, signals) == IF name \in signals THEN n ELSE 0
AnomalyScore(signals) == Points("burst", 25, signals) + Points("scraping", 20, signals)
                         + Points("loop", 15, signals) + Points("fast_refresh", 12, signals)

\* min(int(volume + anomalies + history * 0.3), 100), then reputation on top
Score(s, signals) ==
    Smaller(Smaller(VolumeScore(s.hits.v) + AnomalyScore(signals)
                    + (3 * s.history.v) \div 10, 100)
            + s.reputation.v, 100)

Decide(score) == IF score >= Block THEN "block"
                 ELSE IF score >= Challenge THEN "challenge"
                 ELSE IF score >= RateLimit THEN "rate_limit"
                 ELSE "allow"

\* mark_bad and apply_penalty
BugUncapped(s) ==
    [s EXCEPT !.reputation = [v |-> @.v + 10, left |-> Forget],
              !.history = [v |-> Smaller(@.v + Penalty, PenaltyCap), left |-> Forget]]
Marked(s) ==
    [s EXCEPT !.reputation = [v |-> Smaller(@.v + 10, 100), left |-> Forget],
              !.history = [v |-> Smaller(@.v + Penalty, PenaltyCap), left |-> Forget]]

BugMarkThrottled(s, action) ==
    CASE action = "block"      -> [Marked(s) EXCEPT !.decision = [v |-> action, left |-> BlockTtl]]
      [] action = "challenge"  -> [Marked(s) EXCEPT !.decision = [v |-> action, left |-> ChallengeTtl]]
      [] action = "rate_limit" -> [Marked(s) EXCEPT !.decision = Undecided]
      [] OTHER                 -> [s EXCEPT !.decision = Undecided]
\* ... and _cache_decision
Judged(s, action) ==
    CASE action = "block"     -> [Marked(s) EXCEPT !.decision = [v |-> action, left |-> BlockTtl]]
      [] action = "challenge" -> [Marked(s) EXCEPT !.decision = [v |-> action, left |-> ChallengeTtl]]
      [] OTHER                -> [s EXCEPT !.decision = Undecided]

-----------------------------------------------------------------------------
(* BrainV2.process *)

Answer(c, action) == /\ verdict' = [verdict EXCEPT ![c] = action]
                     /\ quiet' = [quiet EXCEPT ![c] = 0]

\* A cached block or challenge is answered before anything is looked at or persisted.
Cached(c, path) ==
    LET s == Tracked(store[c], path) IN
    /\ s.decision.v \in Bad
    /\ store' = [store EXCEPT ![c] = s]
    /\ Answer(c, s.decision.v)
    /\ UNCHANGED <<disk, persists, stale, whitelist, flagged>>

MaybePersist ==
    IF persists /\ stale > PersistInterval
    THEN disk' = store' /\ stale' = 0
    ELSE UNCHANGED <<disk, stale>>

\* calculate analyzes once more when the first analysis found nothing.
Judge(c, path) ==
    LET s     == Tracked(store[c], path)
        first == Signals(c, s)
        s1    == Analyzed(c, s)
        found == IF first = {} THEN Signals(c, s1) ELSE first
        s2    == IF first = {} THEN Analyzed(c, s1) ELSE s1
        action == Decide(Score(s2, found))
    IN  /\ s.decision.v \notin Bad
        /\ store' = [store EXCEPT ![c] = Judged(s2, action)]
        /\ flagged' = IF found = {} THEN flagged ELSE flagged \cup {c}
        /\ Answer(c, action)
        /\ MaybePersist
        /\ UNCHANGED <<persists, whitelist>>

-----------------------------------------------------------------------------
(* The process and its environment *)

\* A new process loads the file, if there is one to load; the whitelist it reads from
\* the environment may be another.
Restart ==
    /\ store' = IF persists THEN disk ELSE [c \in Clients |-> Stranger]
    /\ stale' = 0
    /\ whitelist' \in SUBSET Clients
    /\ UNCHANGED <<disk, persists, verdict, flagged, quiet>>

BugRelativeExpiry ==
    /\ store' = [c \in Clients |-> Older(store[c])]
    /\ stale' = Smaller(stale + 1, PersistInterval + 1)
    /\ quiet' = [c \in Clients |-> Smaller(quiet[c] + 1, Forget + 1)]
    /\ UNCHANGED <<disk, persists, whitelist, verdict, flagged>>

\* A second passes.  The file holds the times at which its keys expire.
BrainTick ==
    /\ store' = [c \in Clients |-> Older(store[c])]
    /\ disk' = [c \in Clients |-> Older(disk[c])]
    /\ stale' = Smaller(stale + 1, PersistInterval + 1)
    /\ quiet' = [c \in Clients |-> Smaller(quiet[c] + 1, Forget + 1)]
    /\ UNCHANGED <<persists, whitelist, verdict, flagged>>

BrainInit ==
    /\ store = [c \in Clients |-> Stranger]
    /\ disk = [c \in Clients |-> Stranger]
    /\ persists \in BOOLEAN
    /\ stale = 0
    /\ whitelist \in SUBSET Clients
    /\ verdict = [c \in Clients |-> "allow"]
    /\ flagged = {}
    /\ quiet = [c \in Clients |-> Forget + 1]

Process(c) == \E path \in Paths : Cached(c, path) \/ Judge(c, path)

BrainNext == BrainTick \/ Restart \/ \E c \in Clients : Process(c)

BrainSpec == BrainInit /\ [][BrainNext]_brainVars

-----------------------------------------------------------------------------
BrainTypeOK ==
    /\ store \in [Clients -> Client]
    /\ disk \in [Clients -> Client]
    /\ persists \in BOOLEAN
    /\ stale \in 0..PersistInterval + 1
    /\ whitelist \subseteq Clients
    /\ verdict \in [Clients -> Actions]
    /\ flagged \subseteq Clients
    /\ quiet \in [Clients -> 0..Forget + 1]

\* Nobody is challenged or blocked for the number of requests alone: it takes an
\* anomaly some analysis found, in this process or in one whose file was loaded.  A
\* rate limit leaves no mark (brain_v2.py:73-75), so it can't grow into a block.
ChallengeIsEarned == \A c \in Clients : verdict[c] \in Bad => c \in flagged

\* Whatever a client did, after Forget seconds without a request its next one is
\* allowed, restarts in between included: every key that can count against it has
\* expired (behavior_tracker.py:72-75, risk_scoring.py:55-58).
SilenceForgives ==
    [][\A c \in Clients : quiet[c] > Forget /\ quiet'[c] = 0 => verdict'[c] = "allow"]_brainVars
=============================================================================
