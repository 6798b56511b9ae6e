-------------------------- MODULE SchedulerProofs --------------------------
(***************************************************************************)
(* What scheduler.py keeps for any number of tasks, loops, handlers and    *)
(* commands.  The invariant has two parts.  One holds always: what each    *)
(* thread has at hand in each phase, and that a dictionary just read is no *)
(* one else's.  The other holds while no load falls into another thread's  *)
(* load or update: then one thread at most is at work on the table, every  *)
(* thread on its way through it has the cached dictionary, and this one,   *)
(* while it is fresh, is the file but for the task about to be saved.      *)
(***************************************************************************)
EXTENDS Scheduler, FiniteSetTheorems, TLAPS

LoopPhases == {"none", "created", "check", "asleep", "read", "fill", "use", "visit"}
RunnerPhases == {"none", "handler", "read", "fill", "use", "save"}
CommanderPhases == {"idle", "read", "fill", "use", "save"}
Holding == {"fill", "use", "save", "visit"}

\* What each kind of thread does, and what it has at hand meanwhile.
InPhase(t) ==
    /\ t \in Loops => pc[t] \in LoopPhases
    /\ t \in Runners => /\ pc[t] \in RunnerPhases
                        /\ pc[t] # "none" => local[t].tid \in Tids
    /\ t \in Commanders => /\ pc[t] \in CommanderPhases
                           /\ pc[t] # "idle" /\ local[t].op # "list" =>
                                local[t].tid \in Tids /\ local[t].op \in {"add", "remove"}
                           /\ pc[t] = "save" => local[t].op # "list"
    /\ local[t].data # None <=> pc[t] \in Holding

\* What a thread has just read no one else refers to.
Private(t) ==
    pc[t] = "fill" => /\ local[t].data # cache.data
                      /\ \A u \in Threads \ {t} : local[u].data # local[t].data

SInv == TypeOK /\ \A t \in Threads : InPhase(t) /\ Private(t)

OneBusy == \A t, u \in Threads : Busy(t) /\ Busy(u) => t = u

\* A thread at work on a dictionary, or on its way through one, has the cached one,
\* which is fresh; one that reads the file does so because it was not.
Current(t) ==
    /\ pc[t] \in {"use", "save", "visit"} => local[t].data = cache.data /\ cache.age < Ttl
    /\ pc[t] \in {"read", "fill"} => cache.age = Ttl
    /\ pc[t] = "fill" => heap[local[t].data] = file

\* What a thread is about to save, and what the administrator was told of it.
Saving(t) ==
    pc[t] = "save" =>
        /\ t \in Runners => heap[cache.data][local[t].tid] = 0 /\ file[local[t].tid] # None
        /\ t \in Commanders => heap[cache.data][local[t].tid] =
               IF local[t].op = "add" THEN Interval ELSE None
Asking(t) ==
    t \in Commanders /\ Busy(t) =>
        /\ local[t].op = "add" => status[local[t].tid] = "asked"
        /\ local[t].op = "remove" => status[local[t].tid] = "withdrawn"

\* But for the task about to be saved a fresh dictionary is the file.
Faithful ==
    cache.age < Ttl => \A tid \in Tids :
        \/ \E t \in Threads : pc[t] = "save" /\ local[t].tid = tid
        \/ heap[cache.data][tid] = file[tid]

Told(tid) ==
    /\ status[tid] = "confirmed" => file[tid] # None
    /\ status[tid] = "removed" => file[tid] = None
    /\ status[tid] \in {"new", "asked"} => file[tid] = None /\ recorded[tid] = Interval
    /\ file[tid] # None => file[tid] <= recorded[tid]

QInv == /\ OneBusy
        /\ \A t \in Threads : Current(t) /\ Saving(t) /\ Asking(t)
        /\ Faithful
        /\ \A tid \in Tids : Told(tid)

IInv == SInv /\ (~overlap => QInv)

-----------------------------------------------------------------------------
(* Types and shape. *)

LEMMA Constants ==
    /\ Interval \in Nat /\ 0 < Interval /\ Ttl \in Nat /\ 0 < Ttl
    /\ Pause \in Nat /\ ErrorPause \in Nat /\ 0 < Pause /\ 0 < ErrorPause
    /\ IsFiniteSet(Tids) /\ IsFiniteSet(Threads) /\ Cardinality(Threads) \in Nat
    /\ None \notin Nat /\ None \notin Tids /\ None \notin Dicts
    /\ Loops \cap Runners = {} /\ Loops \cap Commanders = {} /\ Runners \cap Commanders = {}
<1>1. IsFiniteSet(Threads) /\ IsFiniteSet(Tids)
  BY SchedulerAssumption
<1>2. Cardinality(Threads) \in Nat
  BY <1>1, FS_CardinalityType
<1>3. None \notin Dicts
  BY <1>2, SchedulerAssumption DEF Dicts
<1>4. QED
  BY <1>1, <1>2, <1>3, SchedulerAssumption

LEMMA Names ==
    /\ {"none", "created", "check", "asleep", "visit", "handler", "idle", "read", "fill",
        "use", "save"} = Phases
    /\ Holding \subseteq Phases
BY DEF Phases, Holding

LEMMA TableTyped == NoTasks \in Table /\ Blank \in [Dicts -> Table] /\ 0 \in Dicts
                    /\ NoLocals \in Local
<1>1. 0 \in Dicts
  BY Constants DEF Dicts
<1>2. NoTasks \in Table
  BY DEF NoTasks, Table
<1>3. QED
  BY <1>1, <1>2, Constants DEF Blank, Local, NoLocals

LEMMA PresentFinite == ASSUME NEW table PROVE Cardinality(Present(table)) \in Nat
<1>1. Present(table) \subseteq Tids
  BY DEF Present
<1>2. QED
  BY <1>1, Constants, FS_Subset, FS_CardinalityType

\* One thread moves, the others stay where they are.
LEMMA OneMoves ==
    ASSUME TypeOK, NEW t \in Threads, NEW p \in Phases, NEW x \in Local,
           pc' = [pc EXCEPT ![t] = p], local' = [local EXCEPT ![t] = x]
    PROVE  /\ pc' \in [Threads -> Phases] /\ local' \in [Threads -> Local]
           /\ pc'[t] = p /\ local'[t] = x
           /\ \A u \in Threads \ {t} : pc'[u] = pc[u] /\ local'[u] = local[u]
BY DEF TypeOK

LEMMA OneMovesOn ==
    ASSUME TypeOK, NEW t \in Threads, NEW p \in Phases,
           pc' = [pc EXCEPT ![t] = p], local' = local
    PROVE  /\ pc' \in [Threads -> Phases] /\ local' \in [Threads -> Local]
           /\ pc'[t] = p
           /\ \A u \in Threads : (u # t => pc'[u] = pc[u]) /\ local'[u] = local[u]
BY DEF TypeOK

\* Shape is kept when the moving thread keeps, drops or borrows a dictionary, or has
\* read one for itself.
LEMMA ShapeKept ==
    ASSUME SInv, TypeOK', NEW t \in Threads,
           \A u \in Threads \ {t} : pc'[u] = pc[u] /\ local'[u] = local[u],
           InPhase(t)', Private(t)',
           cache'.data \in {cache.data, local[t].data} \ {None},
           local'[t].data \in {None, cache.data, local[t].data} \/ pc'[t] = "fill"
    PROVE  SInv'
<1>1. ASSUME NEW u \in Threads, u # t
      PROVE  InPhase(u)'
  BY <1>1 DEF SInv, InPhase
<1>2. ASSUME NEW u \in Threads, u # t
      PROVE  Private(u)'
  <2>1. SUFFICES ASSUME pc[u] = "fill"
                 PROVE  /\ local[u].data # cache'.data
                        /\ \A v \in Threads \ {u} : local'[v].data # local[u].data
    BY <1>2 DEF Private
  <2>2. /\ local[u].data # cache.data /\ local[u].data # None
        /\ \A v \in Threads \ {u} : local[v].data # local[u].data
    BY <2>1 DEF SInv, Private, InPhase, Holding
  <2>3. local'[t].data # local[u].data
    <3>1. CASE local'[t].data \in {None, cache.data, local[t].data}
      BY <1>2, <2>2, <3>1
    <3>2. CASE pc'[t] = "fill"
      BY <1>2, <3>2 DEF Private
    <3>3. QED
      BY <3>1, <3>2
  <2>4. QED
    BY <1>2, <2>2, <2>3
<1>3. QED
  BY <1>1, <1>2 DEF SInv

\* A dictionary is free for a thread that holds none.
LEMMA DictIsFree ==
    ASSUME TypeOK, NEW t \in Threads, local[t].data = None
    PROVE  NewDict \in Dicts /\ ~InUse(NewDict)
<1> DEFINE Others == Threads \ {t}
           Held == {local[u].data : u \in Others}
           Used == Held \cup {cache.data}
<1>1. IsFiniteSet(Others) /\ Cardinality(Others) = Cardinality(Threads) - 1
  BY Constants, FS_RemoveElement
<1>2. IsFiniteSet(Held) /\ Cardinality(Held) <= Cardinality(Others)
  <2> DEFINE f == [u \in Others |-> local[u].data]
  <2>1. f \in Surjection(Others, Held)
    BY DEF Surjection
  <2>2. QED
    BY <1>1, <2>1, FS_Surjection
<1>3. Cardinality(Held) \in Nat
  BY <1>2, FS_CardinalityType
<1>4. IsFiniteSet(Used)
  BY <1>2, FS_AddElement
<1>5. Cardinality(Used) \in {Cardinality(Held), Cardinality(Held) + 1}
  BY <1>2, FS_AddElement
<1>6. Cardinality(Used) <= Cardinality(Threads)
  BY <1>1, <1>2, <1>3, <1>5, Constants
<1>7. IsFiniteSet(Dicts) /\ Cardinality(Dicts) = Cardinality(Threads) + 1
  <2>1. /\ IsFiniteSet(0 .. Cardinality(Threads))
        /\ Cardinality(0 .. Cardinality(Threads)) = IF 0 > Cardinality(Threads) THEN 0
                                                    ELSE Cardinality(Threads) - 0 + 1
    BY Constants, FS_Interval
  <2>2. QED
    BY <2>1, Constants DEF Dicts
<1>8. \E d \in Dicts : d \notin Used
  <2>1. SUFFICES ASSUME Dicts \subseteq Used PROVE FALSE
    OBVIOUS
  <2>2. Cardinality(Dicts) <= Cardinality(Used)
    BY <1>4, <2>1, FS_Subset
  <2>3. Cardinality(Used) \in Nat
    BY <1>4, FS_CardinalityType
  <2>4. QED
    BY <1>6, <1>7, <2>2, <2>3, Constants
<1>9. ASSUME NEW d \in Dicts, d \notin Used PROVE ~InUse(d)
  <2>1. d # cache.data /\ d # None
    BY <1>9, Constants
  <2>2. \A u \in Threads : local[u].data # d
    BY <1>9, <2>1
  <2>3. QED
    BY <2>1, <2>2 DEF InUse
<1>10. \E d \in Dicts : ~InUse(d)
  BY <1>8, <1>9
<1>11. QED
  BY <1>10 DEF NewDict

LEMMA CollectTyped ==
    ASSUME TypeOK, NEW t, NEW d, Collect(t, d)
    PROVE  heap' \in [Dicts -> Table]
BY TableTyped DEF TypeOK, Collect

LEMMA LoadFacts ==
    ASSUME TypeOK, NEW t \in Threads, NEW mine \in Local, mine.data = None, Load(t, mine)
    PROVE  /\ pc' \in [Threads -> Phases] /\ local' \in [Threads -> Local]
           /\ \A u \in Threads \ {t} : pc'[u] = pc[u] /\ local'[u] = local[u]
           /\ \/ cache.age < Ttl /\ pc'[t] = "use" /\ local'[t].data = cache.data
              \/ cache.age = Ttl /\ pc'[t] = "read" /\ local'[t].data = None
           /\ local'[t].tid = mine.tid /\ local'[t].op = mine.op
           /\ UNCHANGED <<setting, file, heap, cache, running, recorded, stops>>
           /\ overlap' \in BOOLEAN
           /\ ~overlap' => ~overlap /\ \A u \in Threads \ {t} : ~Busy(u)
<1>1. cache.age \in 0 .. Ttl /\ cache.data \in Dicts /\ overlap \in BOOLEAN
  BY DEF TypeOK
<1>2. CASE cache.age < Ttl
  <2> DEFINE x == [mine EXCEPT !.data = cache.data]
  <2>1. x \in Local /\ x.data = cache.data /\ x.tid = mine.tid /\ x.op = mine.op
    BY <1>1 DEF Local
  <2>2. pc' = [pc EXCEPT ![t] = "use"] /\ local' = [local EXCEPT ![t] = x]
    BY <1>2 DEF Load, Goto
  <2> HIDE DEF x
  <2>3. "use" \in Phases
    BY DEF Phases
  <2>4. QED
    BY <1>1, <1>2, <2>1, <2>2, <2>3, OneMoves DEF Load
<1>3. CASE ~(cache.age < Ttl)
  <2>1. pc' = [pc EXCEPT ![t] = "read"] /\ local' = [local EXCEPT ![t] = mine]
    BY <1>3 DEF Load, Goto
  <2>2. "read" \in Phases /\ cache.age = Ttl
    BY <1>1, <1>3, Constants DEF Phases
  <2>3. QED
    BY <1>1, <1>3, <2>1, <2>2, OneMoves DEF Load
<1>4. QED
  BY <1>2, <1>3

LEMMA LoadShape ==
    ASSUME SInv, NEW t \in Threads, NEW mine \in Local, mine.data = None, Load(t, mine),
           status' \in [Tids -> Statuses],
           \/ t \in Loops
           \/ t \in Runners /\ mine.tid \in Tids
           \/ /\ t \in Commanders
              /\ \/ mine.op = "list"
                 \/ mine.tid \in Tids /\ mine.op \in {"add", "remove"}
    PROVE  SInv'
<1>1. TypeOK /\ cache.data \in Dicts
  BY DEF SInv, TypeOK
<1>2. TypeOK'
  BY <1>1, LoadFacts DEF TypeOK
<1>3. InPhase(t)'
  <2>1. local'[t].tid = mine.tid /\ local'[t].op = mine.op
    BY <1>1, LoadFacts
  <2>2. \/ pc'[t] = "use" /\ local'[t].data = cache.data
        \/ pc'[t] = "read" /\ local'[t].data = None
    BY <1>1, LoadFacts
  <2>3. local'[t].data # None <=> pc'[t] \in Holding
    BY <1>1, <2>2, Constants DEF Holding
  <2>4. QED
    BY <2>1, <2>2, <2>3, Constants DEF InPhase, LoopPhases, RunnerPhases, CommanderPhases
<1>4. pc'[t] # "fill" /\ cache' = cache /\ local'[t].data \in {None, cache.data}
  BY <1>1, LoadFacts
<1>5. \A u \in Threads \ {t} : pc'[u] = pc[u] /\ local'[u] = local[u]
  BY <1>1, LoadFacts
<1>6. Private(t)' /\ cache'.data \in {cache.data, local[t].data} \ {None}
  BY <1>1, <1>4, Constants DEF Private
<1>7. QED
  BY <1>2, <1>3, <1>4, <1>5, <1>6, ShapeKept

\* A thread that lets go of everything.
LEMMA DoneFacts ==
    ASSUME TypeOK, NEW t \in Threads, Done(t)
    PROVE  /\ pc' \in [Threads -> Phases] /\ local' \in [Threads -> Local]
           /\ pc'[t] = Home(t) /\ local'[t] = NoLocals
           /\ \A u \in Threads \ {t} : pc'[u] = pc[u] /\ local'[u] = local[u]
<1>1. Home(t) \in Phases
  BY DEF Home, Phases
<1>2. QED
  BY <1>1, TableTyped, OneMoves DEF Done, Goto

LEMMA DoneShape ==
    ASSUME SInv, NEW t \in Threads, Done(t), TypeOK',
           cache'.data \in {cache.data, local[t].data} \ {None}
    PROVE  SInv'
<1>1. TypeOK
  BY DEF SInv
<1>2. pc'[t] = Home(t) /\ local'[t] = NoLocals
  BY <1>1, DoneFacts
<1>3. NoLocals.data = None
  BY DEF NoLocals
<1>4. InPhase(t)' /\ Private(t)'
  BY <1>2, <1>3, Constants DEF InPhase, Private, Holding, Home, LoopPhases, RunnerPhases,
     CommanderPhases, Threads
<1>5. QED
  BY <1>1, <1>2, <1>3, <1>4, DoneFacts, ShapeKept

\* A loop that goes to sleep.
LEMMA SleepFacts ==
    ASSUME TypeOK, NEW l \in Loops, NEW ticks \in {Pause, ErrorPause}, Sleep(l, ticks)
    PROVE  /\ pc' \in [Threads -> Phases] /\ local' \in [Threads -> Local]
           /\ pc'[l] = "asleep" /\ local'[l].data = None
           /\ \A u \in Threads \ {l} : pc'[u] = pc[u] /\ local'[u] = local[u]
<1> DEFINE x == [NoLocals EXCEPT !.wait = ticks]
<1>1. ticks \in 0 .. Pause + ErrorPause
  BY Constants
<1>2. x \in Local /\ x.data = None
  BY <1>1, TableTyped DEF Local, NoLocals
<1>3. "asleep" \in Phases /\ l \in Threads
  BY DEF Phases, Threads
<1>4. pc' = [pc EXCEPT ![l] = "asleep"] /\ local' = [local EXCEPT ![l] = x]
  BY DEF Sleep, Goto
<1> HIDE DEF x
<1>5. QED
  BY <1>2, <1>3, <1>4, OneMoves

LEMMA SleepShape ==
    ASSUME SInv, NEW l \in Loops, NEW ticks \in {Pause, ErrorPause}, Sleep(l, ticks),
           Collect(l, cache.data), UNCHANGED <<file, cache, running, history>>
    PROVE  SInv'
<1>1. TypeOK /\ l \in Threads /\ cache.data \in Dicts
  BY DEF SInv, TypeOK, Threads
<1>2. TypeOK'
  BY <1>1, SleepFacts, CollectTyped DEF TypeOK, history
<1>3. InPhase(l)' /\ Private(l)'
  BY <1>1, SleepFacts, Constants DEF InPhase, Private, Holding, LoopPhases
<1>4. cache'.data \in {cache.data, local[l].data} \ {None}
  BY <1>1, Constants
<1>5. QED
  BY <1>1, <1>2, <1>3, <1>4, SleepFacts, ShapeKept

LEMMA BeginShape == ASSUME SInv, NEW l \in Loops, Begin(l) PROVE SInv'
<1>1. TypeOK /\ l \in Threads /\ cache.data \in Dicts /\ pc[l] = "created" /\ InPhase(l)
  BY DEF SInv, TypeOK, Threads, Begin
<1>2. /\ pc' = [pc EXCEPT ![l] = "check"] /\ local' = local /\ running' = TRUE
      /\ UNCHANGED <<file, heap, cache, history>>
  BY DEF Begin, Goto
<1>3. /\ pc' \in [Threads -> Phases] /\ local' \in [Threads -> Local] /\ pc'[l] = "check"
      /\ \A u \in Threads : (u # l => pc'[u] = pc[u]) /\ local'[u] = local[u]
  BY <1>1, <1>2, OneMovesOn, Names
<1>4. TypeOK'
  BY <1>1, <1>2, <1>3 DEF TypeOK, history
<1>5. InPhase(l)' /\ Private(l)'
  BY <1>1, <1>3, Constants DEF InPhase, Private, Holding, LoopPhases
<1>6. QED
  BY <1>1, <1>2, <1>3, <1>4, <1>5, Constants, ShapeKept

LEMMA CheckShape == ASSUME SInv, NEW l \in Loops, Check(l) PROVE SInv'
<1>1. TypeOK /\ l \in Threads /\ cache.data \in Dicts
  BY DEF SInv, TypeOK, Threads
<1>2. CASE running
  <2>1. Load(l, NoLocals) /\ status' = status
    BY <1>2 DEF Check
  <2>2. NoLocals \in Local /\ NoLocals.data = None /\ status' \in [Tids -> Statuses]
    BY <1>1, <2>1, TableTyped DEF NoLocals, TypeOK
  <2>3. QED
    BY <1>1, <2>1, <2>2, LoadShape
<1>3. CASE ~running
  <2>1. Done(l) /\ UNCHANGED <<setting, file, heap, cache, running, status, recorded, overlap, stops>>
    BY <1>3 DEF Check
  <2>2. TypeOK'
    BY <1>1, <2>1, DoneFacts DEF TypeOK
  <2>3. QED
    BY <1>1, <2>1, <2>2, Constants, DoneShape
<1>4. QED
  BY <1>2, <1>3

LEMMA ReadFacts ==
    ASSUME SInv, NEW t \in Threads, Read(t)
    PROVE  /\ NewDict \in Dicts /\ ~InUse(NewDict)
           /\ pc[t] = "read" /\ local[t].data = None
           /\ pc' \in [Threads -> Phases] /\ local' \in [Threads -> Local]
           /\ pc'[t] = "fill" /\ local'[t].data = NewDict
           /\ local'[t].tid = local[t].tid /\ local'[t].op = local[t].op
           /\ \A u \in Threads \ {t} : pc'[u] = pc[u] /\ local'[u] = local[u]
           /\ heap' = [heap EXCEPT ![NewDict] = file]
           /\ UNCHANGED <<file, cache, running, history>>
<1>1. TypeOK /\ pc[t] = "read" /\ local[t] \in Local
  BY DEF SInv, TypeOK, Read
<1>2. local[t].data = None
  BY <1>1 DEF SInv, InPhase, Holding
<1>3. NewDict \in Dicts /\ ~InUse(NewDict)
  BY <1>1, <1>2, DictIsFree
<1> DEFINE x == [local[t] EXCEPT !.data = NewDict]
<1>4. x \in Local /\ x.data = NewDict /\ x.tid = local[t].tid /\ x.op = local[t].op
  BY <1>1, <1>3 DEF Local
<1>5. /\ pc' = [pc EXCEPT ![t] = "fill"] /\ local' = [local EXCEPT ![t] = x]
      /\ heap' = [heap EXCEPT ![NewDict] = file]
      /\ UNCHANGED <<file, cache, running, history>>
  BY DEF Read, Goto
<1> HIDE DEF x
<1>6. "fill" \in Phases
  BY DEF Phases
<1>7. QED
  BY <1>1, <1>2, <1>3, <1>4, <1>5, <1>6, OneMoves

LEMMA ReadShape == ASSUME SInv, NEW t \in Threads, Read(t) PROVE SInv'
<1>1. TypeOK /\ cache.data \in Dicts
  BY DEF SInv, TypeOK
<1>2. TypeOK'
  <2>1. heap' \in [Dicts -> Table]
    BY <1>1, ReadFacts DEF TypeOK
  <2>2. QED
    BY <1>1, <2>1, ReadFacts DEF TypeOK, history
<1>3. InPhase(t)'
  <2>1. InPhase(t)
    BY DEF SInv
  <2>2. NewDict # None
    BY ReadFacts, Constants
  <2>3. QED
    BY <2>1, <2>2, ReadFacts DEF InPhase, Holding, LoopPhases, RunnerPhases, CommanderPhases
<1>4. Private(t)'
  BY ReadFacts DEF Private, InUse
<1>5. QED
  BY <1>1, <1>2, <1>3, <1>4, ReadFacts, Constants, ShapeKept

LEMMA FillFacts ==
    ASSUME SInv, NEW t \in Threads, Fill(t)
    PROVE  /\ pc[t] = "fill" /\ local[t].data \in Dicts
           /\ pc' \in [Threads -> Phases] /\ local' = local
           /\ pc'[t] = "use"
           /\ \A u \in Threads \ {t} : pc'[u] = pc[u] /\ local'[u] = local[u]
           /\ cache' = [data |-> local[t].data, age |-> 0]
           /\ Collect(t, local[t].data)
           /\ UNCHANGED <<file, running, history>>
<1>1. TypeOK /\ pc[t] = "fill" /\ local[t] \in Local
  BY DEF SInv, TypeOK, Fill
<1>2. local[t].data \in Dicts
  <2>1. local[t].data # None
    BY <1>1 DEF SInv, InPhase, Holding
  <2>2. QED
    BY <1>1, <2>1 DEF Local
<1>3. pc' = [pc EXCEPT ![t] = "use"] /\ local' = local
  BY DEF Fill, Goto
<1>4. "use" \in Phases
  BY DEF Phases
<1>5. QED
  BY <1>1, <1>2, <1>3, <1>4, OneMovesOn DEF Fill

LEMMA FillShape == ASSUME SInv, NEW t \in Threads, Fill(t) PROVE SInv'
<1>1. TypeOK /\ cache.data \in Dicts
  BY DEF SInv, TypeOK
<1>2. TypeOK'
  <2>1. heap' \in [Dicts -> Table]
    BY <1>1, FillFacts, CollectTyped
  <2>2. cache' \in [data : Dicts, age : 0 .. Ttl]
    BY FillFacts, Constants
  <2>3. QED
    BY <1>1, <2>1, <2>2, FillFacts DEF TypeOK, history
<1>3. InPhase(t)'
  <2>1. InPhase(t)
    BY DEF SInv
  <2>2. QED
    BY <2>1, FillFacts DEF InPhase, Holding, LoopPhases, RunnerPhases, CommanderPhases
<1>4. Private(t)'
  BY FillFacts DEF Private
<1>5. cache'.data \in {cache.data, local[t].data} \ {None}
  BY FillFacts, Constants
<1>6. QED
  BY <1>1, <1>2, <1>3, <1>4, <1>5, FillFacts, ShapeKept

LEMMA StartPassFacts ==
    ASSUME SInv, NEW l \in Loops, StartPass(l)
    PROVE  /\ pc[l] = "use"
           /\ pc' \in [Threads -> Phases] /\ local' \in [Threads -> Local]
           /\ pc'[l] = "visit" /\ local'[l].data = local[l].data
           /\ \A u \in Threads \ {l} : pc'[u] = pc[u] /\ local'[u] = local[u]
           /\ UNCHANGED <<file, heap, cache, running, history>>
<1>1. TypeOK /\ l \in Threads /\ local[l] \in Local /\ pc[l] = "use"
  BY DEF SInv, TypeOK, Threads, StartPass
<1> DEFINE n == Cardinality(Present(heap[local[l].data]))
           x == [local[l] EXCEPT !.left = Tids, !.size = n]
<1>2. n \in Nat
  BY PresentFinite
<1> HIDE DEF n
<1>3. x \in Local /\ x.data = local[l].data
  BY <1>1, <1>2 DEF Local
<1>4. /\ pc' = [pc EXCEPT ![l] = "visit"] /\ local' = [local EXCEPT ![l] = x]
      /\ UNCHANGED <<file, heap, cache, running, history>>
  BY DEF StartPass, Goto, n
<1> HIDE DEF x
<1>5. "visit" \in Phases
  BY DEF Phases
<1>6. QED
  BY <1>1, <1>3, <1>4, <1>5, OneMoves

LEMMA StartPassShape == ASSUME SInv, NEW l \in Loops, StartPass(l) PROVE SInv'
<1>1. TypeOK /\ l \in Threads /\ cache.data \in Dicts /\ InPhase(l)
  BY DEF SInv, TypeOK, Threads
<1>2. TypeOK'
  BY <1>1, StartPassFacts DEF TypeOK, history
<1>3. InPhase(l)' /\ Private(l)'
  BY <1>1, StartPassFacts, Constants DEF InPhase, Private, Holding, LoopPhases
<1>4. QED
  BY <1>1, <1>2, <1>3, StartPassFacts, Constants, ShapeKept

LEMMA VisitFacts ==
    ASSUME SInv, NEW l \in Loops, NEW tid \in Tids, Visit(l, tid)
    PROVE  /\ pc[l] = "visit" /\ tid \in Present(heap[local[l].data])
           /\ pc' \in [Threads -> Phases] /\ local' \in [Threads -> Local]
           /\ \A u \in Threads : /\ local'[u].data = local[u].data
                                 /\ \/ pc'[u] = pc[u] /\ local'[u].tid = local[u].tid
                                       /\ local'[u].op = local[u].op
                                    \/ u \in Runners /\ pc[u] = "none" /\ pc'[u] = "handler"
                                       /\ local'[u].tid \in Tids
           /\ UNCHANGED <<file, heap, cache, running, history>>
<1>1. TypeOK /\ l \in Threads /\ local[l] \in Local /\ pc[l] = "visit"
      /\ tid \in Present(heap[local[l].data]) /\ UNCHANGED <<file, heap, cache, running, history>>
  BY DEF SInv, TypeOK, Threads, Visit
<1> DEFINE x == [local[l] EXCEPT !.left = @ \ {tid}]
<1>2. /\ x \in Local /\ x.data = local[l].data /\ x.tid = local[l].tid /\ x.op = local[l].op
  BY <1>1 DEF Local
<1>3. CASE Goto(l, "visit") /\ local' = [local EXCEPT ![l].left = @ \ {tid}]
  <2>1. pc' = pc
    BY <1>1, <1>3 DEF Goto, TypeOK
  <2>2. local' = [local EXCEPT ![l] = x]
    BY <1>3
  <2> HIDE DEF x
  <2>3. QED
    BY <1>1, <1>2, <2>1, <2>2 DEF TypeOK
<1>4. CASE \E r \in Runners :
               /\ pc[r] = "none"
               /\ Goto(r, "handler")
               /\ local' = [local EXCEPT ![l].left = @ \ {tid}, ![r].tid = tid]
  <2>1. PICK r \in Runners :
               /\ pc[r] = "none"
               /\ Goto(r, "handler")
               /\ local' = [local EXCEPT ![l].left = @ \ {tid}, ![r].tid = tid]
    BY <1>4
  <2>2. r \in Threads /\ r # l /\ local[r] \in Local
    BY <1>1, <2>1, Constants DEF Threads, TypeOK
  <2> DEFINE y == [local[r] EXCEPT !.tid = tid]
  <2>3. y \in Local /\ y.data = local[r].data /\ y.tid = tid
    BY <2>2 DEF Local
  <2>4. local' = [local EXCEPT ![l] = x, ![r] = y] /\ pc' = [pc EXCEPT ![r] = "handler"]
    BY <1>1, <2>1, <2>2 DEF Goto, TypeOK
  <2>5. "handler" \in Phases
    BY DEF Phases
  <2> HIDE DEF x, y
  <2>6. /\ pc' \in [Threads -> Phases] /\ local' \in [Threads -> Local]
        /\ pc'[r] = "handler" /\ local'[r] = y /\ local'[l] = x /\ pc'[l] = pc[l]
        /\ \A u \in Threads \ {l, r} : pc'[u] = pc[u] /\ local'[u] = local[u]
    BY <1>1, <1>2, <2>2, <2>3, <2>4, <2>5 DEF TypeOK
  <2>7. QED
    BY <1>1, <1>2, <2>1, <2>3, <2>6
<1>5. QED
  BY <1>1, <1>3, <1>4 DEF Visit

LEMMA VisitShape == ASSUME SInv, NEW l \in Loops, NEW tid \in Tids, Visit(l, tid) PROVE SInv'
<1>1. TypeOK'
  BY VisitFacts DEF SInv, TypeOK, history
<1>2. ASSUME NEW u \in Threads PROVE InPhase(u)' /\ Private(u)'
  <2>1. InPhase(u) /\ Private(u)
    BY DEF SInv
  <2>2. /\ \A v \in Threads : local'[v].data = local[v].data
        /\ cache' = cache
        /\ \/ pc'[u] = pc[u] /\ local'[u].tid = local[u].tid /\ local'[u].op = local[u].op
           \/ u \in Runners /\ pc[u] = "none" /\ pc'[u] = "handler" /\ local'[u].tid \in Tids
    BY VisitFacts
  <2>3. Private(u)'
    BY <2>1, <2>2 DEF Private
  <2>4. InPhase(u)'
    <3>1. CASE pc'[u] = pc[u] /\ local'[u].tid = local[u].tid /\ local'[u].op = local[u].op
      BY <2>1, <2>2, <3>1 DEF InPhase
    <3>2. CASE u \in Runners /\ pc[u] = "none" /\ pc'[u] = "handler" /\ local'[u].tid \in Tids
      BY <2>1, <2>2, <3>2, Constants DEF InPhase, Holding, RunnerPhases
    <3>3. QED
      BY <2>2, <3>1, <3>2
  <2>5. QED
    BY <2>3, <2>4
<1>3. QED
  BY <1>1, <1>2 DEF SInv

LEMMA HandlerReturnsShape == ASSUME SInv, NEW r \in Runners, HandlerReturns(r) PROVE SInv'
<1>1. TypeOK /\ r \in Threads /\ local[r] \in Local /\ pc[r] = "handler"
      /\ Load(r, local[r]) /\ status' = status
  BY DEF SInv, TypeOK, Threads, HandlerReturns
<1>2. local[r].data = None /\ local[r].tid \in Tids /\ status' \in [Tids -> Statuses]
  BY <1>1 DEF SInv, InPhase, Holding, TypeOK
<1>3. QED
  BY <1>1, <1>2, LoadShape

LEMMA HandlerRaisesShape == ASSUME SInv, NEW r \in Runners, HandlerRaises(r) PROVE SInv'
<1>1. TypeOK /\ r \in Threads /\ cache.data \in Dicts /\ Done(r)
      /\ UNCHANGED <<file, heap, cache, running, history>>
  BY DEF SInv, TypeOK, Threads, HandlerRaises
<1>2. TypeOK'
  BY <1>1, DoneFacts DEF TypeOK, history
<1>3. QED
  BY <1>1, <1>2, DoneShape, Constants

\* A thread that changes the dictionary it holds, and goes on to save it.
Alters(t, v) ==
    /\ pc[t] = "use"
    /\ local[t].tid \in Tids
    /\ heap' = [heap EXCEPT ![local[t].data][local[t].tid] = v]
    /\ Goto(t, "save")
    /\ local' = local
    /\ UNCHANGED <<file, cache, running, history>>

\* A thread that lets go of the table unchanged.
Drops(t) ==
    /\ pc[t] = "use"
    /\ Done(t)
    /\ Collect(t, cache.data)
    /\ UNCHANGED <<setting, file, cache, running, recorded, overlap, stops>>

LEMMA AltersFacts ==
    ASSUME SInv, NEW t \in Threads, NEW v \in Since \cup {None}, Alters(t, v)
    PROVE  /\ pc[t] = "use" /\ pc'[t] = "save" /\ local[t].data \in Dicts
           /\ pc' \in [Threads -> Phases] /\ heap' \in [Dicts -> Table]
           /\ \A u \in Threads \ {t} : pc'[u] = pc[u]
<1>1. TypeOK /\ local[t] \in Local
  BY DEF SInv, TypeOK
<1>2. local[t].data \in Dicts
  BY <1>1 DEF Alters, SInv, InPhase, Holding, Local
<1>3. heap' \in [Dicts -> Table]
  BY <1>1, <1>2 DEF Alters, TypeOK, Table
<1>4. "save" \in Phases
  BY DEF Phases
<1>5. QED
  BY <1>1, <1>2, <1>3, <1>4 DEF Alters, Goto, TypeOK

LEMMA AltersShape ==
    ASSUME SInv, NEW t \in Runners \cup Commanders, NEW v \in Since \cup {None}, Alters(t, v),
           t \in Commanders => local[t].op # "list"
    PROVE  SInv'
<1>1. TypeOK /\ t \in Threads /\ cache.data \in Dicts /\ InPhase(t)
  BY DEF SInv, TypeOK, Threads
<1>2. /\ local' = local /\ UNCHANGED <<file, cache, running, history>>
      /\ local[t].tid \in Tids
  BY DEF Alters
<1>3. TypeOK'
  BY <1>1, <1>2, AltersFacts DEF TypeOK, history
<1>4. InPhase(t)' /\ Private(t)'
  BY <1>1, <1>2, AltersFacts, Constants DEF InPhase, Private, Holding, RunnerPhases, CommanderPhases
<1>5. QED
  BY <1>1, <1>2, <1>3, <1>4, AltersFacts, Constants, ShapeKept

LEMMA DropsShape ==
    ASSUME SInv, NEW t \in Threads, Drops(t), status' \in [Tids -> Statuses]
    PROVE  SInv'
<1>1. TypeOK /\ cache.data \in Dicts
  BY DEF SInv, TypeOK
<1>2. TypeOK'
  BY <1>1, DoneFacts, CollectTyped DEF TypeOK, Drops
<1>3. QED
  BY <1>1, <1>2, DoneShape, Constants DEF Drops

LEMMA NoteRunCases ==
    ASSUME SInv, NEW r \in Runners, NoteRun(r)
    PROVE  \/ Alters(r, 0) /\ local[r].tid \in Present(heap[local[r].data])
           \/ Drops(r) /\ status' = status
<1>1. local[r].tid \in Tids
  BY DEF NoteRun, SInv, InPhase, Threads
<1>2. QED
  BY <1>1 DEF NoteRun, Alters, Drops, history

LEMMA ChangeCases ==
    ASSUME SInv, NEW c \in Commanders, Change(c)
    PROVE  \/ Drops(c) /\ status' = status
           \/ /\ Drops(c) /\ local[c].op = "remove"
              /\ local[c].tid \in Tids \ Present(heap[local[c].data])
              /\ status' = [status EXCEPT ![local[c].tid] = "removed"]
           \/ Alters(c, Interval) /\ local[c].op = "add"
           \/ /\ Alters(c, None) /\ local[c].op = "remove"
              /\ local[c].tid \in Present(heap[local[c].data])
<1>1. pc[c] = "use" /\ c \in Threads
  BY DEF Change, Threads
<1>2. local[c].op # "list" => local[c].tid \in Tids
  BY <1>1 DEF SInv, InPhase
<1>3. CASE local[c].op = "list"
  BY <1>1, <1>3 DEF Change, Drops
<1>4. CASE local[c].op = "add"
  BY <1>1, <1>2, <1>4 DEF Change, Alters, history
<1>5. CASE local[c].op = "remove"
  BY <1>1, <1>2, <1>5 DEF Change, Alters, Drops, history
<1>6. QED
  BY <1>3, <1>4, <1>5 DEF Change

LEMMA UseShape ==
    ASSUME SInv, \/ \E r \in Runners : NoteRun(r)
                 \/ \E c \in Commanders : Change(c)
    PROVE  SInv'
<1>1. Runners \subseteq Threads /\ Commanders \subseteq Threads
      /\ status \in [Tids -> Statuses]
      /\ 0 \in Since /\ Interval \in Since
  BY Constants DEF Threads, SInv, TypeOK, Since
<1>2. ASSUME NEW r \in Runners, NoteRun(r) PROVE SInv'
  <2>1. r \notin Commanders
    BY Constants
  <2>2. CASE Alters(r, 0)
    BY <1>1, <2>1, <2>2, AltersShape
  <2>3. CASE Drops(r) /\ status' = status
    BY <1>1, <2>3, DropsShape
  <2>4. QED
    BY <1>2, <2>2, <2>3, NoteRunCases
<1>3. ASSUME NEW c \in Commanders, Change(c) PROVE SInv'
  <2>1. CASE Drops(c) /\ status' \in [Tids -> Statuses]
    BY <1>1, <2>1, DropsShape
  <2>2. CASE Alters(c, Interval) /\ local[c].op = "add"
    BY <1>1, <2>2, AltersShape
  <2>3. CASE Alters(c, None) /\ local[c].op = "remove"
    BY <1>1, <2>3, AltersShape
  <2>4. [status EXCEPT ![local[c].tid] = "removed"] \in [Tids -> Statuses]
    BY <1>1 DEF Statuses
  <2>5. QED
    BY <1>1, <1>3, <2>1, <2>2, <2>3, <2>4, ChangeCases
<1>4. QED
  BY <1>2, <1>3

LEMMA SaveFacts ==
    ASSUME SInv, NEW t \in Runners \cup Commanders, pc[t] = "save", Save(t)
    PROVE  /\ t \in Threads /\ local[t].data \in Dicts /\ local[t].tid \in Tids
           /\ t \in Commanders => local[t].op \in {"add", "remove"}
           /\ pc' \in [Threads -> Phases] /\ local' \in [Threads -> Local]
           /\ pc'[t] = Home(t) /\ local'[t] = NoLocals
           /\ \A u \in Threads \ {t} : pc'[u] = pc[u] /\ local'[u] = local[u]
           /\ file' = heap[local[t].data]
           /\ cache' = [data |-> local[t].data, age |-> 0]
           /\ Collect(t, local[t].data)
           /\ UNCHANGED <<setting, running, overlap, stops>>
<1>1. TypeOK /\ t \in Threads /\ local[t] \in Local /\ InPhase(t)
  BY DEF SInv, TypeOK, Threads
<1>2. local[t].data \in Dicts /\ local[t].tid \in Tids
      /\ (t \in Commanders => local[t].op \in {"add", "remove"})
  BY <1>1 DEF InPhase, Holding, Local
<1>3. QED
  BY <1>1, <1>2, DoneFacts DEF Save

LEMMA SaveShape ==
    ASSUME SInv, NEW t \in Runners \cup Commanders, pc[t] = "save", Save(t),
           status' \in [Tids -> Statuses], recorded' \in [Tids -> Since]
    PROVE  SInv'
<1>1. TypeOK /\ t \in Threads /\ cache.data \in Dicts
  BY DEF SInv, TypeOK, Threads
<1>2. TypeOK'
  <2>1. heap' \in [Dicts -> Table] /\ file' \in Table
    BY <1>1, SaveFacts, CollectTyped DEF TypeOK
  <2>2. cache' \in [data : Dicts, age : 0 .. Ttl]
    BY SaveFacts, Constants
  <2>3. QED
    BY <1>1, <2>1, <2>2, SaveFacts DEF TypeOK
<1>3. Done(t) /\ cache'.data \in {cache.data, local[t].data} \ {None}
  BY SaveFacts, Constants DEF Save
<1>4. QED
  BY <1>1, <1>2, <1>3, DoneShape

LEMMA SavesShape ==
    ASSUME SInv, \/ \E r \in Runners : SaveRun(r)
                 \/ \E c \in Commanders : SaveChange(c)
    PROVE  SInv'
<1>1. status \in [Tids -> Statuses] /\ recorded \in [Tids -> Since]
  BY DEF SInv, TypeOK
<1>2. ASSUME NEW r \in Runners, SaveRun(r) PROVE SInv'
  <2>1. pc[r] = "save" /\ Save(r) /\ status' = status
        /\ recorded' = [recorded EXCEPT ![local[r].tid] = 0]
    BY <1>2 DEF SaveRun
  <2>2. 0 \in Since
    BY Constants DEF Since
  <2>3. recorded' \in [Tids -> Since]
    BY <1>1, <2>1, <2>2
  <2>4. QED
    BY <1>1, <2>1, <2>3, SaveShape
<1>3. ASSUME NEW c \in Commanders, SaveChange(c) PROVE SInv'
  <2>1. status' \in [Tids -> Statuses] /\ recorded' = recorded
    BY <1>1, <1>3 DEF SaveChange, Statuses
  <2>2. QED
    BY <1>1, <1>3, <2>1, SaveShape DEF SaveChange
<1>4. QED
  BY <1>2, <1>3

LEMMA CommandShape == ASSUME SInv, NEW c \in Commanders, Command(c) PROVE SInv'
<1>1. TypeOK /\ c \in Threads
  BY DEF SInv, TypeOK, Threads
<1>2. PICK mine \in Local : /\ mine.data = None /\ Load(c, mine)
                            /\ \/ mine.op = "list"
                               \/ mine.tid \in Tids /\ mine.op \in {"add", "remove"}
                            /\ status' \in [Tids -> Statuses]
  <2> DEFINE Mine(o, tid) == [NoLocals EXCEPT !.op = o, !.tid = tid]
  <2>1. CASE Load(c, [NoLocals EXCEPT !.op = "list"]) /\ UNCHANGED status
    <3> DEFINE m == [NoLocals EXCEPT !.op = "list"]
    <3>1. m \in Local /\ m.data = None /\ m.op = "list"
      BY TableTyped DEF NoLocals, Local
    <3>2. status' \in [Tids -> Statuses]
      BY <1>1, <2>1 DEF TypeOK
    <3> HIDE DEF m
    <3>3. Load(c, m)
      BY <2>1 DEF m
    <3>4. QED
      BY <3>1, <3>2, <3>3
  <2>2. ASSUME NEW tid \in Tids, NEW o \in {"add", "remove"}, NEW s \in Statuses,
               Load(c, Mine(o, tid)),
               status' = [status EXCEPT ![tid] = s]
        PROVE  \E mine \in Local : /\ mine.data = None /\ Load(c, mine)
                            /\ \/ mine.op = "list"
                               \/ mine.tid \in Tids /\ mine.op \in {"add", "remove"}
                            /\ status' \in [Tids -> Statuses]
    <3> DEFINE m == Mine(o, tid)
    <3>1. m \in Local /\ m.data = None /\ m.op = o /\ m.tid = tid
      BY TableTyped DEF NoLocals, Local
    <3>2. status' \in [Tids -> Statuses]
      BY <1>1, <2>2 DEF TypeOK
    <3> HIDE DEF m
    <3>3. Load(c, m)
      BY <2>2 DEF m
    <3>4. QED
      BY <3>1, <3>2, <3>3
  <2>3. "asked" \in Statuses /\ "withdrawn" \in Statuses
    BY DEF Statuses
  <2>4. \/ Load(c, [NoLocals EXCEPT !.op = "list"]) /\ UNCHANGED status
        \/ \E tid \in Tids :
            \/ /\ status' = [status EXCEPT ![tid] = "asked"]
               /\ Load(c, Mine("add", tid))
            \/ /\ status' = [status EXCEPT ![tid] = "withdrawn"]
               /\ Load(c, Mine("remove", tid))
    BY Zenon DEF Command
  <2> HIDE DEF Mine
  <2>5. QED
    BY <2>1, <2>2, <2>3, <2>4
<1>3. QED
  BY <1>1, <1>2, LoadShape

LEMMA StartStopShape ==
    ASSUME SInv, NEW c \in Commanders, StartScheduler(c) \/ StopScheduler(c)
    PROVE  SInv'
<1>1. TypeOK /\ cache.data \in Dicts
  BY DEF SInv, TypeOK
<1>2. CASE StartScheduler(c)
  <2>1. PICK l \in setting.loops : pc[l] = "none" /\ Goto(l, "created")
    BY <1>2 DEF StartScheduler
  <2>2. l \in Loops
    BY <1>1, SchedulerAssumption DEF TypeOK, Setting
  <2>3. l \in Threads /\ InPhase(l)
    BY <2>2 DEF Threads, SInv
  <2>4. pc' = [pc EXCEPT ![l] = "created"] /\ local' = local
        /\ UNCHANGED <<file, heap, cache, running, history>>
    BY <1>2, <2>1 DEF StartScheduler, Goto
  <2>5. /\ pc' \in [Threads -> Phases] /\ local' \in [Threads -> Local] /\ pc'[l] = "created"
        /\ \A u \in Threads : (u # l => pc'[u] = pc[u]) /\ local'[u] = local[u]
    BY <1>1, <2>3, <2>4, OneMovesOn, Names
  <2>6. TypeOK'
    BY <1>1, <2>4, <2>5 DEF TypeOK, history
  <2>7. InPhase(l)' /\ Private(l)'
    BY <2>1, <2>2, <2>3, <2>5, Constants DEF InPhase, Private, Holding, LoopPhases
  <2>8. QED
    BY <1>1, <2>3, <2>4, <2>5, <2>6, <2>7, Constants, ShapeKept
<1>3. CASE StopScheduler(c)
  <2>1. /\ running' = FALSE /\ stops' = stops + 1 /\ stops < setting.stops
        /\ UNCHANGED <<setting, file, heap, cache, pc, local, status, recorded, overlap>>
    BY <1>3 DEF StopScheduler
  <2>2. setting.stops \in Nat
    BY <1>1, SchedulerAssumption DEF TypeOK, Setting
  <2>3. stops' \in 0 .. setting.stops
    <3>1. stops \in 0 .. setting.stops /\ stops' = stops + 1 /\ stops < setting.stops
      BY <1>1, <2>1 DEF TypeOK
    <3>2. QED
      BY <2>2, <3>1
  <2>5. TypeOK'
    BY <1>1, <2>1, <2>3 DEF TypeOK
  <2>6. QED
    BY <2>1, <2>5 DEF SInv, InPhase, Private
<1>4. QED
  BY <1>2, <1>3

\* When time passes no thread holds a dictionary.
LEMMA RestHoldsNothing ==
    ASSUME SInv, NEW t \in Threads, AtRest(t)
    PROVE  local[t].data = None /\ pc[t] \notin Holding \cup {"read"} /\ ~Busy(t)
BY DEF SInv, InPhase, AtRest, Holding, Busy

LEMMA AgedTyped == ASSUME NEW table \in Table PROVE Aged(table) \in Table
<1>1. \A x \in Since \cup {None} : x # None /\ x # Interval => x + 1 \in Since
  BY Constants DEF Since
<1>2. QED
  BY <1>1 DEF Aged, Table

LEMMA TickLocals ==
    ASSUME SInv, Tick
    PROVE  /\ local' \in [Threads -> Local]
           /\ \A t \in Threads : /\ local'[t].data = None /\ local'[t].tid = local[t].tid
                                 /\ local'[t].op = local[t].op
<1>1. ASSUME NEW t \in Threads
      PROVE  local'[t] \in Local /\ local'[t].data = None /\ local'[t].tid = local[t].tid
             /\ local'[t].op = local[t].op
  <2>1. local[t] \in Local /\ local[t].data = None
    BY RestHoldsNothing DEF SInv, TypeOK, Tick
  <2>2. CASE pc[t] = "asleep"
    <3>1. t \in Loops
      BY <2>2 DEF SInv, InPhase, RunnerPhases, CommanderPhases, Threads
    <3>2. local[t].wait > 0 /\ local[t].wait \in 0 .. Pause + ErrorPause
      BY <2>1, <2>2, <3>1 DEF Tick, Local
    <3>3. local[t].wait - 1 \in 0 .. Pause + ErrorPause
      BY <3>2, Constants
    <3>4. local'[t] = [local[t] EXCEPT !.wait = @ - 1]
      BY <2>2 DEF Tick
    <3>5. QED
      BY <2>1, <3>3, <3>4 DEF Local
  <2>3. CASE pc[t] # "asleep"
    BY <2>1, <2>3 DEF Tick
  <2>4. QED
    BY <2>2, <2>3
<1>2. QED
  BY <1>1 DEF Tick

LEMMA TickShape == ASSUME SInv, Tick PROVE SInv'
<1>1. TypeOK /\ cache.data \in Dicts /\ pc' = pc
  BY DEF SInv, TypeOK, Tick
<1>2. TypeOK'
  <2>1. heap' \in [Dicts -> Table] /\ file' \in Table
    BY <1>1, TableTyped, AgedTyped DEF Tick, TypeOK
  <2>2. cache' \in [data : Dicts, age : 0 .. Ttl]
    <3>1. cache.age \in 0 .. Ttl
      BY <1>1 DEF TypeOK
    <3>2. (IF cache.age < Ttl THEN cache.age + 1 ELSE Ttl) \in 0 .. Ttl
      BY <3>1, Constants
    <3>3. QED
      BY <3>2, TableTyped DEF Tick
  <2>3. recorded' \in [Tids -> Since]
    BY <1>1, Constants DEF Tick, TypeOK, Since
  <2>4. QED
    BY <1>1, <2>1, <2>2, <2>3, TickLocals DEF Tick, TypeOK
<1>3. ASSUME NEW t \in Threads PROVE InPhase(t)' /\ Private(t)'
  <2>1. AtRest(t) /\ InPhase(t)
    BY DEF Tick, SInv
  <2>2. local'[t].data = None /\ local'[t].tid = local[t].tid /\ local'[t].op = local[t].op
    BY TickLocals
  <2>3. pc[t] \notin Holding
    BY <2>1, RestHoldsNothing
  <2>4. Private(t)'
    BY <1>1, <2>3 DEF Private, Holding
  <2>5. QED
    BY <1>1, <2>1, <2>2, <2>3, <2>4 DEF InPhase
<1>4. QED
  BY <1>2, <1>3 DEF SInv

LEMMA AtHome ==
    ASSUME pc' = [t \in Threads |-> Home(t)], local' = [t \in Threads |-> NoLocals],
           NEW t \in Threads
    PROVE  /\ InPhase(t)' /\ Private(t)' /\ ~Busy(t)'
           /\ pc'[t] \in {"none", "idle"} /\ local'[t] = NoLocals
<1>1. pc'[t] = Home(t) /\ local'[t] = NoLocals /\ NoLocals.data = None
  BY DEF NoLocals
<1>2. QED
  BY <1>1, Constants DEF InPhase, Private, Busy, Home, Holding, LoopPhases, RunnerPhases,
     CommanderPhases, Threads

LEMMA HomeTyped ==
    /\ [t \in Threads |-> Home(t)] \in [Threads -> Phases]
    /\ [t \in Threads |-> NoLocals] \in [Threads -> Local]
    /\ Empty \in [data : Dicts, age : 0 .. Ttl]
<1>1. \A t \in Threads : Home(t) \in Phases
  BY DEF Home, Phases
<1>2. Empty \in [data : Dicts, age : 0 .. Ttl]
  BY TableTyped, Constants DEF Empty
<1>3. QED
  BY <1>1, <1>2, TableTyped

LEMMA RestartShape == ASSUME SInv, Restart PROVE SInv'
<1>1. TypeOK /\ setting.stops \in Nat
  BY SchedulerAssumption DEF SInv, TypeOK, Setting
<1>2. status' \in [Tids -> Statuses]
  BY <1>1 DEF Restart, TypeOK, Statuses
<1>3. stops' \in 0 .. setting.stops
  <2>1. stops \in 0 .. setting.stops /\ stops < setting.stops /\ stops' = stops + 1
    BY <1>1 DEF TypeOK, Restart
  <2>2. QED
    BY <1>1, <2>1
<1>4. /\ heap' \in [Dicts -> Table] /\ cache' \in [data : Dicts, age : 0 .. Ttl]
      /\ pc' \in [Threads -> Phases] /\ local' \in [Threads -> Local] /\ running' \in BOOLEAN
  BY TableTyped, HomeTyped DEF Restart
<1>5. UNCHANGED <<setting, file, recorded, overlap>>
  BY DEF Restart
<1>6. TypeOK'
  BY <1>1, <1>2, <1>3, <1>4, <1>5 DEF TypeOK
<1>7. QED
  BY <1>6, AtHome DEF SInv, Restart

LEMMA InitShape == Init => SInv
<1> SUFFICES ASSUME Init PROVE SInv
  OBVIOUS
<1>1. setting.stops \in Nat /\ setting.before \subseteq Tids
  BY SchedulerAssumption DEF Init, Setting
<1>2. /\ file \in Table /\ status \in [Tids -> Statuses] /\ recorded \in [Tids -> Since]
      /\ stops \in 0 .. setting.stops
  <2>1. Interval \in Since
    BY Constants DEF Since
  <2>2. file \in Table /\ recorded \in [Tids -> Since]
    BY <2>1 DEF Init, Table
  <2>3. status \in [Tids -> Statuses]
    BY DEF Init, Statuses
  <2>4. stops \in 0 .. setting.stops
    BY <1>1 DEF Init
  <2>5. QED
    BY <2>2, <2>3, <2>4
<1>6. /\ heap \in [Dicts -> Table] /\ cache \in [data : Dicts, age : 0 .. Ttl]
      /\ pc \in [Threads -> Phases] /\ local \in [Threads -> Local]
  BY TableTyped, HomeTyped DEF Init
<1>3. TypeOK
  BY <1>2, <1>6 DEF Init, TypeOK
<1>4. ASSUME NEW t \in Threads PROVE InPhase(t) /\ Private(t)
  <2>1. pc[t] = Home(t) /\ local[t].data = None
    BY DEF Init, NoLocals
  <2>2. QED
    BY <2>1, Constants DEF InPhase, Private, Home, Holding, LoopPhases, RunnerPhases,
       CommanderPhases, Threads
<1>5. QED
  BY <1>3, <1>4 DEF SInv

LEMMA StepShape == ASSUME SInv, [Next]_vars PROVE SInv'
<1>1. ASSUME NEW l \in Loops, Loop(l) PROVE SInv'
  <2>1. l \in Threads
    BY DEF Threads
  <2>2. CASE PassFails(l)
    BY <2>2, SleepShape DEF PassFails
  <2>3. CASE EndPass(l)
    BY <2>3, SleepShape DEF EndPass
  <2>4. CASE FirstCheck(l) \/ Wake(l)
    BY <2>4, CheckShape DEF FirstCheck, Wake
  <2>5. QED
    BY <1>1, <2>1, <2>2, <2>3, <2>4, BeginShape, ReadShape, FillShape, StartPassShape, VisitShape
       DEF Loop
<1>2. ASSUME NEW r \in Runners, Run(r) PROVE SInv'
  <2>1. r \in Threads
    BY DEF Threads
  <2>2. QED
    BY <1>2, <2>1, HandlerReturnsShape, HandlerRaisesShape, ReadShape, FillShape, UseShape,
       SavesShape DEF Run
<1>3. ASSUME NEW c \in Commanders, Serve(c) \/ Ask(c) PROVE SInv'
  <2>1. c \in Threads
    BY DEF Threads
  <2>2. QED
    BY <1>3, <2>1, ReadShape, FillShape, UseShape, SavesShape, CommandShape, StartStopShape
       DEF Serve, Ask
<1>4. CASE UNCHANGED vars
  BY <1>4 DEF vars, SInv, TypeOK, InPhase, Private
<1>5. QED
  BY <1>1, <1>2, <1>3, <1>4, TickShape, RestartShape DEF Next

-----------------------------------------------------------------------------
(* While loads do not overlap. *)

LEMMA OneAtWork ==
    ASSUME QInv, NEW t \in Threads, Busy(t), NEW u \in Threads, u # t
    PROVE  ~Busy(u)
BY DEF QInv, OneBusy

\* A step of one thread that leaves the table alone, and so what others have of it.
LEMMA QuietKept ==
    ASSUME SInv, QInv, NEW t \in Threads,
           UNCHANGED <<file, cache>>,
           pc[t] # "save", pc'[t] # "save",
           \A u \in Threads \ {t} :
               /\ local'[u].data = local[u].data
               /\ \/ pc'[u] = pc[u] /\ local'[u].tid = local[u].tid /\ local'[u].op = local[u].op
                  \/ pc[u] = "none" /\ pc'[u] = "handler"
               /\ pc[u] = "fill" => heap'[local[u].data] = heap[local[u].data],
           heap'[cache.data] = heap[cache.data],
           Busy(t)' => Busy(t) \/ \A u \in Threads \ {t} : ~Busy(u),
           Current(t)', \A u \in Threads : Asking(u)', \A tid \in Tids : Told(tid)'
    PROVE  QInv'
<1>1. ASSUME NEW u \in Threads, u # t
      PROVE  /\ Busy(u)' <=> Busy(u)
             /\ pc'[u] \in Holding \cup {"read"} =>
                   /\ pc'[u] = pc[u] /\ local'[u].tid = local[u].tid /\ local'[u].op = local[u].op
                   /\ local'[u].data = local[u].data
             /\ pc'[u] = "save" <=> pc[u] = "save"
             /\ local'[u].tid = local[u].tid \/ pc[u] # "save"
  <2>1. \/ pc'[u] = pc[u] /\ local'[u].tid = local[u].tid /\ local'[u].op = local[u].op
        \/ pc[u] = "none" /\ pc'[u] = "handler"
    BY <1>1
  <2>2. local'[u].data = local[u].data
    BY <1>1
  <2>3. QED
    BY <2>1, <2>2 DEF Busy, Holding
<1>2. OneBusy'
  <2>1. SUFFICES ASSUME NEW u \in Threads, NEW v \in Threads, Busy(u)', Busy(v)', u # v
                 PROVE  FALSE
    BY DEF OneBusy
  <2>2. CASE u = t
    <3>1. Busy(v) /\ v # t
      BY <1>1, <2>1, <2>2
    <3>2. QED
      BY <2>1, <2>2, <3>1, OneAtWork
  <2>3. CASE v = t
    <3>1. Busy(u) /\ u # t
      BY <1>1, <2>1, <2>3
    <3>2. QED
      BY <2>1, <2>3, <3>1, OneAtWork
  <2>4. CASE u # t /\ v # t
    <3>1. Busy(u) /\ Busy(v)
      BY <1>1, <2>1, <2>4
    <3>2. QED
      BY <2>1, <3>1, OneAtWork
  <2>5. QED
    BY <2>2, <2>3, <2>4
<1>3. ASSUME NEW u \in Threads PROVE Current(u)'
  <2>1. CASE u = t
    BY <2>1
  <2>2. CASE u # t
    <3>1. Current(u)
      BY DEF QInv
    <3>2. pc[u] = "fill" => heap'[local[u].data] = heap[local[u].data]
      BY <2>2
    <3>3. QED
      BY <1>1, <2>2, <3>1, <3>2 DEF Current, Holding
  <2>3. QED
    BY <2>1, <2>2
<1>4. ASSUME NEW u \in Threads PROVE Saving(u)'
  <2>1. CASE u = t
    BY <2>1 DEF Saving
  <2>2. CASE u # t
    <3>1. Saving(u)
      BY DEF QInv
    <3>2. QED
      BY <1>1, <2>2, <3>1 DEF Saving, Holding
  <2>3. QED
    BY <2>1, <2>2
<1>5. Faithful'
  <2>1. SUFFICES ASSUME cache.age < Ttl, NEW tid \in Tids,
                        \A u \in Threads : ~(pc'[u] = "save" /\ local'[u].tid = tid)
                 PROVE  heap'[cache.data][tid] = file[tid]
    BY DEF Faithful
  <2>2. \A u \in Threads : ~(pc[u] = "save" /\ local[u].tid = tid)
    <3>1. SUFFICES ASSUME NEW u \in Threads, pc[u] = "save", local[u].tid = tid PROVE FALSE
      OBVIOUS
    <3>2. u # t
      BY <3>1
    <3>3. QED
      BY <1>1, <2>1, <3>1, <3>2
  <2>3. QED
    BY <2>1, <2>2 DEF QInv, Faithful
<1>6. QED
  BY <1>2, <1>3, <1>4, <1>5 DEF QInv

\* What the administrator was told stays true while neither it nor the file changes.
LEMMA ToldKept ==
    ASSUME QInv, UNCHANGED <<file, status, recorded>>
    PROVE  \A tid \in Tids : Told(tid)'
BY DEF QInv, Told

LEMMA AskingKept ==
    ASSUME QInv, NEW u \in Threads, status' = status,
           Busy(u)' => Busy(u) /\ local'[u].tid = local[u].tid /\ local'[u].op = local[u].op
    PROVE  Asking(u)'
BY DEF QInv, Asking

LEMMA LoadQuiet ==
    ASSUME SInv, QInv, NEW t \in Threads, NEW mine \in Local, mine.data = None, Load(t, mine),
           ~overlap', ~Busy(t),
           \A tid \in Tids : Told(tid)',
           t \in Commanders => /\ mine.op = "add" => status'[mine.tid] = "asked"
                               /\ mine.op = "remove" => status'[mine.tid] = "withdrawn"
    PROVE  QInv'
<1>1. TypeOK
  BY DEF SInv
<1>2. /\ \A u \in Threads \ {t} : pc'[u] = pc[u] /\ local'[u] = local[u] /\ ~Busy(u)
      /\ \/ cache.age < Ttl /\ pc'[t] = "use" /\ local'[t].data = cache.data
         \/ cache.age = Ttl /\ pc'[t] = "read" /\ local'[t].data = None
      /\ local'[t].tid = mine.tid /\ local'[t].op = mine.op
      /\ UNCHANGED <<file, heap, cache>>
  BY <1>1, LoadFacts
<1>3. Current(t)'
  <2>1. CASE cache.age < Ttl /\ pc'[t] = "use" /\ local'[t].data = cache.data
    BY <1>2, <2>1 DEF Current
  <2>2. CASE cache.age = Ttl /\ pc'[t] = "read" /\ local'[t].data = None
    BY <1>2, <2>2 DEF Current
  <2>3. QED
    BY <1>2, <2>1, <2>2
<1>4. ASSUME NEW u \in Threads PROVE Asking(u)'
  <2>1. CASE u = t
    BY <1>2, <2>1 DEF Asking
  <2>2. CASE u # t
    <3>1. ~Busy(u)'
      BY <1>2, <2>2 DEF Busy
    <3>2. QED
      BY <3>1 DEF Asking
  <2>3. QED
    BY <2>1, <2>2
<1>5. pc[t] # "save" /\ pc'[t] # "save"
  BY <1>2 DEF Busy
<1>6. QED
  BY <1>2, <1>3, <1>4, <1>5, QuietKept

\* A thread that lets go of the table, which then stays as it is.
LEMMA LeavesQuiet ==
    ASSUME SInv, QInv, NEW t \in Threads, UNCHANGED <<file, cache>>, pc[t] # "save", ~Busy(t)',
           pc'[t] # "visit",
           \A u \in Threads \ {t} : pc'[u] = pc[u] /\ local'[u] = local[u],
           Collect(t, cache.data) \/ heap' = heap,
           \A u \in Threads : Asking(u)', \A tid \in Tids : Told(tid)'
    PROVE  QInv'
<1>1. cache.data \in Dicts
  BY DEF SInv, TypeOK
<1>2. heap'[cache.data] = heap[cache.data]
  BY <1>1 DEF Collect
<1>3. ASSUME NEW u \in Threads \ {t}, pc[u] = "fill"
      PROVE  heap'[local[u].data] = heap[local[u].data]
  <2>1. local[u].data \in Dicts
    BY <1>3 DEF SInv, TypeOK, InPhase, Holding, Local
  <2>2. QED
    BY <1>3, <2>1 DEF Collect
<1>4. Current(t)' /\ pc'[t] # "save"
  BY DEF Current, Busy
<1>5. QED
  BY <1>2, <1>3, <1>4, QuietKept

LEMMA SleepsQuiet ==
    ASSUME SInv, QInv, NEW l \in Loops, NEW ticks \in {Pause, ErrorPause}, Sleep(l, ticks),
           pc[l] = "visit", Collect(l, cache.data), UNCHANGED <<file, cache, running, history>>
    PROVE  QInv'
<1>1. TypeOK /\ l \in Threads
  BY DEF SInv, Threads
<1>2. /\ pc'[l] = "asleep"
      /\ \A u \in Threads \ {l} : pc'[u] = pc[u] /\ local'[u] = local[u]
      /\ UNCHANGED <<status, recorded>>
  BY <1>1, SleepFacts DEF history
<1>3. ASSUME NEW u \in Threads PROVE Asking(u)'
  BY <1>1, <1>2, AskingKept DEF Busy
<1>4. ~Busy(l)'
  BY <1>2 DEF Busy
<1>5. QED
  BY <1>1, <1>2, <1>3, <1>4, ToldKept, LeavesQuiet

LEMMA BeginQuiet == ASSUME SInv, QInv, NEW l \in Loops, Begin(l) PROVE QInv'
<1>1. TypeOK /\ l \in Threads /\ pc[l] = "created"
  BY DEF SInv, Threads, Begin
<1>2. /\ pc'[l] = "check" /\ local' = local
      /\ \A u \in Threads \ {l} : pc'[u] = pc[u]
      /\ UNCHANGED <<file, heap, cache, status, recorded>>
  BY <1>1 DEF Begin, Goto, TypeOK, history
<1>3. ASSUME NEW u \in Threads PROVE Asking(u)'
  BY <1>1, <1>2, AskingKept DEF Busy
<1>4. ~Busy(l)'
  BY <1>2 DEF Busy
<1>5. QED
  BY <1>1, <1>2, <1>3, <1>4, ToldKept, LeavesQuiet

LEMMA CheckQuiet ==
    ASSUME SInv, QInv, NEW l \in Loops, Check(l), pc[l] \in {"check", "asleep"}, ~overlap'
    PROVE  QInv'
<1>1. TypeOK /\ l \in Threads /\ l \notin Commanders /\ ~Busy(l)
  BY Constants DEF SInv, Threads, Busy
<1>2. CASE running
  <2>1. Load(l, NoLocals) /\ status' = status
    BY <1>2 DEF Check
  <2>2. NoLocals \in Local /\ NoLocals.data = None
    BY TableTyped DEF NoLocals
  <2>3. \A tid \in Tids : Told(tid)'
    BY <2>1, ToldKept DEF Load
  <2>4. QED
    BY <1>1, <2>1, <2>2, <2>3, LoadQuiet
<1>3. CASE ~running
  <2>1. Done(l) /\ UNCHANGED <<setting, file, heap, cache, running, status, recorded, overlap, stops>>
    BY <1>3 DEF Check
  <2>2. pc'[l] = "none" /\ \A u \in Threads \ {l} : pc'[u] = pc[u] /\ local'[u] = local[u]
    BY <1>1, <2>1, DoneFacts DEF Home
  <2>3. ASSUME NEW u \in Threads PROVE Asking(u)'
    BY <1>1, <2>1, <2>2, AskingKept DEF Busy
  <2>4. ~Busy(l)' /\ pc[l] # "save"
    BY <2>2 DEF Busy
  <2>5. QED
    BY <1>1, <2>1, <2>2, <2>3, <2>4, ToldKept, LeavesQuiet
<1>4. QED
  BY <1>2, <1>3

LEMMA ReadQuiet == ASSUME SInv, QInv, NEW t \in Threads, Read(t) PROVE QInv'
<1>1. /\ NewDict \in Dicts /\ NewDict # cache.data /\ \A u \in Threads : local[u].data # NewDict
      /\ pc[t] = "read" /\ pc'[t] = "fill" /\ local'[t].data = NewDict
      /\ local'[t].tid = local[t].tid /\ local'[t].op = local[t].op
      /\ \A u \in Threads \ {t} : pc'[u] = pc[u] /\ local'[u] = local[u]
      /\ heap' = [heap EXCEPT ![NewDict] = file]
      /\ UNCHANGED <<file, cache, status, recorded>>
  BY ReadFacts DEF InUse, history
<1>2. heap \in [Dicts -> Table] /\ cache.data \in Dicts
  BY DEF SInv, TypeOK
<1>3. heap'[NewDict] = file /\ heap'[cache.data] = heap[cache.data]
  BY <1>1, <1>2
<1>4. ASSUME NEW u \in Threads \ {t}, pc[u] = "fill"
      PROVE  heap'[local[u].data] = heap[local[u].data]
  <2>1. local[u].data \in Dicts /\ local[u].data # NewDict
    BY <1>1, <1>4 DEF SInv, TypeOK, InPhase, Holding, Local
  <2>2. QED
    BY <1>1, <1>2, <2>1
<1>5. Current(t)'
  <2>1. cache.age = Ttl
    BY <1>1 DEF QInv, Current
  <2>2. QED
    BY <1>1, <1>3, <2>1 DEF Current
<1>6. ASSUME NEW u \in Threads PROVE Asking(u)'
  BY <1>1, AskingKept DEF Busy
<1>7. Busy(t)
  BY <1>1 DEF Busy
<1>8. QED
  BY <1>1, <1>3, <1>4, <1>5, <1>6, <1>7, ToldKept, QuietKept

LEMMA FillQuiet == ASSUME SInv, QInv, NEW t \in Threads, Fill(t) PROVE QInv'
<1> DEFINE d == local[t].data
<1>1. /\ pc[t] = "fill" /\ d \in Dicts /\ local' = local /\ pc'[t] = "use"
      /\ \A u \in Threads \ {t} : pc'[u] = pc[u]
      /\ cache' = [data |-> d, age |-> 0]
      /\ Collect(t, d)
      /\ UNCHANGED <<file, status, recorded>>
  BY FillFacts DEF history
<1>2. heap'[d] = file /\ cache.age = Ttl
  <2>1. heap[d] = file /\ cache.age = Ttl
    BY <1>1 DEF QInv, Current
  <2>2. QED
    BY <1>1, <2>1 DEF Collect
<1>3. ASSUME NEW u \in Threads \ {t} PROVE ~Busy(u)' /\ pc'[u] # "visit"
  <2>1. ~Busy(u)
    BY <1>1, OneAtWork DEF Busy
  <2>2. pc[u] # "visit"
    BY <1>2, Constants DEF QInv, Current
  <2>3. QED
    BY <1>1, <2>1, <2>2 DEF Busy
<1>4. OneBusy'
  BY <1>3 DEF OneBusy
<1>5. ASSUME NEW u \in Threads PROVE Current(u)' /\ Saving(u)'
  <2>1. CASE u = t
    BY <1>1, <2>1, Constants DEF Current, Saving
  <2>2. CASE u # t
    BY <1>3, <2>2 DEF Current, Saving, Busy
  <2>3. QED
    BY <2>1, <2>2
<1>6. ASSUME NEW u \in Threads PROVE Asking(u)'
  BY <1>1, AskingKept DEF Busy
<1>7. Faithful'
  BY <1>1, <1>2 DEF Faithful
<1>8. QED
  BY <1>1, <1>4, <1>5, <1>6, <1>7, ToldKept DEF QInv

LEMMA StartPassQuiet == ASSUME SInv, QInv, NEW l \in Loops, StartPass(l) PROVE QInv'
<1>1. /\ l \in Threads /\ pc[l] = "use" /\ pc'[l] = "visit" /\ local'[l].data = local[l].data
      /\ \A u \in Threads \ {l} : pc'[u] = pc[u] /\ local'[u] = local[u]
      /\ UNCHANGED <<file, heap, cache, status, recorded>>
  BY StartPassFacts DEF Threads, history
<1>2. Current(l)'
  <2>1. Current(l)
    BY <1>1 DEF QInv
  <2>2. QED
    BY <1>1, <2>1 DEF Current
<1>3. ASSUME NEW u \in Threads PROVE Asking(u)'
  BY <1>1, AskingKept DEF Busy
<1>4. ~Busy(l)'
  BY <1>1 DEF Busy
<1>5. QED
  BY <1>1, <1>2, <1>3, <1>4, ToldKept, QuietKept

LEMMA VisitQuiet == ASSUME SInv, QInv, NEW l \in Loops, NEW tid \in Tids, Visit(l, tid) PROVE QInv'
<1>1. /\ l \in Threads /\ pc[l] = "visit" /\ l \notin Runners
      /\ UNCHANGED <<file, heap, cache, status, recorded>>
  BY VisitFacts, Constants DEF Threads, history
<1>2. ASSUME NEW u \in Threads
      PROVE  /\ local'[u].data = local[u].data
             /\ \/ pc'[u] = pc[u] /\ local'[u].tid = local[u].tid /\ local'[u].op = local[u].op
                \/ pc[u] = "none" /\ pc'[u] = "handler"
  BY VisitFacts
<1>3. pc'[l] = "visit"
  BY <1>1, <1>2
<1>4. Current(l)'
  <2>1. Current(l)
    BY <1>1 DEF QInv
  <2>2. QED
    BY <1>1, <1>2, <1>3, <2>1 DEF Current
<1>5. ASSUME NEW u \in Threads PROVE Asking(u)'
  BY <1>1, <1>2, AskingKept DEF Busy
<1>6. ~Busy(l)'
  BY <1>3 DEF Busy
<1>7. QED
  BY <1>1, <1>2, <1>3, <1>4, <1>5, <1>6, ToldKept, QuietKept

LEMMA HandlerReturnsQuiet ==
    ASSUME SInv, QInv, NEW r \in Runners, HandlerReturns(r), ~overlap'
    PROVE  QInv'
<1>1. TypeOK /\ r \in Threads /\ r \notin Commanders /\ local[r] \in Local /\ pc[r] = "handler"
      /\ Load(r, local[r]) /\ status' = status
  BY Constants DEF SInv, TypeOK, Threads, HandlerReturns
<1>2. local[r].data = None /\ ~Busy(r)
  BY <1>1 DEF SInv, InPhase, Holding, Busy
<1>3. \A tid \in Tids : Told(tid)'
  BY <1>1, ToldKept DEF Load
<1>4. QED
  BY <1>1, <1>2, <1>3, LoadQuiet

LEMMA HandlerRaisesQuiet == ASSUME SInv, QInv, NEW r \in Runners, HandlerRaises(r) PROVE QInv'
<1>1. TypeOK /\ r \in Threads /\ pc[r] = "handler" /\ Done(r)
      /\ UNCHANGED <<file, heap, cache, status, recorded>>
  BY DEF SInv, Threads, HandlerRaises, history
<1>2. pc'[r] \in {"none", "idle"} /\ \A u \in Threads \ {r} : pc'[u] = pc[u] /\ local'[u] = local[u]
  BY <1>1, DoneFacts DEF Home
<1>3. ASSUME NEW u \in Threads PROVE Asking(u)'
  BY <1>1, <1>2, AskingKept DEF Busy
<1>4. ~Busy(r)' /\ pc'[r] # "visit"
  BY <1>2 DEF Busy
<1>5. QED
  BY <1>1, <1>2, <1>3, <1>4, ToldKept, LeavesQuiet

\* A fresh dictionary is the file while the only thread at work has not changed it.
LEMMA InStep ==
    ASSUME QInv, NEW t \in Threads, pc[t] = "use"
    PROVE  /\ local[t].data = cache.data /\ cache.age < Ttl
           /\ \A tid \in Tids : heap[cache.data][tid] = file[tid]
           /\ \A u \in Threads \ {t} : ~Busy(u)
<1>1. local[t].data = cache.data /\ cache.age < Ttl
  BY DEF QInv, Current
<1>2. \A u \in Threads \ {t} : ~Busy(u)
  BY OneAtWork DEF Busy
<1>3. \A u \in Threads : pc[u] # "save"
  BY <1>2 DEF Busy
<1>4. QED
  BY <1>1, <1>2, <1>3 DEF QInv, Faithful

LEMMA DropsQuiet ==
    ASSUME SInv, QInv, NEW t \in Threads, Drops(t), \A tid \in Tids : Told(tid)'
    PROVE  QInv'
<1>1. TypeOK /\ pc[t] = "use" /\ Done(t) /\ Collect(t, cache.data) /\ UNCHANGED <<file, cache>>
  BY DEF SInv, Drops
<1>2. pc'[t] \in {"none", "idle"} /\ \A u \in Threads \ {t} : pc'[u] = pc[u] /\ local'[u] = local[u]
  BY <1>1, DoneFacts DEF Home
<1>3. ~Busy(t)' /\ pc'[t] # "visit"
  BY <1>2 DEF Busy
<1>4. ASSUME NEW u \in Threads PROVE Asking(u)'
  <2>1. ~Busy(u)'
    BY <1>1, <1>2, <1>3, InStep DEF Busy
  <2>2. QED
    BY <2>1 DEF Asking
<1>5. QED
  BY <1>1, <1>2, <1>3, <1>4, LeavesQuiet

LEMMA AltersQuiet ==
    ASSUME SInv, QInv, NEW t \in Runners \cup Commanders, NEW v \in Since \cup {None}, Alters(t, v),
           t \in Runners => v = 0 /\ local[t].tid \in Present(heap[local[t].data]),
           t \in Commanders => v = IF local[t].op = "add" THEN Interval ELSE None
    PROVE  QInv'
<1> DEFINE tid == local[t].tid
<1>1. /\ t \in Threads /\ pc[t] = "use" /\ pc'[t] = "save" /\ tid \in Tids /\ local' = local
      /\ \A u \in Threads \ {t} : pc'[u] = pc[u]
      /\ heap' = [heap EXCEPT ![local[t].data][tid] = v]
      /\ UNCHANGED <<file, cache, status, recorded>>
  BY AltersFacts DEF Threads, Alters, history
<1>2. /\ local[t].data = cache.data /\ cache.age < Ttl
      /\ \A x \in Tids : heap[cache.data][x] = file[x]
      /\ \A u \in Threads \ {t} : ~Busy(u)
  BY <1>1, InStep
<1>3. /\ heap'[cache.data][tid] = v
      /\ \A x \in Tids \ {tid} : heap'[cache.data][x] = file[x]
  <2>1. heap \in [Dicts -> Table] /\ cache.data \in Dicts
    BY DEF SInv, TypeOK
  <2>2. heap[cache.data] \in Table
    BY <2>1
  <2>3. heap'[cache.data] = [heap[cache.data] EXCEPT ![tid] = v]
    BY <1>1, <1>2, <2>1
  <2>4. QED
    BY <1>1, <1>2, <2>2, <2>3 DEF Table
<1>4. ASSUME NEW u \in Threads \ {t} PROVE ~Busy(u)' /\ Current(u)' /\ Saving(u)'
  <2>1. ~Busy(u) /\ Current(u)
    BY <1>2 DEF QInv
  <2>2. QED
    BY <1>1, <2>1 DEF Busy, Current, Saving
<1>5. Current(t)'
  BY <1>1, <1>2 DEF Current
<1>6. Saving(t)'
  <2>1. t \in Runners => file[tid] # None
    BY <1>1, <1>2 DEF Present
  <2>2. QED
    BY <1>1, <1>3, <2>1 DEF Saving
<1>7. OneBusy'
  BY <1>4 DEF OneBusy
<1>8. ASSUME NEW u \in Threads PROVE Asking(u)'
  BY <1>1, AskingKept DEF Busy
<1>9. Faithful'
  BY <1>1, <1>3 DEF Faithful
<1>10. QED
  BY <1>1, <1>4, <1>5, <1>6, <1>7, <1>8, <1>9, ToldKept DEF QInv

LEMMA UseQuiet ==
    ASSUME SInv, QInv, \/ \E r \in Runners : NoteRun(r)
                       \/ \E c \in Commanders : Change(c)
    PROVE  QInv'
<1>1. Runners \subseteq Threads /\ Commanders \subseteq Threads /\ Runners \cap Commanders = {}
      /\ 0 \in Since /\ Interval \in Since
  BY Constants DEF Threads, Since
<1>2. ASSUME NEW t \in Threads, Drops(t), status' = status PROVE QInv'
  <2>1. \A tid \in Tids : Told(tid)'
    BY <1>2, ToldKept DEF Drops
  <2>2. QED
    BY <1>2, <2>1, DropsQuiet
<1>3. ASSUME NEW r \in Runners, NoteRun(r) PROVE QInv'
  <2>1. CASE Alters(r, 0) /\ local[r].tid \in Present(heap[local[r].data])
    BY <1>1, <2>1, AltersQuiet
  <2>2. CASE Drops(r) /\ status' = status
    BY <1>1, <1>2, <2>2
  <2>3. QED
    BY <1>3, <2>1, <2>2, NoteRunCases
<1>4. ASSUME NEW c \in Commanders, Change(c) PROVE QInv'
  <2>1. CASE Drops(c) /\ status' = status
    BY <1>1, <1>2, <2>1
  <2>2. CASE /\ Drops(c)
             /\ local[c].tid \in Tids \ Present(heap[local[c].data])
             /\ status' = [status EXCEPT ![local[c].tid] = "removed"]
    <3>1. pc[c] = "use" /\ UNCHANGED <<file, recorded>> /\ c \in Threads
      BY <1>1, <2>2 DEF Drops
    <3>2. file[local[c].tid] = None
      BY <2>2, <3>1, InStep DEF Present
    <3>3. status \in [Tids -> Statuses]
      BY DEF SInv, TypeOK
    <3>4. ASSUME NEW tid \in Tids PROVE Told(tid)'
      <4>1. Told(tid)
        BY DEF QInv
      <4>2. CASE tid = local[c].tid
        <5>1. status'[tid] = "removed"
          BY <2>2, <3>3, <4>2
        <5>2. QED
          BY <3>1, <3>2, <4>1, <4>2, <5>1 DEF Told
      <4>3. CASE tid # local[c].tid
        <5>1. status'[tid] = status[tid]
          BY <2>2, <3>3, <4>3
        <5>2. QED
          BY <3>1, <4>1, <5>1 DEF Told
      <4>4. QED
        BY <4>2, <4>3
    <3>5. QED
      BY <2>2, <3>1, <3>4, DropsQuiet
  <2>3. CASE Alters(c, Interval) /\ local[c].op = "add"
    BY <1>1, <2>3, AltersQuiet
  <2>4. CASE Alters(c, None) /\ local[c].op = "remove"
    BY <1>1, <2>4, AltersQuiet
  <2>5. QED
    BY <1>4, <2>1, <2>2, <2>3, <2>4, ChangeCases
<1>5. QED
  BY <1>3, <1>4

\* A save brings the file and the administrator's knowledge in step.
LEMMA SaveQuiet ==
    ASSUME SInv, QInv, NEW t \in Runners \cup Commanders, pc[t] = "save", Save(t),
           \A tid \in Tids : Told(tid)'
    PROVE  QInv'
<1>1. /\ t \in Threads
      /\ pc'[t] \in {"none", "idle"}
      /\ \A u \in Threads \ {t} : pc'[u] = pc[u] /\ local'[u] = local[u]
      /\ file' = heap[local[t].data]
      /\ cache' = [data |-> local[t].data, age |-> 0]
      /\ Collect(t, local[t].data)
  BY SaveFacts DEF Home
<1>2. local[t].data = cache.data /\ cache.age < Ttl /\ cache.data \in Dicts
  BY <1>1 DEF QInv, Current, SInv, TypeOK
<1>3. heap'[cache.data] = heap[cache.data]
  BY <1>1, <1>2 DEF Collect
<1>4. ASSUME NEW u \in Threads PROVE ~Busy(u)'
  <2>1. CASE u = t
    BY <1>1, <2>1 DEF Busy
  <2>2. CASE u # t
    BY <1>1, <2>2, OneAtWork DEF Busy
  <2>3. QED
    BY <2>1, <2>2
<1>5. ASSUME NEW u \in Threads PROVE Current(u)' /\ Saving(u)' /\ Asking(u)'
  <2>1. pc'[u] = "visit" => u # t /\ local'[u] = local[u] /\ pc[u] = "visit"
    BY <1>1
  <2>2. pc'[u] = "visit" => local'[u].data = cache.data
    BY <2>1 DEF QInv, Current
  <2>3. QED
    BY <1>1, <1>2, <1>4, <2>2, Constants DEF Current, Saving, Asking, Busy
<1>6. Faithful'
  BY <1>1, <1>2, <1>3 DEF Faithful
<1>7. QED
  BY <1>4, <1>5, <1>6 DEF QInv, OneBusy

LEMMA SavesQuiet ==
    ASSUME SInv, QInv, \/ \E r \in Runners : SaveRun(r)
                       \/ \E c \in Commanders : SaveChange(c)
    PROVE  QInv'
<1>1. status \in [Tids -> Statuses] /\ recorded \in [Tids -> Since]
  BY DEF SInv, TypeOK
<1>2. ASSUME NEW t \in Runners \cup Commanders, pc[t] = "save", Save(t)
      PROVE  /\ t \in Threads /\ local[t].tid \in Tids
             /\ t \in Commanders => local[t].op \in {"add", "remove"}
             /\ \A tid \in Tids \ {local[t].tid} : file'[tid] = file[tid]
             /\ file' = heap[cache.data]
             /\ Saving(t) /\ Asking(t)
  <2>1. /\ t \in Threads /\ local[t].tid \in Tids /\ file' = heap[local[t].data]
        /\ t \in Commanders => local[t].op \in {"add", "remove"}
    BY <1>2, SaveFacts
  <2>2. local[t].data = cache.data /\ cache.age < Ttl
    BY <1>2, <2>1 DEF QInv, Current
  <2>3. \A u \in Threads \ {t} : pc[u] # "save"
    BY <1>2, <2>1, OneAtWork DEF Busy
  <2>4. \A tid \in Tids \ {local[t].tid} : heap[cache.data][tid] = file[tid]
    BY <2>2, <2>3 DEF QInv, Faithful
  <2>5. QED
    BY <2>1, <2>2, <2>4 DEF QInv
<1>3. ASSUME NEW r \in Runners, SaveRun(r) PROVE QInv'
  <2> DEFINE tid == local[r].tid
  <2>1. pc[r] = "save" /\ Save(r) /\ recorded' = [recorded EXCEPT ![tid] = 0] /\ status' = status
    BY <1>3 DEF SaveRun
  <2>2. /\ r \in Threads /\ tid \in Tids /\ file' = heap[cache.data]
        /\ \A x \in Tids \ {tid} : file'[x] = file[x]
        /\ Saving(r)
    BY <1>2, <2>1
  <2>3. heap[cache.data][tid] = 0 /\ file[tid] # None
    BY <2>1, <2>2 DEF Saving
  <2>4. ASSUME NEW x \in Tids PROVE Told(x)'
    <3>1. Told(x)
      BY DEF QInv
    <3>2. CASE x = tid
      <4>1. file'[x] = 0 /\ file'[x] # None /\ recorded'[x] = 0
        BY <1>1, <2>1, <2>2, <2>3, <3>2, Constants
      <4>2. status'[x] \notin {"removed", "new", "asked"}
        BY <2>1, <2>3, <3>1, <3>2 DEF Told
      <4>3. QED
        BY <4>1, <4>2 DEF Told
    <3>3. CASE x # tid
      <4>1. file'[x] = file[x] /\ recorded'[x] = recorded[x] /\ status'[x] = status[x]
        BY <1>1, <2>1, <2>2, <3>3
      <4>2. QED
        BY <3>1, <4>1 DEF Told
    <3>4. QED
      BY <3>2, <3>3
  <2>5. QED
    BY <2>1, <2>4, SaveQuiet
<1>4. ASSUME NEW c \in Commanders, SaveChange(c) PROVE QInv'
  <2> DEFINE tid == local[c].tid
             answer == IF local[c].op = "add" THEN "confirmed" ELSE "removed"
  <2>1. pc[c] = "save" /\ Save(c) /\ recorded' = recorded /\ status' = [status EXCEPT ![tid] = answer]
    BY <1>4 DEF SaveChange
  <2>2. /\ c \in Threads /\ tid \in Tids /\ file' = heap[cache.data]
        /\ local[c].op \in {"add", "remove"}
        /\ \A x \in Tids \ {tid} : file'[x] = file[x]
        /\ Saving(c) /\ Asking(c)
    BY <1>2, <2>1
  <2>3. /\ file'[tid] = IF local[c].op = "add" THEN Interval ELSE None
        /\ local[c].op = "add" => status[tid] = "asked"
    BY <2>1, <2>2 DEF Saving, Asking, Busy
  <2>4. ASSUME NEW x \in Tids PROVE Told(x)'
    <3>1. Told(x)
      BY DEF QInv
    <3>2. CASE x = tid
      <4>1. recorded'[x] = recorded[x] /\ status'[x] = answer
        BY <1>1, <2>1, <2>2, <3>2
      <4> HIDE DEF tid
      <4>2. CASE local[c].op = "add"
        <5>1. file'[x] = Interval /\ recorded'[x] = Interval /\ status'[x] = "confirmed"
          BY <2>3, <3>1, <3>2, <4>1, <4>2 DEF Told
        <5>2. QED
          BY <5>1, Constants DEF Told
      <4>3. CASE local[c].op = "remove"
        <5>1. file'[x] = None /\ status'[x] = "removed"
          BY <2>3, <3>2, <4>1, <4>3
        <5>2. QED
          BY <5>1 DEF Told
      <4>4. QED
        BY <2>2, <4>2, <4>3
    <3>3. CASE x # tid
      <4>1. file'[x] = file[x] /\ recorded'[x] = recorded[x] /\ status'[x] = status[x]
        BY <1>1, <2>1, <2>2, <3>3
      <4>2. QED
        BY <3>1, <4>1 DEF Told
    <3>4. QED
      BY <3>2, <3>3
  <2> HIDE DEF tid, answer
  <2>5. QED
    BY <2>1, <2>4, SaveQuiet
<1>5. QED
  BY <1>3, <1>4

\* The administrator's question concerns a task that is as he was told.
LEMMA CommandQuiet ==
    ASSUME SInv, QInv, NEW c \in Commanders, Command(c), ~overlap'
    PROVE  QInv'
<1>1. TypeOK /\ c \in Threads /\ pc[c] = "idle" /\ ~Busy(c) /\ status \in [Tids -> Statuses]
  BY DEF SInv, Threads, Command, Busy, TypeOK
<1> DEFINE List == [NoLocals EXCEPT !.op = "list"]
           Mine(o, tid) == [NoLocals EXCEPT !.op = o, !.tid = tid]
<1>2. List \in Local /\ List.data = None /\ List.op = "list"
  BY TableTyped DEF NoLocals, Local
<1>3. \A o \in {"add", "remove"}, tid \in Tids :
          /\ Mine(o, tid) \in Local /\ Mine(o, tid).data = None
          /\ Mine(o, tid).op = o /\ Mine(o, tid).tid = tid
  BY TableTyped DEF NoLocals, Local
<1>4. \/ Load(c, List) /\ status' = status
      \/ \E tid \in Tids :
            \/ /\ status[tid] = "new" /\ status' = [status EXCEPT ![tid] = "asked"]
               /\ Load(c, Mine("add", tid))
            \/ /\ status[tid] = "confirmed" /\ status' = [status EXCEPT ![tid] = "withdrawn"]
               /\ Load(c, Mine("remove", tid))
  BY Zenon DEF Command
<1> HIDE DEF List, Mine
<1>5. CASE Load(c, List) /\ status' = status
  <2>1. \A tid \in Tids : Told(tid)'
    BY <1>5, ToldKept DEF Load
  <2>2. QED
    BY <1>1, <1>2, <1>5, <2>1, LoadQuiet
<1>6. ASSUME NEW tid \in Tids, status[tid] = "new", status' = [status EXCEPT ![tid] = "asked"],
             Load(c, Mine("add", tid))
      PROVE  QInv'
  <2>1. UNCHANGED <<file, recorded>> /\ status'[tid] = "asked"
        /\ \A x \in Tids \ {tid} : status'[x] = status[x]
    BY <1>1, <1>6 DEF Load
  <2>2. \A x \in Tids : Told(x)'
    BY <1>6, <2>1 DEF QInv, Told
  <2>3. QED
    BY <1>1, <1>3, <1>6, <2>1, <2>2, LoadQuiet
<1>7. ASSUME NEW tid \in Tids, status[tid] = "confirmed",
             status' = [status EXCEPT ![tid] = "withdrawn"], Load(c, Mine("remove", tid))
      PROVE  QInv'
  <2>1. UNCHANGED <<file, recorded>> /\ status'[tid] = "withdrawn"
        /\ \A x \in Tids \ {tid} : status'[x] = status[x]
    BY <1>1, <1>7 DEF Load
  <2>2. \A x \in Tids : Told(x)'
    BY <1>7, <2>1 DEF QInv, Told
  <2>3. QED
    BY <1>1, <1>3, <1>7, <2>1, <2>2, LoadQuiet
<1>8. QED
  BY <1>4, <1>5, <1>6, <1>7

LEMMA StartStopQuiet ==
    ASSUME SInv, QInv, NEW c \in Commanders, StartScheduler(c) \/ StopScheduler(c)
    PROVE  QInv'
<1>1. CASE StartScheduler(c)
  <2>1. PICK l \in setting.loops : pc[l] = "none" /\ Goto(l, "created")
    BY <1>1 DEF StartScheduler
  <2>2. l \in Threads
    BY SchedulerAssumption DEF SInv, TypeOK, Setting, Threads
  <2>3. local' = local /\ UNCHANGED <<file, heap, cache, status, recorded>>
        /\ pc'[l] = "created" /\ \A u \in Threads \ {l} : pc'[u] = pc[u]
    BY <1>1, <2>1, <2>2 DEF StartScheduler, Goto, SInv, TypeOK, history
  <2>4. ASSUME NEW u \in Threads PROVE Asking(u)'
    BY <2>1, <2>3, AskingKept DEF Busy
  <2>5. ~Busy(l)' /\ pc'[l] # "visit"
    BY <2>3 DEF Busy
  <2>6. QED
    BY <2>1, <2>2, <2>3, <2>4, <2>5, ToldKept, LeavesQuiet
<1>2. CASE StopScheduler(c)
  BY <1>2 DEF StopScheduler, QInv, OneBusy, Busy, Current, Saving, Asking, Faithful, Told
<1>3. QED
  BY <1>1, <1>2

LEMMA TickQuiet == ASSUME SInv, QInv, Tick PROVE QInv'
<1>1. /\ pc' = pc /\ status' = status /\ file' = Aged(file)
      /\ heap' = [Blank EXCEPT ![0] = Aged(heap[cache.data])]
      /\ cache' = [data |-> 0, age |-> IF cache.age < Ttl THEN cache.age + 1 ELSE Ttl]
      /\ recorded' = [tid \in Tids |-> IF recorded[tid] < Interval
                                       THEN recorded[tid] + 1 ELSE Interval]
  BY DEF Tick
<1>2. ASSUME NEW u \in Threads PROVE pc'[u] \notin Holding \cup {"read"} /\ ~Busy(u)'
  <2>1. AtRest(u)
    BY DEF Tick
  <2>2. QED
    BY <1>1, <2>1, RestHoldsNothing DEF Busy
<1>3. ASSUME NEW u \in Threads PROVE Current(u)' /\ Saving(u)' /\ Asking(u)'
  BY <1>2 DEF Current, Saving, Asking, Holding
<1>4. Faithful'
  <2>1. SUFFICES ASSUME cache'.age < Ttl, NEW tid \in Tids
                 PROVE  heap'[cache'.data][tid] = file'[tid]
    BY DEF Faithful
  <2>2. cache.age \in 0 .. Ttl
    BY DEF SInv, TypeOK
  <2>3. cache.age < Ttl
    BY <1>1, <2>1, <2>2, Constants
  <2>4. \A x \in Tids : heap[cache.data][x] = file[x]
    BY <1>1, <1>2, <2>3 DEF QInv, Faithful, Holding
  <2>5. heap'[cache'.data] = Aged(heap[cache.data])
    BY <1>1, TableTyped
  <2>6. QED
    BY <1>1, <2>4, <2>5 DEF Aged
<1>5. ASSUME NEW tid \in Tids PROVE Told(tid)'
  <2>1. Told(tid) /\ file[tid] \in Since \cup {None} /\ recorded[tid] \in Since
    BY DEF QInv, SInv, TypeOK, Table
  <2>2. /\ file'[tid] = IF file[tid] = None \/ file[tid] = Interval THEN file[tid] ELSE file[tid] + 1
        /\ recorded'[tid] = IF recorded[tid] < Interval THEN recorded[tid] + 1 ELSE Interval
    BY <1>1 DEF Aged
  <2>3. file'[tid] = None <=> file[tid] = None
    BY <2>1, <2>2, Constants DEF Since
  <2>4. file'[tid] # None => file'[tid] <= recorded'[tid]
    BY <2>1, <2>2, <2>3, Constants DEF Told, Since
  <2>5. recorded[tid] = Interval => recorded'[tid] = Interval
    BY <2>1, <2>2, Constants DEF Since
  <2>6. QED
    BY <1>1, <2>1, <2>3, <2>4, <2>5 DEF Told
<1>6. QED
  BY <1>2, <1>3, <1>4, <1>5 DEF QInv, OneBusy

LEMMA RestartQuiet == ASSUME SInv, QInv, Restart PROVE QInv'
<1>1. /\ cache' = Empty /\ UNCHANGED <<file, recorded>>
      /\ pc' = [t \in Threads |-> Home(t)] /\ local' = [t \in Threads |-> NoLocals]
  BY DEF Restart
<1>2. ASSUME NEW u \in Threads
      PROVE  ~Busy(u)' /\ Current(u)' /\ Saving(u)' /\ Asking(u)'
  <2>1. ~Busy(u)' /\ pc'[u] \in {"none", "idle"}
    BY <1>1, AtHome
  <2>2. QED
    BY <2>1 DEF Current, Saving, Asking
<1>3. Faithful'
  BY <1>1, Constants DEF Faithful, Empty
<1>4. ASSUME NEW tid \in Tids PROVE Told(tid)'
  <2>1. Told(tid)
    BY DEF QInv
  <2>2. status'[tid] = IF status[tid] \in {"asked", "withdrawn"}
                       THEN IF file[tid] = None THEN "removed" ELSE "confirmed"
                       ELSE status[tid]
    BY DEF Restart
  <2>3. QED
    BY <1>1, <2>1, <2>2 DEF Told
<1>5. QED
  BY <1>2, <1>3, <1>4 DEF QInv, OneBusy

LEMMA InitQuiet == Init => QInv
<1> SUFFICES ASSUME Init PROVE QInv
  OBVIOUS
<1>1. ASSUME NEW u \in Threads PROVE ~Busy(u) /\ Current(u) /\ Saving(u) /\ Asking(u)
  <2>1. pc[u] \in {"none", "idle"}
    BY DEF Init, Home
  <2>2. QED
    BY <2>1 DEF Busy, Current, Saving, Asking
<1>2. Faithful
  BY Constants DEF Init, Faithful, Empty
<1>3. ASSUME NEW tid \in Tids PROVE Told(tid)
  <2>1. /\ file[tid] = IF tid \in setting.before THEN Interval ELSE None
        /\ status[tid] = IF tid \in setting.before THEN "confirmed" ELSE "new"
        /\ recorded[tid] = Interval
    BY DEF Init
  <2>2. QED
    BY <2>1, Constants DEF Told
<1>4. QED
  BY <1>1, <1>2, <1>3 DEF QInv, OneBusy

LEMMA StepQuiet == ASSUME SInv, QInv, [Next]_vars, ~overlap' PROVE QInv'
<1>1. ASSUME NEW l \in Loops, Loop(l) PROVE QInv'
  <2>1. l \in Threads
    BY DEF Threads
  <2>2. CASE PassFails(l)
    BY <2>2, SleepsQuiet DEF PassFails
  <2>3. CASE EndPass(l)
    BY <2>3, SleepsQuiet DEF EndPass
  <2>4. CASE FirstCheck(l) \/ Wake(l)
    BY <2>4, CheckQuiet DEF FirstCheck, Wake
  <2>5. QED
    BY <1>1, <2>1, <2>2, <2>3, <2>4, BeginQuiet, ReadQuiet, FillQuiet, StartPassQuiet, VisitQuiet
       DEF Loop
<1>2. ASSUME NEW r \in Runners, Run(r) PROVE QInv'
  <2>1. r \in Threads
    BY DEF Threads
  <2>2. QED
    BY <1>2, <2>1, HandlerReturnsQuiet, HandlerRaisesQuiet, ReadQuiet, FillQuiet, UseQuiet,
       SavesQuiet DEF Run
<1>3. ASSUME NEW c \in Commanders, Serve(c) \/ Ask(c) PROVE QInv'
  <2>1. c \in Threads
    BY DEF Threads
  <2>2. QED
    BY <1>3, <2>1, ReadQuiet, FillQuiet, UseQuiet, SavesQuiet, CommandQuiet, StartStopQuiet
       DEF Serve, Ask
<1>4. CASE UNCHANGED vars
  BY <1>4 DEF vars, QInv, OneBusy, Busy, Current, Saving, Asking, Faithful, Told
<1>5. QED
  BY <1>1, <1>2, <1>3, <1>4, TickQuiet, RestartQuiet DEF Next

\* An overlap is not forgotten.
LEMMA OverlapStays == ASSUME SInv, [Next]_vars, overlap PROVE overlap'
<1>1. ASSUME NEW t, NEW mine, Load(t, mine) PROVE overlap'
  BY <1>1 DEF Load
<1>2. ASSUME NEW t, Save(t) PROVE overlap'
  BY <1>2 DEF Save
<1>3. ASSUME NEW l \in Loops, Loop(l) PROVE overlap'
  <2>1. CASE FirstCheck(l) \/ Wake(l)
    BY <1>1, <2>1 DEF FirstCheck, Wake, Check
  <2>2. CASE Begin(l) \/ Read(l) \/ Fill(l) \/ StartPass(l) \/ PassFails(l) \/ EndPass(l)
    BY <2>2 DEF Begin, Read, Fill, StartPass, PassFails, EndPass, history
  <2>3. CASE \E tid \in Tids : Visit(l, tid)
    BY <2>3 DEF Visit, history
  <2>4. QED
    BY <1>3, <2>1, <2>2, <2>3 DEF Loop
<1>4. ASSUME NEW r \in Runners, Run(r) PROVE overlap'
  <2>1. CASE HandlerReturns(r) \/ SaveRun(r)
    BY <1>1, <1>2, <2>1 DEF HandlerReturns, SaveRun
  <2>2. CASE HandlerRaises(r) \/ Read(r) \/ Fill(r) \/ NoteRun(r)
    BY <2>2 DEF HandlerRaises, Read, Fill, NoteRun, history
  <2>3. QED
    BY <1>4, <2>1, <2>2 DEF Run
<1>5. ASSUME NEW c \in Commanders, Serve(c) \/ Ask(c) PROVE overlap'
  <2>1. CASE Command(c) \/ SaveChange(c)
    BY <1>1, <1>2, <2>1, Zenon DEF Command, SaveChange
  <2>2. CASE Read(c) \/ Fill(c) \/ Change(c) \/ StartScheduler(c) \/ StopScheduler(c)
    BY <2>2 DEF Read, Fill, Change, StartScheduler, StopScheduler, history
  <2>3. QED
    BY <1>5, <2>1, <2>2 DEF Serve, Ask
<1>6. CASE Tick \/ Restart \/ UNCHANGED vars
  BY <1>6 DEF Tick, Restart, vars
<1>7. QED
  BY <1>3, <1>4, <1>5, <1>6 DEF Next

-----------------------------------------------------------------------------

\* The invariant of scheduler.py: what each thread does and holds, and, while no load
\* fell into another thread's load or update, that a fresh dictionary is the file but
\* for the task about to be saved.
THEOREM TasksKept == Spec => []IInv
<1>1. Init => IInv
  BY InitShape, InitQuiet DEF IInv
<1>2. IInv /\ [Next]_vars => IInv'
  <2>1. SUFFICES ASSUME IInv, [Next]_vars PROVE IInv'
    OBVIOUS
  <2>2. SInv'
    BY <2>1, StepShape DEF IInv
  <2>3. ASSUME ~overlap' PROVE QInv'
    BY <2>1, <2>3, OverlapStays, StepQuiet DEF IInv
  <2>4. QED
    BY <2>2, <2>3 DEF IInv
<1>3. QED
  BY <1>1, <1>2, PTL DEF Spec

\* Every variable of the scheduler has its type, for any tasks, threads and times.
THEOREM SchedulerTyped == Spec => []TypeOK
<1>1. IInv => TypeOK
  BY DEF IInv, SInv
<1>2. QED
  BY <1>1, TasksKept, PTL

\* A task the administrator was told is registered is in the file, and one he was told
\* is removed is not, as long as no load fell into another thread's load or update: for
\* any number of loops, handlers and commands, restarts included (scheduler.py:20-59).
THEOREM ConfirmedStaysKept == Spec => []ConfirmedIsKept
<1>1. IInv => ConfirmedIsKept
  BY DEF IInv, QInv, Told, ConfirmedIsKept
<1>2. QED
  BY <1>1, TasksKept, PTL

\* No loop starts a task within Interval of its last saved run, under the same
\* condition, however many loops there are (scheduler.py:129-145).
THEOREM RunsAreApart == Spec => NotTooSoon
<1>1. IInv /\ [Next]_vars =>
          [\A tid \in Tids : Started(tid) /\ ~overlap => recorded[tid] = Interval]_vars
  <2>1. SUFFICES ASSUME IInv, NEW tid \in Tids, Started(tid), ~overlap
                 PROVE  recorded[tid] = Interval
    OBVIOUS
  <2>2. PICK l \in Loops : Visit(l, tid) /\ Due(heap[local[l].data][tid])
    BY <2>1 DEF Started
  <2>3. SInv /\ QInv /\ l \in Threads
    BY <2>1 DEF IInv, Threads
  <2>4. pc[l] = "visit" /\ tid \in Present(heap[local[l].data])
    BY <2>2, <2>3, VisitFacts
  <2>5. local[l].data = cache.data /\ cache.age < Ttl
    BY <2>3, <2>4 DEF QInv, Current
  <2>6. /\ heap[cache.data][tid] # None /\ heap[cache.data][tid] >= Interval
        /\ recorded[tid] \in Since /\ file[tid] \in Since \cup {None} /\ Told(tid)
    BY <2>2, <2>3, <2>4, <2>5 DEF Present, Due, SInv, TypeOK, Table, QInv
  <2>7. CASE heap[cache.data][tid] = file[tid]
    BY <2>6, <2>7, Constants DEF Told, Since
  <2>8. ASSUME NEW t \in Threads, pc[t] = "save", local[t].tid = tid
        PROVE  recorded[tid] = Interval
    <3>1. Saving(t) /\ Asking(t) /\ InPhase(t)
      BY <2>3 DEF QInv, SInv
    <3>2. t \notin Loops
      BY <2>8, <3>1 DEF InPhase, LoopPhases
    <3>3. t \notin Runners
      BY <2>6, <2>8, <3>1, Constants DEF Saving
    <3>4. t \in Commanders /\ local[t].op = "add"
      BY <2>6, <2>8, <3>1, <3>2, <3>3 DEF Saving, Threads
    <3>5. status[tid] = "asked"
      BY <2>8, <3>1, <3>4 DEF Asking, Busy
    <3>6. QED
      BY <2>6, <3>5 DEF Told
  <2>9. QED
    BY <2>3, <2>5, <2>7, <2>8 DEF QInv, Faithful
<1>2. QED
  BY <1>1, TasksKept, PTL DEF Spec, NotTooSoon
=============================================================================
