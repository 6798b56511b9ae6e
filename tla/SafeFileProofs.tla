--------------------------- MODULE SafeFileProofs ---------------------------
(***************************************************************************)
(* What holds of a JSON file and its backups for any number of processes,  *)
(* updates and faults.  What each step does to its process and to the      *)
(* files is stated once (the Facts lemmas).  The bound on the backups      *)
(* rests on one fact about each process that is pruning: the copies it has *)
(* not listed were begun since it listed them.  The guarantees about the   *)
(* file itself rest on two facts about each process: without damage none   *)
(* of them ever repairs, and what one is about to rename over the file is  *)
(* complete.  That at most one save is lost rests on the order of          *)
(* modification times: until the one fault happens, the newest backup is   *)
(* the version before the last.                                            *)
(***************************************************************************)
EXTENDS SafeFile, FiniteSetTheorems, TLAPS

\* A read's result is what the caller holds; a temporary file is complete; what a
\* process has listed was begun before; a process that the setting leaves out does
\* nothing.
InHand(p) ==
    /\ p \notin setting.procs => At(p, "idle")
    /\ At(p, "have") => result[p] = mine[p].data
    /\ At(p, "rename") => Exists(mine[p].src) /\ mine[p].src.content = mine[p].data
    /\ mine[p].seen <= made

Basic == TypeOK /\ \A p \in Procs : InHand(p)

-----------------------------------------------------------------------------
(* Types. *)

LEMMA SettingOK == ASSUME TypeOK
                   PROVE  /\ setting.procs \in SUBSET Procs /\ IsFiniteSet(setting.procs)
                          /\ setting.keep \in Nat \ {0} /\ setting.most \in Nat
                          /\ setting.saves \in 1..MaxSaves /\ MaxSaves \in Nat /\ LastSecond \in Nat
<1>1. setting \in [procs : SUBSET Procs, keep : Nat \ {0}, saves : 1..MaxSaves,
                   may : SUBSET {"crash", "damage", "disk_full"}, most : Nat]
  BY SafeFileAssumption DEF TypeOK
<1>2. QED
  BY <1>1, SafeFileAssumption, FS_Subset

LEMMA Seconds == IsFiniteSet(0..LastSecond) /\ LastSecond \in Nat
<1>1. LastSecond \in Nat
  BY SafeFileAssumption
<1>2. QED
  BY <1>1, FS_Interval

LEMMA FiniteNames == ASSUME TypeOK
                     PROVE  Names \subseteq 0..LastSecond /\ IsFiniteSet(Names)
<1>1. Names \subseteq 0..LastSecond
  BY DEF TypeOK, Names
<1>2. IsFiniteSet(0..LastSecond)
  BY Seconds
<1>3. QED
  BY <1>1, <1>2, FS_Subset

LEMMA FiniteSaved == ASSUME TypeOK, NEW S \in SUBSET saved
                     PROVE  IsFiniteSet(S) /\ Cardinality(S) \in Nat
<1>1. IsFiniteSet(1..MaxSaves)
  BY SettingOK, FS_Interval
<1>2. S \in SUBSET (1..MaxSaves)
  BY DEF TypeOK
<1>3. QED
  BY <1>1, <1>2, FS_Subset, FS_CardinalityType

LEMMA WrittenOK ==
    ASSUME TypeOK, NEW content \in Contents
    PROVE  /\ Written(content) \in Files /\ Exists(Written(content))
           /\ Written(content).content = content /\ Written(content).mtime = ticks
BY AbsentAssumption DEF TypeOK, Written, Files, Exists

LEMMA LocalsOK ==
    ASSUME TypeOK, NEW p \in Procs, NEW phase, NEW l, Goto(p, phase), Local(p, l)
    PROVE  /\ pc'[p] = phase /\ mine'[p] = l
           /\ \A q \in Procs \ {p} : pc'[q] = pc[q] /\ mine'[q] = mine[q]
           /\ phase \in Phases => pc' \in [Procs -> Phases]
           /\ l \in Locals => mine' \in [Procs -> Locals]
BY DEF TypeOK, Goto, Local

LEMMA GotoOK ==
    ASSUME TypeOK, NEW p \in Procs, NEW phase, Goto(p, phase)
    PROVE  /\ pc'[p] = phase /\ \A q \in Procs \ {p} : pc'[q] = pc[q]
           /\ phase \in Phases => pc' \in [Procs -> Phases]
BY DEF TypeOK, Goto

LEMMA NoLocalsOK ==
    ASSUME TypeOK
    PROVE  /\ NoLocals \in Locals /\ NoLocals.seen = 0
           /\ \A X \in SUBSET (1..MaxSaves) : /\ [NoLocals EXCEPT !.data = X] \in Locals
                                              /\ [NoLocals EXCEPT !.data = X].data = X
                                              /\ [NoLocals EXCEPT !.data = X].seen = 0
           /\ \A n \in 0..LastSecond : /\ [NoLocals EXCEPT !.name = n] \in Locals
                                       /\ [NoLocals EXCEPT !.name = n].name = n
                                       /\ [NoLocals EXCEPT !.name = n].seen = 0
<1>1. [n \in 0..LastSecond |-> 0] \in [0..LastSecond -> Nat] /\ 0 \in 0..LastSecond
  BY SettingOK
<1>2. NoLocals \in Locals /\ NoLocals.seen = 0
  BY <1>1 DEF NoLocals, Locals
<1>3. \A X \in SUBSET (1..MaxSaves) : /\ [NoLocals EXCEPT !.data = X] \in Locals
                                     /\ [NoLocals EXCEPT !.data = X].data = X
                                     /\ [NoLocals EXCEPT !.data = X].seen = 0
  BY <1>2 DEF Locals
<1>4. \A n \in 0..LastSecond : /\ [NoLocals EXCEPT !.name = n] \in Locals
                              /\ [NoLocals EXCEPT !.name = n].name = n
                              /\ [NoLocals EXCEPT !.name = n].seen = 0
  BY <1>2 DEF Locals
<1>5. QED
  BY <1>2, <1>3, <1>4

\* What the steps of a process leave alone
Others(p) == \A q \in Procs \ {p} : pc'[q] = pc[q] /\ mine'[q] = mine[q] /\ result'[q] = result[q]

\* The process has been given X.
Given(p, X) == /\ pc'[p] = "have" /\ mine'[p].data = X /\ result'[p] = X
               /\ mine'[p].seen = 0

LEMMA ReturnsOK ==
    ASSUME TypeOK, NEW p \in Procs, NEW X \in SUBSET (1..MaxSaves), Returns(p, X)
    PROVE  /\ pc' \in [Procs -> Phases] /\ mine' \in [Procs -> Locals]
           /\ result' \in [Procs -> SUBSET (1..MaxSaves)]
           /\ Given(p, X) /\ Others(p) /\ UNCHANGED <<saved, made, pruned>>
<1> DEFINE l == [NoLocals EXCEPT !.data = X]
<1>1. l \in Locals /\ l.data = X /\ l.seen = 0
  BY NoLocalsOK
<1>2. "have" \in Phases
  BY DEF Phases
<1>3. /\ Goto(p, "have") /\ Local(p, l) /\ UNCHANGED <<saved, made, pruned>>
      /\ result' = [result EXCEPT ![p] = X]
  BY DEF Returns
<1> HIDE DEF l
<1>4. /\ result' \in [Procs -> SUBSET (1..MaxSaves)] /\ result'[p] = X
      /\ \A q \in Procs \ {p} : result'[q] = result[q]
  BY <1>3 DEF TypeOK
<1>5. /\ pc' \in [Procs -> Phases] /\ mine' \in [Procs -> Locals] /\ pc'[p] = "have" /\ mine'[p] = l
      /\ \A q \in Procs \ {p} : pc'[q] = pc[q] /\ mine'[q] = mine[q]
  BY <1>1, <1>2, <1>3, LocalsOK
<1>6. QED
  BY <1>1, <1>3, <1>4, <1>5 DEF Given, Others

LEMMA GivesOK ==
    ASSUME TypeOK, NEW p \in Procs, NEW X \in SUBSET (1..MaxSaves), Returns(p, X),
           UNCHANGED <<file, backups, second, ticks, setting>>, faults' \in 0..setting.most
    PROVE  /\ TypeOK' /\ Others(p) /\ mine'[p].seen <= made'
           /\ Given(p, X) /\ UNCHANGED <<saved, made, pruned>>
<1>1. /\ pc' \in [Procs -> Phases] /\ mine' \in [Procs -> Locals]
      /\ result' \in [Procs -> SUBSET (1..MaxSaves)]
      /\ Given(p, X) /\ Others(p) /\ UNCHANGED <<saved, made, pruned>>
  BY ReturnsOK
<1>2. TypeOK'
  BY <1>1 DEF TypeOK
<1>3. mine'[p].seen = 0 /\ made' \in Nat
  BY <1>1, <1>2 DEF Given, TypeOK
<1>4. QED
  BY <1>1, <1>2, <1>3

\* A process that goes to a phase with new locals, or with the old ones
LEMMA MovesOK ==
    ASSUME TypeOK, NEW p \in Procs, NEW phase \in Phases, Goto(p, phase), UNCHANGED result
    PROVE  /\ \A l \in Locals : Local(p, l) =>
                /\ pc' \in [Procs -> Phases] /\ mine' \in [Procs -> Locals]
                /\ pc'[p] = phase /\ mine'[p] = l /\ Others(p)
           /\ UNCHANGED mine =>
                /\ pc' \in [Procs -> Phases] /\ mine' \in [Procs -> Locals]
                /\ pc'[p] = phase /\ Others(p)
<1>1. ASSUME NEW l \in Locals, Local(p, l)
      PROVE  /\ pc' \in [Procs -> Phases] /\ mine' \in [Procs -> Locals]
             /\ pc'[p] = phase /\ mine'[p] = l /\ Others(p)
  BY <1>1, LocalsOK DEF Others
<1>2. ASSUME UNCHANGED mine
      PROVE  /\ pc' \in [Procs -> Phases] /\ mine' \in [Procs -> Locals]
             /\ pc'[p] = phase /\ Others(p)
  BY <1>2, GotoOK DEF Others, TypeOK
<1>3. QED
  BY <1>1, <1>2

LEMMA ReadableOK == ASSUME TypeOK, Readable(file) PROVE file.content \in SUBSET (1..MaxSaves)
BY DEF TypeOK, Readable, Exists, Files, Contents

-----------------------------------------------------------------------------
(* What each step does. *)

LEMMA ReadFacts ==
    ASSUME Basic, NEW p \in Procs, Read(p)
    PROVE  /\ TypeOK' /\ Others(p) /\ mine'[p].seen <= made'
           /\ UNCHANGED <<file, backups, ticks, setting, faults, saved, made, pruned>>
           /\ pc[p] = "idle"
           /\ \/ Readable(file) /\ Given(p, file.content)
              \/ ~Exists(file) /\ Given(p, {})
              \/ Exists(file) /\ ~Readable(file) /\ pc'[p] = "find"
<1>0. /\ TypeOK /\ mine[p] \in Locals /\ made \in Nat /\ pruned \in 0..made /\ mine[p].seen <= made
      /\ mine[p].seen \in Nat /\ {} \in SUBSET (1..MaxSaves)
  BY DEF Basic, TypeOK, InHand, Locals
<1>1. UNCHANGED <<file, backups, second, ticks, setting, faults>> /\ pc[p] = "idle"
  BY DEF Read, At
<1>2. CASE Readable(file) /\ Returns(p, file.content)
  BY <1>0, <1>1, <1>2, GivesOK, ReadableOK DEF TypeOK
<1>3. CASE ~Exists(file) /\ Returns(p, {})
  BY <1>0, <1>1, <1>3, GivesOK DEF TypeOK
<1>4. CASE Exists(file) /\ ~Readable(file) /\ Goto(p, "find") /\ UNCHANGED <<mine, history>>
  <2>1. "find" \in Phases /\ UNCHANGED <<saved, result, made, pruned>>
    BY <1>4 DEF Phases, history
  <2>2. QED
    BY <1>0, <1>1, <1>4, <2>1, MovesOK DEF TypeOK
<1>5. QED
  BY <1>2, <1>3, <1>4 DEF Read

LEMMA ListFacts ==
    ASSUME Basic, NEW p \in Procs, NEW phase \in Phases, List(p, phase)
    PROVE  /\ TypeOK' /\ Others(p) /\ mine'[p].seen <= made'
           /\ UNCHANGED <<file, backups, ticks, setting, faults, saved, made, pruned>>
           /\ pc'[p] = phase
           /\ mine'[p].list = Names /\ mine'[p].seen = made /\ mine'[p].data = mine[p].data
           /\ mine'[p].name = mine[p].name
<1>0. /\ TypeOK /\ mine[p] \in Locals /\ made \in Nat /\ pruned \in 0..made /\ mine[p].seen <= made
      /\ mine[p].seen \in Nat /\ {} \in SUBSET (1..MaxSaves)
  BY DEF Basic, TypeOK, InHand, Locals
<1> DEFINE l == [mine[p] EXCEPT !.list = Names, !.seen = made]
<1>1. /\ l \in Locals /\ l.list = Names /\ l.seen = made /\ l.data = mine[p].data
      /\ l.name = mine[p].name
  BY <1>0, FiniteNames DEF Locals
<1>2. /\ Goto(p, phase) /\ Local(p, l)
      /\ UNCHANGED <<file, backups, second, ticks, setting, faults, saved, result, made, pruned>>
  BY DEF List, history
<1> HIDE DEF l
<1>3. /\ pc' \in [Procs -> Phases] /\ mine' \in [Procs -> Locals]
      /\ pc'[p] = phase /\ mine'[p] = l /\ Others(p)
  BY <1>0, <1>1, <1>2, MovesOK
<1>4. TypeOK'
  BY <1>0, <1>2, <1>3 DEF TypeOK
<1>5. QED
  BY <1>0, <1>1, <1>2, <1>3, <1>4

LEMMA FindFacts ==
    ASSUME Basic, NEW p \in Procs, FindBackup(p)
    PROVE  /\ TypeOK' /\ Others(p) /\ mine'[p].seen <= made'
           /\ UNCHANGED <<file, backups, ticks, setting, faults, saved, made, pruned>>
           /\ pc[p] = "find" /\ pc'[p] = "rank" /\ mine'[p].list = Names
<1>1. At(p, "find") /\ List(p, "rank") /\ "rank" \in Phases
  BY DEF FindBackup, Phases
<1>2. QED
  BY <1>1, ListFacts DEF At

LEMMA ListBackupsFacts ==
    ASSUME Basic, NEW p \in Procs, ListBackups(p)
    PROVE  /\ TypeOK' /\ Others(p) /\ mine'[p].seen <= made'
           /\ UNCHANGED <<file, backups, ticks, setting, faults, saved, made, pruned>>
           /\ pc[p] = "list" /\ pc'[p] = "sort"
           /\ mine'[p].list = Names /\ mine'[p].seen = made /\ mine'[p].data = mine[p].data
           /\ mine'[p].name = mine[p].name
<1>1. At(p, "list") /\ List(p, "sort") /\ "sort" \in Phases
  BY DEF ListBackups, Phases
<1>2. QED
  BY <1>1, ListFacts DEF At

LEMMA RankFacts ==
    ASSUME Basic, NEW p \in Procs, RankBackups(p)
    PROVE  /\ TypeOK' /\ Others(p) /\ mine'[p].seen <= made'
           /\ UNCHANGED <<file, backups, ticks, setting, faults, saved, made, pruned>>
           /\ pc[p] = "rank"
           /\ \/ mine[p].list = {} /\ Given(p, {})
              \/ /\ mine[p].list \subseteq Names /\ pc'[p] = "restore"
                 /\ mine'[p].name \in Newest(mine[p].list)
              \/ ~(mine[p].list \subseteq Names) /\ pc'[p] = "idle"
<1>0. /\ TypeOK /\ mine[p] \in Locals /\ made \in Nat /\ pruned \in 0..made /\ mine[p].seen <= made
      /\ mine[p].seen \in Nat /\ {} \in SUBSET (1..MaxSaves)
  BY DEF Basic, TypeOK, InHand, Locals
<1>1. UNCHANGED <<file, backups, second, ticks, setting, faults>> /\ pc[p] = "rank"
  BY DEF RankBackups, At
<1>2. CASE mine[p].list = {} /\ Returns(p, {})
  BY <1>0, <1>1, <1>2, GivesOK DEF TypeOK
<1>3. CASE /\ mine[p].list \subseteq Names /\ UNCHANGED history
           /\ \E n \in Newest(mine[p].list) :
                Goto(p, "restore") /\ Local(p, [NoLocals EXCEPT !.name = n])
  <2>1. PICK n \in Newest(mine[p].list) : Goto(p, "restore") /\ Local(p, [NoLocals EXCEPT !.name = n])
    BY <1>3
  <2> DEFINE l == [NoLocals EXCEPT !.name = n]
  <2>2. n \in 0..LastSecond
    BY <1>0 DEF Newest, Locals
  <2>3. l \in Locals /\ l.name = n /\ l.seen = 0
    BY <1>0, <2>2, NoLocalsOK
  <2>4. "restore" \in Phases /\ UNCHANGED <<saved, result, made, pruned>> /\ Local(p, l)
    BY <1>3, <2>1 DEF Phases, history
  <2> HIDE DEF l
  <2>5. /\ pc' \in [Procs -> Phases] /\ mine' \in [Procs -> Locals]
        /\ pc'[p] = "restore" /\ mine'[p] = l /\ Others(p)
    BY <1>0, <2>1, <2>3, <2>4, MovesOK
  <2>6. TypeOK'
    BY <1>0, <1>1, <2>4, <2>5 DEF TypeOK
  <2>7. QED
    BY <1>0, <1>1, <1>3, <2>3, <2>4, <2>5, <2>6
<1>4. CASE /\ ~(mine[p].list \subseteq Names) /\ Goto(p, "idle") /\ Local(p, NoLocals)
           /\ UNCHANGED history
  <2>1. "idle" \in Phases /\ UNCHANGED <<saved, result, made, pruned>>
    BY <1>4 DEF Phases, history
  <2>2. /\ pc' \in [Procs -> Phases] /\ mine' \in [Procs -> Locals]
        /\ pc'[p] = "idle" /\ mine'[p] = NoLocals /\ Others(p)
    BY <1>0, <1>4, <2>1, NoLocalsOK, MovesOK
  <2>3. TypeOK'
    BY <1>0, <1>1, <2>1, <2>2 DEF TypeOK
  <2>4. QED
    BY <1>0, <1>1, <1>4, <2>1, <2>2, <2>3, NoLocalsOK
<1>5. QED
  BY <1>2, <1>3, <1>4 DEF RankBackups

LEMMA RestoreFacts ==
    ASSUME Basic, NEW p \in Procs, Restore(p)
    PROVE  /\ TypeOK' /\ Others(p) /\ mine'[p].seen <= made'
           /\ UNCHANGED <<backups, setting, faults, saved, made, pruned>> /\ pc[p] = "restore"
           /\ \/ /\ Exists(backups[mine[p].name]) /\ pc'[p] = "copying"
                 /\ mine'[p].src = backups[mine[p].name]
              \/ ~Exists(backups[mine[p].name]) /\ Given(p, {}) /\ UNCHANGED <<file, ticks>>
<1>0. /\ TypeOK /\ mine[p] \in Locals /\ made \in Nat /\ pruned \in 0..made /\ mine[p].seen <= made
      /\ mine[p].seen \in Nat /\ {} \in SUBSET (1..MaxSaves)
  BY DEF Basic, TypeOK, InHand, Locals
<1>1. UNCHANGED <<backups, second, setting, faults>> /\ pc[p] = "restore"
  BY DEF Restore, At
<1>2. PICK b : b = backups[mine[p].name]
  OBVIOUS
<1>3. CASE Exists(b)
  <2> DEFINE l == [mine[p] EXCEPT !.src = b]
  <2>1. b \in Files
    BY <1>0, <1>2, <1>3 DEF TypeOK, Locals, Exists
  <2>2. l \in Locals /\ l.src = b /\ l.seen = mine[p].seen
    BY <1>0, <2>1 DEF Locals
  <2>3. Written(Bad) \in Files
    BY <1>0, WrittenOK DEF Contents
  <2>4. /\ file' = Written(Bad) /\ ticks' = ticks + 1 /\ Goto(p, "copying") /\ Local(p, l)
        /\ UNCHANGED <<saved, result, made, pruned>> /\ "copying" \in Phases
    BY <1>2, <1>3 DEF Restore, history, Phases
  <2> HIDE DEF l
  <2>5. /\ pc' \in [Procs -> Phases] /\ mine' \in [Procs -> Locals]
        /\ pc'[p] = "copying" /\ mine'[p] = l /\ Others(p)
    BY <1>0, <2>2, <2>4, MovesOK
  <2>6. TypeOK'
    BY <1>0, <1>1, <2>3, <2>4, <2>5 DEF TypeOK
  <2>7. QED
    BY <1>0, <1>1, <1>2, <1>3, <2>2, <2>4, <2>5, <2>6
<1>4. CASE ~Exists(b)
  <2>1. Returns(p, {}) /\ UNCHANGED <<file, ticks>>
    BY <1>2, <1>4 DEF Restore
  <2>2. QED
    BY <1>0, <1>1, <1>2, <1>4, <2>1, GivesOK DEF TypeOK
<1>5. QED
  BY <1>3, <1>4

LEMMA CopyBackFacts ==
    ASSUME Basic, NEW p \in Procs, CopyBack(p)
    PROVE  /\ TypeOK' /\ Others(p) /\ mine'[p].seen <= made'
           /\ UNCHANGED <<backups, setting, faults, saved, made, pruned, mine>>
           /\ pc[p] = "copying" /\ pc'[p] = "reread" /\ file' = mine[p].src
<1>0. /\ TypeOK /\ mine[p] \in Locals /\ made \in Nat /\ pruned \in 0..made /\ mine[p].seen <= made
      /\ mine[p].seen \in Nat /\ {} \in SUBSET (1..MaxSaves)
  BY DEF Basic, TypeOK, InHand, Locals
<1>1. /\ UNCHANGED <<backups, second, ticks, setting, faults, mine, saved, result, made, pruned>>
      /\ pc[p] = "copying" /\ Goto(p, "reread") /\ file' = mine[p].src /\ "reread" \in Phases
  BY DEF CopyBack, At, history, Phases
<1>2. file' \in Files \cup {Absent}
  BY <1>0, <1>1 DEF Locals
<1>3. QED
  BY <1>0, <1>1, <1>2, MovesOK DEF TypeOK

LEMMA RereadFacts ==
    ASSUME Basic, NEW p \in Procs, Reread(p)
    PROVE  /\ TypeOK' /\ Others(p) /\ mine'[p].seen <= made'
           /\ UNCHANGED <<file, backups, setting, faults, saved, made, pruned>>
           /\ pc[p] = "reread" /\ Given(p, IF Readable(file) THEN file.content ELSE {})
<1>0. /\ TypeOK /\ mine[p] \in Locals /\ made \in Nat /\ pruned \in 0..made /\ mine[p].seen <= made
      /\ mine[p].seen \in Nat /\ {} \in SUBSET (1..MaxSaves)
  BY DEF Basic, TypeOK, InHand, Locals
<1>1. (IF Readable(file) THEN file.content ELSE {}) \in SUBSET (1..MaxSaves)
  BY <1>0, ReadableOK
<1>2. /\ UNCHANGED <<file, backups, second, ticks, setting, faults>> /\ pc[p] = "reread"
      /\ Returns(p, IF Readable(file) THEN file.content ELSE {})
  BY DEF Reread, At
<1>3. QED
  BY <1>0, <1>1, <1>2, GivesOK DEF TypeOK

LEMMA UpdateFacts ==
    ASSUME Basic, NEW p \in Procs, Update(p)
    PROVE  /\ TypeOK' /\ Others(p) /\ mine'[p].seen <= made'
           /\ UNCHANGED <<file, backups, ticks, setting, faults, saved, made, pruned>>
           /\ pc[p] = "have" /\ pc'[p] = "backup"
           /\ \E u : mine'[p].data = mine[p].data \cup {u}
<1>0. /\ TypeOK /\ mine[p] \in Locals /\ made \in Nat /\ pruned \in 0..made /\ mine[p].seen <= made
      /\ mine[p].seen \in Nat /\ {} \in SUBSET (1..MaxSaves)
  BY DEF Basic, TypeOK, InHand, Locals
<1>1. PICK u \in 1..setting.saves : Local(p, [mine[p] EXCEPT !.data = @ \cup {u}])
  BY DEF Update
<1>2. /\ UNCHANGED <<file, backups, second, ticks, setting, faults, saved, result, made, pruned>>
      /\ pc[p] = "have" /\ Goto(p, "backup") /\ "backup" \in Phases
  BY DEF Update, At, history, Phases
<1> DEFINE l == [mine[p] EXCEPT !.data = @ \cup {u}]
<1>3. u \in 1..MaxSaves
  BY <1>0, SettingOK
<1>4. l \in Locals /\ l.data = mine[p].data \cup {u} /\ l.seen = mine[p].seen
  BY <1>0, <1>3 DEF Locals
<1>5. Local(p, l)
  BY <1>1
<1> HIDE DEF l
<1>6. /\ pc' \in [Procs -> Phases] /\ mine' \in [Procs -> Locals]
      /\ pc'[p] = "backup" /\ mine'[p] = l /\ Others(p)
  BY <1>0, <1>2, <1>4, <1>5, MovesOK
<1>7. TypeOK'
  BY <1>0, <1>2, <1>6 DEF TypeOK
<1>8. QED
  BY <1>0, <1>2, <1>4, <1>6, <1>7

LEMMA ReadOnlyFacts ==
    ASSUME Basic, NEW p \in Procs, ReadOnly(p)
    PROVE  /\ TypeOK' /\ Others(p) /\ mine'[p].seen <= made'
           /\ UNCHANGED <<file, backups, ticks, setting, faults, saved, made, pruned>>
           /\ pc[p] = "have" /\ pc'[p] = "idle"
<1>0. /\ TypeOK /\ mine[p] \in Locals /\ made \in Nat /\ pruned \in 0..made /\ mine[p].seen <= made
      /\ mine[p].seen \in Nat /\ {} \in SUBSET (1..MaxSaves)
  BY DEF Basic, TypeOK, InHand, Locals
<1>1. /\ UNCHANGED <<file, backups, second, ticks, setting, faults, saved, result, made, pruned>>
      /\ pc[p] = "have" /\ Goto(p, "idle") /\ Local(p, NoLocals) /\ "idle" \in Phases
  BY DEF ReadOnly, At, history, Phases
<1>2. /\ pc' \in [Procs -> Phases] /\ mine' \in [Procs -> Locals]
      /\ pc'[p] = "idle" /\ mine'[p] = NoLocals /\ Others(p)
  BY <1>0, <1>1, NoLocalsOK, MovesOK
<1>3. QED
  BY <1>0, <1>1, <1>2, NoLocalsOK DEF TypeOK

LEMMA OpenFacts ==
    ASSUME Basic, NEW p \in Procs, OpenBackup(p)
    PROVE  /\ TypeOK' /\ Others(p) /\ mine'[p].seen <= made'
           /\ UNCHANGED <<file, setting, faults, saved, pruned>>
           /\ pc[p] = "backup" /\ mine'[p].data = mine[p].data
           /\ \/ /\ Exists(file) /\ pc'[p] = "backing"
                 /\ mine'[p].src = file /\ mine'[p].name = second
                 /\ backups' = [backups EXCEPT ![second] = Written(Bad)]
                 /\ ticks' = ticks + 1 /\ made' = made + 1
              \/ /\ ~Exists(file) /\ pc'[p] = "write" /\ UNCHANGED <<backups, ticks, made, mine>>
<1>0. /\ TypeOK /\ mine[p] \in Locals /\ made \in Nat /\ pruned \in 0..made /\ mine[p].seen <= made
      /\ mine[p].seen \in Nat /\ {} \in SUBSET (1..MaxSaves)
  BY DEF Basic, TypeOK, InHand, Locals
<1>1. /\ UNCHANGED <<file, second, setting, faults, saved, result, pruned>> /\ pc[p] = "backup"
  BY DEF OpenBackup, At
<1>2. CASE Exists(file)
  <2> DEFINE l == [mine[p] EXCEPT !.src = file, !.name = second]
  <2>1. l \in Locals /\ l.src = file /\ l.name = second /\ l.data = mine[p].data /\ l.seen = mine[p].seen
    BY <1>0 DEF Locals, TypeOK
  <2>2. Written(Bad) \in Files
    BY <1>0, WrittenOK DEF Contents
  <2>3. /\ backups' = [backups EXCEPT ![second] = Written(Bad)] /\ ticks' = ticks + 1 /\ made' = made + 1
        /\ Local(p, l) /\ Goto(p, "backing") /\ "backing" \in Phases
    BY <1>2 DEF OpenBackup, Phases
  <2>4. backups' \in [0..LastSecond -> Files \cup {Absent}] /\ ticks' \in Nat
    BY <1>0, <2>2, <2>3 DEF TypeOK
  <2> HIDE DEF l
  <2>5. /\ pc' \in [Procs -> Phases] /\ mine' \in [Procs -> Locals]
        /\ pc'[p] = "backing" /\ mine'[p] = l /\ Others(p)
    BY <1>0, <1>1, <2>1, <2>3, MovesOK
  <2>6. made' \in Nat /\ pruned' \in 0..made' /\ mine[p].seen <= made'
    BY <1>0, <1>1, <2>3
  <2>7. TypeOK'
    BY <1>0, <1>1, <2>4, <2>5, <2>6 DEF TypeOK
  <2>8. QED
    BY <1>1, <1>2, <2>1, <2>3, <2>5, <2>6, <2>7
<1>3. CASE ~Exists(file)
  <2>1. UNCHANGED <<backups, ticks, made, mine>> /\ Goto(p, "write") /\ "write" \in Phases
    BY <1>3 DEF OpenBackup, Phases
  <2>2. QED
    BY <1>0, <1>1, <1>3, <2>1, MovesOK DEF TypeOK
<1>4. QED
  BY <1>2, <1>3

LEMMA CopyFacts ==
    ASSUME Basic, NEW p \in Procs, CopyToBackup(p)
    PROVE  /\ TypeOK' /\ Others(p) /\ mine'[p].seen <= made'
           /\ UNCHANGED <<file, ticks, setting, faults, saved, made, pruned, mine>>
           /\ pc[p] = "backing"
           /\ \/ /\ Exists(backups[mine[p].name]) /\ pc'[p] = "list"
                 /\ backups' = [backups EXCEPT ![mine[p].name] = mine[p].src]
              \/ /\ ~Exists(backups[mine[p].name]) /\ pc'[p] = "write" /\ UNCHANGED backups
<1>0. /\ TypeOK /\ mine[p] \in Locals /\ made \in Nat /\ pruned \in 0..made /\ mine[p].seen <= made
      /\ mine[p].seen \in Nat /\ {} \in SUBSET (1..MaxSaves)
  BY DEF Basic, TypeOK, InHand, Locals
<1>1. /\ UNCHANGED <<file, second, ticks, setting, faults, mine, saved, result, made, pruned>>
      /\ pc[p] = "backing" /\ {"list", "write"} \subseteq Phases
  BY DEF CopyToBackup, At, history, Phases
<1>2. CASE Exists(backups[mine[p].name])
  <2>1. Goto(p, "list") /\ backups' = [backups EXCEPT ![mine[p].name] = mine[p].src]
    BY <1>2 DEF CopyToBackup
  <2>2. backups' \in [0..LastSecond -> Files \cup {Absent}]
    BY <1>0, <2>1 DEF TypeOK, Locals
  <2>3. QED
    BY <1>0, <1>1, <1>2, <2>1, <2>2, MovesOK DEF TypeOK
<1>3. CASE ~Exists(backups[mine[p].name])
  <2>1. Goto(p, "write") /\ UNCHANGED backups
    BY <1>3 DEF CopyToBackup
  <2>2. QED
    BY <1>0, <1>1, <1>3, <2>1, MovesOK DEF TypeOK
<1>4. QED
  BY <1>2, <1>3

\* The end of a prune, or the next unlink
LEMMA PruneOnFacts ==
    ASSUME Basic, NEW p \in Procs, NEW list, PruneOn(p, list)
    PROVE  \/ TooMany(list) /\ Goto(p, "unlink") /\ UNCHANGED pruned
           \/ /\ ~TooMany(list) /\ Goto(p, "write") /\ pruned' \in 0..made
              /\ pruned' = pruned \/ pruned' = mine[p].seen
<1>0. /\ TypeOK /\ mine[p] \in Locals /\ made \in Nat /\ pruned \in 0..made /\ mine[p].seen <= made
      /\ mine[p].seen \in Nat /\ {} \in SUBSET (1..MaxSaves)
  BY DEF Basic, TypeOK, InHand, Locals
<1>1. QED
  BY <1>0 DEF PruneOn

LEMMA SortFacts ==
    ASSUME Basic, NEW p \in Procs, SortBackups(p)
    PROVE  /\ TypeOK' /\ Others(p) /\ mine'[p].seen <= made'
           /\ UNCHANGED <<file, backups, ticks, setting, faults, saved, made>> /\ pc[p] = "sort"
           /\ mine'[p].list = mine[p].list /\ mine'[p].data = mine[p].data
           /\ mine'[p].name = mine[p].name /\ mine'[p].seen = mine[p].seen
           /\ \/ /\ mine[p].list \subseteq Names /\ TooMany(mine[p].list) /\ pc'[p] = "unlink"
                 /\ \A n \in mine[p].list : mine'[p].times[n] = backups[n].mtime
                 /\ UNCHANGED pruned
              \/ /\ mine[p].list \subseteq Names /\ ~TooMany(mine[p].list) /\ pc'[p] = "write"
                 /\ pruned' = pruned \/ pruned' = mine[p].seen
              \/ ~(mine[p].list \subseteq Names) /\ pc'[p] = "write" /\ UNCHANGED pruned
<1>0. /\ TypeOK /\ mine[p] \in Locals /\ made \in Nat /\ pruned \in 0..made /\ mine[p].seen <= made
      /\ mine[p].seen \in Nat /\ {} \in SUBSET (1..MaxSaves)
  BY DEF Basic, TypeOK, InHand, Locals
<1>1. /\ UNCHANGED <<file, backups, second, ticks, setting, faults, saved, result, made>>
      /\ pc[p] = "sort" /\ {"unlink", "write"} \subseteq Phases
  BY DEF SortBackups, At, Phases
<1>2. CASE mine[p].list \subseteq Names
  <2> DEFINE t == [n \in 0..LastSecond |-> IF n \in mine[p].list THEN backups[n].mtime ELSE 0]
             l == [mine[p] EXCEPT !.times = t]
  <2>1. \A n \in mine[p].list : backups[n].mtime \in Nat
    BY <1>0, <1>2 DEF Names, Exists, TypeOK, Files
  <2>2. t \in [0..LastSecond -> Nat]
    BY <2>1
  <2>3. \A n \in mine[p].list : t[n] = backups[n].mtime
    BY <1>0 DEF Locals
  <2>4. Local(p, l) /\ PruneOn(p, mine[p].list)
    BY <1>2 DEF SortBackups
  <2> HIDE DEF t
  <2>5. /\ l \in Locals /\ l.list = mine[p].list /\ l.data = mine[p].data /\ l.name = mine[p].name
        /\ l.seen = mine[p].seen /\ l.times = t
    BY <1>0, <2>2 DEF Locals
  <2> HIDE DEF l
  <2>6. CASE TooMany(mine[p].list) /\ Goto(p, "unlink") /\ UNCHANGED pruned
    <3>1. /\ pc' \in [Procs -> Phases] /\ mine' \in [Procs -> Locals]
          /\ pc'[p] = "unlink" /\ mine'[p] = l /\ Others(p)
      BY <1>0, <1>1, <2>4, <2>5, <2>6, MovesOK
    <3>2. TypeOK'
      BY <1>0, <1>1, <2>6, <3>1 DEF TypeOK
    <3>3. QED
      BY <1>0, <1>1, <1>2, <2>3, <2>5, <2>6, <3>1, <3>2
  <2>7. CASE /\ ~TooMany(mine[p].list) /\ Goto(p, "write") /\ pruned' \in 0..made
             /\ pruned' = pruned \/ pruned' = mine[p].seen
    <3>1. /\ pc' \in [Procs -> Phases] /\ mine' \in [Procs -> Locals]
          /\ pc'[p] = "write" /\ mine'[p] = l /\ Others(p)
      BY <1>0, <1>1, <2>4, <2>5, <2>7, MovesOK
    <3>2. TypeOK'
      BY <1>0, <1>1, <2>7, <3>1 DEF TypeOK
    <3>3. QED
      BY <1>0, <1>1, <1>2, <2>5, <2>7, <3>1, <3>2
  <2>8. QED
    BY <2>4, <2>6, <2>7, PruneOnFacts
<1>3. CASE ~(mine[p].list \subseteq Names)
  <2>1. Goto(p, "write") /\ UNCHANGED <<mine, pruned>>
    BY <1>3 DEF SortBackups
  <2>2. QED
    BY <1>0, <1>1, <1>3, <2>1, MovesOK DEF TypeOK
<1>4. QED
  BY <1>2, <1>3

LEMMA UnlinkFacts ==
    ASSUME Basic, NEW p \in Procs, UnlinkOldest(p)
    PROVE  /\ TypeOK' /\ Others(p) /\ mine'[p].seen <= made'
           /\ UNCHANGED <<file, ticks, setting, faults, saved, made>> /\ pc[p] = "unlink"
           /\ mine'[p].data = mine[p].data /\ mine'[p].name = mine[p].name
           /\ mine'[p].seen = mine[p].seen /\ mine'[p].times = mine[p].times
           /\ \E n \in Oldest(mine[p]) :
                \/ /\ Exists(backups[n]) /\ backups' = [backups EXCEPT ![n] = Absent]
                   /\ mine'[p].list = mine[p].list \ {n}
                   /\ \/ TooMany(mine'[p].list) /\ pc'[p] = "unlink" /\ UNCHANGED pruned
                      \/ /\ ~TooMany(mine'[p].list) /\ pc'[p] = "write"
                         /\ pruned' = pruned \/ pruned' = mine[p].seen
                \/ ~Exists(backups[n]) /\ pc'[p] = "write" /\ UNCHANGED <<backups, pruned>>
<1>0. /\ TypeOK /\ mine[p] \in Locals /\ made \in Nat /\ pruned \in 0..made /\ mine[p].seen <= made
      /\ mine[p].seen \in Nat /\ {} \in SUBSET (1..MaxSaves)
  BY DEF Basic, TypeOK, InHand, Locals
<1>1. /\ UNCHANGED <<file, second, ticks, setting, faults, saved, result, made>>
      /\ pc[p] = "unlink" /\ {"unlink", "write"} \subseteq Phases
  BY DEF UnlinkOldest, At, Phases
<1>2. PICK n \in Oldest(mine[p]) :
        \/ /\ Exists(backups[n]) /\ backups' = [backups EXCEPT ![n] = Absent]
           /\ Local(p, [mine[p] EXCEPT !.list = @ \ {n}])
           /\ PruneOn(p, mine[p].list \ {n})
        \/ /\ ~Exists(backups[n]) /\ Goto(p, "write") /\ UNCHANGED <<backups, mine, pruned>>
  BY DEF UnlinkOldest
<1>3. CASE Exists(backups[n])
  <2> DEFINE l == [mine[p] EXCEPT !.list = @ \ {n}]
  <2>1. /\ l \in Locals /\ l.list = mine[p].list \ {n} /\ l.data = mine[p].data
        /\ l.name = mine[p].name /\ l.seen = mine[p].seen /\ l.times = mine[p].times
    BY <1>0 DEF Locals
  <2>2. /\ backups' = [backups EXCEPT ![n] = Absent] /\ Local(p, l)
        /\ PruneOn(p, mine[p].list \ {n})
    BY <1>2, <1>3
  <2>3. backups' \in [0..LastSecond -> Files \cup {Absent}]
    BY <1>0, <2>2 DEF TypeOK
  <2> HIDE DEF l
  <2>4. CASE TooMany(mine[p].list \ {n}) /\ Goto(p, "unlink") /\ UNCHANGED pruned
    <3>1. /\ pc' \in [Procs -> Phases] /\ mine' \in [Procs -> Locals]
          /\ pc'[p] = "unlink" /\ mine'[p] = l /\ Others(p)
      BY <1>0, <1>1, <2>1, <2>2, <2>4, MovesOK
    <3>2. TypeOK'
      BY <1>0, <1>1, <2>3, <2>4, <3>1 DEF TypeOK
    <3>3. mine'[p].list = mine[p].list \ {n} /\ TooMany(mine'[p].list)
      BY <1>1, <2>1, <2>4, <3>1
    <3>4. QED
      BY <1>0, <1>1, <1>3, <2>1, <2>2, <2>4, <3>1, <3>2, <3>3
  <2>5. CASE /\ ~TooMany(mine[p].list \ {n}) /\ Goto(p, "write") /\ pruned' \in 0..made
             /\ pruned' = pruned \/ pruned' = mine[p].seen
    <3>1. /\ pc' \in [Procs -> Phases] /\ mine' \in [Procs -> Locals]
          /\ pc'[p] = "write" /\ mine'[p] = l /\ Others(p)
      BY <1>0, <1>1, <2>1, <2>2, <2>5, MovesOK
    <3>2. TypeOK'
      BY <1>0, <1>1, <2>3, <2>5, <3>1 DEF TypeOK
    <3>3. mine'[p].list = mine[p].list \ {n} /\ ~TooMany(mine'[p].list)
      BY <1>1, <2>1, <2>5, <3>1
    <3>4. QED
      BY <1>0, <1>1, <1>3, <2>1, <2>2, <2>5, <3>1, <3>2, <3>3
  <2>6. QED
    BY <2>2, <2>4, <2>5, PruneOnFacts
<1>4. CASE ~Exists(backups[n])
  <2>1. Goto(p, "write") /\ UNCHANGED <<backups, mine, pruned>>
    BY <1>2, <1>4
  <2>2. QED
    BY <1>0, <1>1, <1>2, <1>4, <2>1, MovesOK DEF TypeOK
<1>5. QED
  BY <1>3, <1>4

LEMMA WriteFacts ==
    ASSUME Basic, NEW p \in Procs, WriteTemp(p)
    PROVE  /\ TypeOK' /\ Others(p) /\ mine'[p].seen <= made'
           /\ UNCHANGED <<file, backups, setting, faults, saved, made, pruned>>
           /\ ticks' = ticks + 1 /\ pc[p] = "write" /\ pc'[p] = "rename"
           /\ mine'[p].data = mine[p].data /\ mine'[p].src = Written(mine[p].data)
<1>0. /\ TypeOK /\ mine[p] \in Locals /\ made \in Nat /\ pruned \in 0..made /\ mine[p].seen <= made
      /\ mine[p].seen \in Nat /\ {} \in SUBSET (1..MaxSaves)
  BY DEF Basic, TypeOK, InHand, Locals
<1> DEFINE l == [mine[p] EXCEPT !.src = Written(mine[p].data)]
<1>1. Written(mine[p].data) \in Files
  BY <1>0, WrittenOK DEF Locals, Contents
<1>2. l \in Locals /\ l.src = Written(mine[p].data) /\ l.data = mine[p].data /\ l.seen = mine[p].seen
  BY <1>0, <1>1 DEF Locals
<1>3. /\ Goto(p, "rename") /\ Local(p, l) /\ ticks' = ticks + 1 /\ pc[p] = "write"
      /\ UNCHANGED <<file, backups, second, setting, faults, saved, result, made, pruned>>
      /\ "rename" \in Phases
  BY DEF WriteTemp, At, history, Phases
<1> HIDE DEF l
<1>4. /\ pc' \in [Procs -> Phases] /\ mine' \in [Procs -> Locals]
      /\ pc'[p] = "rename" /\ mine'[p] = l /\ Others(p)
  BY <1>0, <1>2, <1>3, MovesOK
<1>5. TypeOK'
  BY <1>0, <1>3, <1>4 DEF TypeOK
<1>6. QED
  BY <1>0, <1>2, <1>3, <1>4, <1>5

LEMMA RenameFacts ==
    ASSUME Basic, NEW p \in Procs, Rename(p)
    PROVE  /\ TypeOK' /\ Others(p) /\ mine'[p].seen <= made'
           /\ UNCHANGED <<backups, ticks, setting, faults, made, pruned>>
           /\ pc[p] = "rename" /\ pc'[p] = "idle"
           /\ file' = mine[p].src /\ saved' = saved \cup mine[p].data
<1>0. /\ TypeOK /\ mine[p] \in Locals /\ made \in Nat /\ pruned \in 0..made /\ mine[p].seen <= made
      /\ mine[p].seen \in Nat /\ {} \in SUBSET (1..MaxSaves)
  BY DEF Basic, TypeOK, InHand, Locals
<1>1. /\ UNCHANGED <<backups, second, ticks, setting, faults, result, made, pruned>>
      /\ pc[p] = "rename" /\ Goto(p, "idle") /\ Local(p, NoLocals) /\ "idle" \in Phases
      /\ file' = mine[p].src /\ saved' = saved \cup mine[p].data
  BY DEF Rename, Finish, At, Phases
<1>2. /\ pc' \in [Procs -> Phases] /\ mine' \in [Procs -> Locals]
      /\ pc'[p] = "idle" /\ mine'[p] = NoLocals /\ Others(p)
  BY <1>0, <1>1, NoLocalsOK, MovesOK
<1>3. file' \in Files \cup {Absent} /\ saved' \subseteq 1..MaxSaves
  BY <1>0, <1>1 DEF Locals, TypeOK
<1>4. QED
  BY <1>0, <1>1, <1>2, <1>3, NoLocalsOK DEF TypeOK

LEMMA FaultFacts ==
    ASSUME Basic, NEW p \in Procs, DiskFull(p) \/ Crash(p)
    PROVE  /\ TypeOK' /\ Others(p) /\ mine'[p].seen <= made'
           /\ UNCHANGED <<file, backups, ticks, setting, saved, made, pruned>> /\ faults' = faults + 1
           /\ \/ pc'[p] = "idle"
              \/ pc[p] \in {"backup", "backing"} /\ pc'[p] = "write" /\ UNCHANGED mine
              \/ pc[p] \in {"restore", "copying"} /\ Given(p, {})
<1>0. /\ TypeOK /\ mine[p] \in Locals /\ made \in Nat /\ pruned \in 0..made /\ mine[p].seen <= made
      /\ mine[p].seen \in Nat /\ {} \in SUBSET (1..MaxSaves)
  BY DEF Basic, TypeOK, InHand, Locals
<1>1. /\ UNCHANGED <<file, backups, second, ticks, setting>> /\ faults' = faults + 1
      /\ faults < setting.most /\ {"idle", "write"} \subseteq Phases
  BY DEF DiskFull, Crash, Fault, Phases
<1>2. faults' \in 0..setting.most
  BY <1>0, <1>1, SettingOK DEF TypeOK
<1>3. CASE Goto(p, "idle") /\ Local(p, NoLocals) /\ UNCHANGED history
  <2>1. UNCHANGED <<saved, result, made, pruned>>
    BY <1>3 DEF history
  <2>2. /\ pc' \in [Procs -> Phases] /\ mine' \in [Procs -> Locals]
        /\ pc'[p] = "idle" /\ mine'[p] = NoLocals /\ Others(p)
    BY <1>0, <1>1, <1>3, <2>1, NoLocalsOK, MovesOK
  <2>3. TypeOK'
    BY <1>0, <1>1, <1>2, <2>1, <2>2 DEF TypeOK
  <2>4. QED
    BY <1>0, <1>1, <2>1, <2>2, <2>3, NoLocalsOK
<1>4. CASE /\ pc[p] \in {"backup", "backing"} /\ Goto(p, "write") /\ UNCHANGED <<mine, history>>
  <2>1. UNCHANGED <<saved, result, made, pruned>>
    BY <1>4 DEF history
  <2>2. /\ pc' \in [Procs -> Phases] /\ mine' \in [Procs -> Locals]
        /\ pc'[p] = "write" /\ Others(p)
    BY <1>0, <1>1, <1>4, <2>1, MovesOK
  <2>3. TypeOK'
    BY <1>0, <1>1, <1>2, <2>1, <2>2 DEF TypeOK
  <2>4. QED
    BY <1>0, <1>1, <1>4, <2>1, <2>2, <2>3
<1>5. CASE pc[p] \in {"restore", "copying"} /\ Returns(p, {})
  BY <1>0, <1>1, <1>2, <1>5, GivesOK
<1>6. QED
  BY <1>3, <1>4, <1>5 DEF DiskFull, Crash, At

LEMMA OutsideFacts ==
    ASSUME Basic, NextSecond \/ Damage \/ UNCHANGED vars
    PROVE  /\ TypeOK' /\ UNCHANGED <<backups, setting, pc, mine, saved, result, made, pruned>>
           /\ \/ UNCHANGED <<file, ticks, faults>>
              \/ /\ Damage /\ Readable(file) /\ file' = Written(Bad) /\ ticks' = ticks + 1
                 /\ faults' = faults + 1 /\ "damage" \in setting.may
<1>1. TypeOK
  BY DEF Basic
<1>2. CASE NextSecond
  BY <1>1, <1>2, SettingOK DEF NextSecond, history, TypeOK
<1>3. CASE Damage
  <2>1. Written(Bad) \in Files
    BY <1>1, WrittenOK DEF Contents
  <2>2. faults' \in 0..setting.most
    BY <1>1, <1>3, SettingOK DEF TypeOK, Damage, Fault
  <2>3. QED
    BY <1>1, <1>3, <2>1, <2>2 DEF Damage, Fault, history, TypeOK
<1>4. CASE UNCHANGED vars
  BY <1>1, <1>4 DEF vars, history, TypeOK
<1>5. QED
  BY <1>2, <1>3, <1>4

-----------------------------------------------------------------------------
(* Type correctness. *)

LEMMA StepBasic == ASSUME Basic, NEW p \in setting.procs, Step(p) PROVE Basic'
<1>0. p \in Procs /\ TypeOK /\ mine[p] \in Locals
  BY SettingOK DEF Basic, TypeOK
<1>1. SUFFICES /\ TypeOK' /\ Others(p) /\ UNCHANGED setting /\ made' \in Nat /\ made' >= made
               /\ InHand(p)'
  <2>1. ASSUME Others(p), UNCHANGED setting, made' \in Nat, made' >= made, NEW q \in Procs \ {p}
        PROVE  InHand(q)'
    <3>1. InHand(q) /\ pc'[q] = pc[q] /\ mine'[q] = mine[q] /\ result'[q] = result[q]
      BY <2>1 DEF Basic, Others
    <3>2. mine[q].seen \in Nat /\ made \in Nat
      BY <1>0 DEF TypeOK, Locals
    <3>3. mine[q].seen <= made'
      BY <2>1, <3>1, <3>2 DEF InHand
    <3>4. QED
      BY <2>1, <3>1, <3>3 DEF InHand, At, Exists
  <2>2. QED
    BY <1>0, <2>1 DEF Basic
<1>2. made \in Nat
  BY <1>0 DEF TypeOK
<1>3. CASE Read(p) \/ FindBackup(p) \/ RankBackups(p) \/ Restore(p) \/ CopyBack(p) \/ Reread(p)
  <2>1. ASSUME NEW X, TypeOK', Others(p), UNCHANGED <<setting, made>>, mine'[p].seen <= made', Given(p, X)
        PROVE  /\ TypeOK' /\ Others(p) /\ UNCHANGED setting /\ made' \in Nat /\ made' >= made
               /\ InHand(p)'
    BY <1>0, <1>2, <2>1 DEF InHand, At, Given
  <2>2. CASE Read(p)
    BY <1>0, <1>2, <2>1, <2>2, ReadFacts DEF InHand, At
  <2>3. CASE RankBackups(p)
    BY <1>0, <1>2, <2>1, <2>3, RankFacts DEF InHand, At
  <2>4. CASE Restore(p)
    BY <1>0, <1>2, <2>1, <2>4, RestoreFacts DEF InHand, At
  <2>5. CASE Reread(p)
    BY <1>0, <1>2, <2>1, <2>5, RereadFacts
  <2>6. CASE FindBackup(p) \/ CopyBack(p)
    BY <1>0, <1>2, <2>6, FindFacts, CopyBackFacts DEF InHand, At
  <2>7. QED
    BY <1>3, <2>2, <2>3, <2>4, <2>5, <2>6
<1>4. CASE Update(p) \/ ReadOnly(p) \/ OpenBackup(p) \/ CopyToBackup(p) \/ ListBackups(p)
  BY <1>0, <1>2, <1>4, UpdateFacts, ReadOnlyFacts, OpenFacts, CopyFacts, ListBackupsFacts DEF InHand, At
<1>5. CASE SortBackups(p) \/ UnlinkOldest(p) \/ Rename(p)
  BY <1>0, <1>2, <1>5, SortFacts, UnlinkFacts, RenameFacts DEF InHand, At
<1>6. CASE WriteTemp(p)
  <2>1. Exists(Written(mine[p].data)) /\ Written(mine[p].data).content = mine[p].data
    BY <1>0, WrittenOK DEF Locals, Contents
  <2>2. QED
    BY <1>0, <1>2, <1>6, <2>1, WriteFacts DEF InHand, At, Exists
<1>7. CASE DiskFull(p) \/ Crash(p)
  <2>1. /\ TypeOK' /\ Others(p) /\ mine'[p].seen <= made' /\ UNCHANGED <<setting, made>>
        /\ \/ pc'[p] = "idle" \/ pc'[p] = "write"
           \/ pc'[p] = "have" /\ result'[p] = mine'[p].data
    BY <1>0, <1>7, FaultFacts DEF Given
  <2>2. QED
    BY <1>0, <1>2, <2>1 DEF InHand, At
<1>8. QED
  BY <1>3, <1>4, <1>5, <1>6, <1>7 DEF Step

LEMMA NextBasic == Basic /\ [Next]_vars => Basic'
<1> SUFFICES ASSUME Basic, [Next]_vars PROVE Basic'
  OBVIOUS
<1>1. CASE NextSecond \/ Damage \/ UNCHANGED vars
  BY <1>1, OutsideFacts DEF Basic, InHand, At, Exists
<1>2. QED
  BY <1>1, StepBasic DEF Next

LEMMA InitBasic == Init => Basic
<1> SUFFICES ASSUME Init PROVE Basic
  OBVIOUS
<1>1. setting \in Settings
  BY DEF Init
<1>2. setting.most \in Nat /\ LastSecond \in Nat
  BY <1>1, SafeFileAssumption
<1>3. NoLocals \in Locals
  BY <1>2 DEF NoLocals, Locals
<1>4. TypeOK
  BY <1>1, <1>2, <1>3 DEF Init, TypeOK, Phases
<1>5. \A p \in Procs : InHand(p)
  BY DEF Init, InHand, At, NoLocals
<1>6. QED
  BY <1>4, <1>5 DEF Basic

\* The file, its backups and the processes' copies keep their shape, and every read
\* returns a set of updates, never damaged content (file_utils.py:9-26).
THEOREM TypeCorrect == Spec => []TypeOK
<1>1. Spec => []Basic
  BY InitBasic, NextBasic, PTL DEF Spec
<1>2. Basic => TypeOK
  BY DEF Basic
<1>3. QED
  BY <1>1, <1>2, PTL

-----------------------------------------------------------------------------
(* The backups. *)

\* The copies that a pruning process has not listed were begun since it listed them.
Fresh(p) == pc[p] \in {"sort", "unlink"} =>
                Cardinality(Names \ mine[p].list) <= made - mine[p].seen

Bounded == BackupsBounded /\ \A p \in Procs : Fresh(p)

\* Every set of copies grows by one at most, and then one more has been begun.
LEMMA Grows ==
    ASSUME TypeOK, TypeOK', NEW S,
           \/ Names' \subseteq Names /\ made' = made
           \/ made' = made + 1 /\ \E n : Names' \subseteq Names \cup {n}
    PROVE  Cardinality(Names' \ S) <= Cardinality(Names \ S) + (made' - made)
<1>1. /\ IsFiniteSet(Names \ S) /\ Cardinality(Names \ S) \in Nat
      /\ IsFiniteSet(Names' \ S) /\ Cardinality(Names' \ S) \in Nat
  <2>1. IsFiniteSet(0..LastSecond) /\ Names \subseteq 0..LastSecond /\ Names' \subseteq 0..LastSecond
    <3>1. DOMAIN backups' = 0..LastSecond
      BY DEF TypeOK
    <3>2. Names' \subseteq 0..LastSecond
      BY <3>1 DEF Names
    <3>3. QED
      BY <3>2, FiniteNames, Seconds
  <2>2. QED
    BY <2>1, FS_Subset, FS_CardinalityType
<1>2. made \in Nat /\ made' \in Nat
  BY DEF TypeOK
<1>3. CASE Names' \subseteq Names /\ made' = made
  <2>1. Names' \ S \in SUBSET (Names \ S)
    BY <1>3
  <2>2. Cardinality(Names' \ S) <= Cardinality(Names \ S)
    BY <1>1, <2>1, FS_Subset
  <2>3. QED
    BY <1>1, <1>2, <1>3, <2>2
<1>4. ASSUME made' = made + 1, NEW n, Names' \subseteq Names \cup {n}
      PROVE  Cardinality(Names' \ S) <= Cardinality(Names \ S) + (made' - made)
  <2>1. Names' \ S \in SUBSET ((Names \ S) \cup {n})
    BY <1>4
  <2>2. /\ IsFiniteSet((Names \ S) \cup {n})
        /\ Cardinality((Names \ S) \cup {n})
             = IF n \in Names \ S THEN Cardinality(Names \ S) ELSE Cardinality(Names \ S) + 1
    BY <1>1, FS_AddElement
  <2>3. Cardinality(Names' \ S) <= Cardinality((Names \ S) \cup {n})
    BY <2>1, <2>2, FS_Subset
  <2>4. Cardinality((Names \ S) \cup {n}) <= Cardinality(Names \ S) + 1
    BY <1>1, <2>2
  <2>5. Cardinality((Names \ S) \cup {n}) \in Nat
    BY <2>2, FS_CardinalityType
  <2>6. QED
    BY <1>1, <1>2, <1>4, <2>3, <2>4, <2>5
<1>5. QED
  BY <1>3, <1>4

\* What a step may do to the copies
Copies == \/ Names' \subseteq Names /\ made' = made
          \/ made' = made + 1 /\ \E n : Names' \subseteq Names \cup {n}

LEMMA StepCopies ==
    ASSUME Basic, NEW p \in Procs, Step(p)
    PROVE  Copies /\ TypeOK' /\ Others(p) /\ UNCHANGED setting
<1>1. ASSUME UNCHANGED <<backups, made>> PROVE Copies
  BY <1>1 DEF Copies, Names, Exists
<1>2. CASE Read(p) \/ FindBackup(p) \/ RankBackups(p) \/ Restore(p) \/ CopyBack(p) \/ Reread(p)
  BY <1>1, <1>2, ReadFacts, FindFacts, RankFacts, RestoreFacts, CopyBackFacts, RereadFacts
<1>3. CASE Update(p) \/ ReadOnly(p) \/ ListBackups(p) \/ SortBackups(p) \/ WriteTemp(p) \/ Rename(p)
  BY <1>1, <1>3, UpdateFacts, ReadOnlyFacts, ListBackupsFacts, SortFacts, WriteFacts, RenameFacts
<1>4. CASE DiskFull(p) \/ Crash(p)
  BY <1>1, <1>4, FaultFacts
<1>5. CASE OpenBackup(p)
  <2>1. CASE /\ backups' = [backups EXCEPT ![second] = Written(Bad)] /\ made' = made + 1
    <3>1. Names' \subseteq Names \cup {second}
      <4>1. DOMAIN backups' = DOMAIN backups /\ \A n \in DOMAIN backups \ {second} : backups'[n] = backups[n]
        BY <2>1
      <4>2. QED
        BY <4>1 DEF Names, Exists
    <3>2. QED
      BY <1>5, <2>1, <3>1, OpenFacts DEF Copies
  <2>2. QED
    BY <1>1, <1>5, <2>1, OpenFacts
<1>6. CASE CopyToBackup(p)
  <2>1. CASE /\ Exists(backups[mine[p].name])
             /\ backups' = [backups EXCEPT ![mine[p].name] = mine[p].src]
    <3>1. Names' \subseteq Names
      BY <2>1 DEF Names, Exists
    <3>2. QED
      BY <1>6, <3>1, CopyFacts DEF Copies
  <2>2. QED
    BY <1>1, <1>6, <2>1, CopyFacts
<1>7. CASE UnlinkOldest(p)
  <2>1. ASSUME NEW n, backups' = [backups EXCEPT ![n] = Absent] PROVE Names' \subseteq Names
    BY <2>1 DEF Names, Exists
  <2>2. Names' \subseteq Names
    <3>1. UNCHANGED backups => Names' = Names
      BY DEF Names, Exists
    <3>2. QED
      BY <1>7, <2>1, <3>1, UnlinkFacts
  <2>3. QED
    BY <1>7, <2>2, UnlinkFacts DEF Copies
<1>8. QED
  BY <1>2, <1>3, <1>4, <1>5, <1>6, <1>7 DEF Step

\* A list that is not too long, and what is not in it
LEMMA FewNames ==
    ASSUME NEW names \in SUBSET (0..LastSecond), NEW list \in SUBSET (0..LastSecond),
           NEW keep \in Nat, NEW more \in Int,
           Cardinality(list) <= keep, Cardinality(names \ list) <= more
    PROVE  Cardinality(names) <= keep + more
<1>1. IsFiniteSet(names) /\ IsFiniteSet(list) /\ IsFiniteSet(names \ list) /\ IsFiniteSet(list \cup names)
  <2>1. /\ IsFiniteSet(0..LastSecond) /\ names \ list \in SUBSET (0..LastSecond)
        /\ list \cup names \in SUBSET (0..LastSecond)
    BY Seconds
  <2>2. QED
    BY <2>1, FS_Subset
<1>2. /\ Cardinality(list) \in Nat /\ Cardinality(names \ list) \in Nat
      /\ Cardinality(names) \in Nat /\ Cardinality(list \cup names) \in Nat
  BY <1>1, FS_CardinalityType
<1>3. list \cap (names \ list) = {} /\ list \cup (names \ list) = list \cup names
  OBVIOUS
<1>4. Cardinality(list \cup names) = Cardinality(list) + Cardinality(names \ list)
  <2>1. Cardinality(list \cap (names \ list)) = 0
    BY <1>3, FS_EmptySet
  <2>2. Cardinality(list \cup (names \ list))
          = Cardinality(list) + Cardinality(names \ list) - Cardinality(list \cap (names \ list))
    BY <1>1, FS_Union
  <2>3. QED
    BY <1>2, <1>3, <2>1, <2>2
<1>5. Cardinality(names) <= Cardinality(list \cup names)
  BY <1>1, FS_Subset
<1>6. QED
  BY <1>2, <1>4, <1>5

\* What the process knows when it sorts and after each unlink
LEMMA PruningKnows ==
    ASSUME Basic, NEW p \in Procs, Fresh(p), SortBackups(p) \/ UnlinkOldest(p)
    PROVE  \/ UNCHANGED pruned /\ pc'[p] # "unlink"
           \/ /\ Cardinality(Names' \ mine'[p].list) <= made' - mine'[p].seen
              /\ \/ pc'[p] = "unlink" /\ UNCHANGED pruned
                 \/ /\ pc'[p] # "unlink" /\ ~TooMany(mine'[p].list)
                    /\ pruned' = pruned \/ pruned' = mine'[p].seen
<1>0. TypeOK /\ mine[p] \in Locals /\ backups \in [0..LastSecond -> Files \cup {Absent}]
  BY DEF Basic, TypeOK
<1>1. CASE SortBackups(p)
  <2>1. Names' = Names /\ UNCHANGED made /\ mine'[p].list = mine[p].list /\ mine'[p].seen = mine[p].seen
        /\ pc[p] = "sort"
    BY <1>1, SortFacts DEF Names, Exists
  <2>2. Cardinality(Names' \ mine'[p].list) <= made' - mine'[p].seen
    BY <2>1 DEF Fresh
  <2>3. QED
    BY <1>1, <2>1, <2>2, SortFacts DEF TooMany
<1>2. CASE UnlinkOldest(p)
  <2>1. PICK n \in Oldest(mine[p]) :
           \/ /\ Exists(backups[n]) /\ backups' = [backups EXCEPT ![n] = Absent]
              /\ mine'[p].list = mine[p].list \ {n}
              /\ \/ TooMany(mine'[p].list) /\ pc'[p] = "unlink" /\ UNCHANGED pruned
                 \/ /\ ~TooMany(mine'[p].list) /\ pc'[p] = "write"
                    /\ pruned' = pruned \/ pruned' = mine[p].seen
           \/ ~Exists(backups[n]) /\ pc'[p] = "write" /\ UNCHANGED <<backups, pruned>>
    BY <1>2, UnlinkFacts
  <2>2. pc[p] = "unlink" /\ UNCHANGED made /\ mine'[p].seen = mine[p].seen
    BY <1>2, UnlinkFacts
  <2>3. CASE ~Exists(backups[n])
    BY <2>1, <2>3
  <2>4. CASE Exists(backups[n])
    <3>1. Names' = Names \ {n}
      BY <1>0, <2>1, <2>4 DEF Names, Exists
    <3>2. Names' \ mine'[p].list = Names \ mine[p].list
      BY <2>1, <2>4, <3>1 DEF Oldest
    <3>3. Cardinality(Names' \ mine'[p].list) <= made' - mine'[p].seen
      BY <2>2, <3>2 DEF Fresh
    <3>4. QED
      BY <2>1, <2>2, <2>4, <3>3
  <2>5. QED
    BY <2>3, <2>4
<1>3. QED
  BY <1>1, <1>2

LEMMA StepBounded ==
    ASSUME Basic, Basic', Bounded, NEW p \in setting.procs, Step(p)
    PROVE  Bounded'
<1>0. /\ p \in Procs /\ TypeOK /\ TypeOK' /\ made \in Nat /\ made' \in Nat /\ setting.keep \in Nat
      /\ pruned \in 0..made /\ Cardinality(Names) \in Nat /\ Cardinality(Names') \in Nat
      /\ Names' \in SUBSET (0..LastSecond) /\ Names \in SUBSET (0..LastSecond) /\ LastSecond \in Nat
  <2>1. TypeOK /\ TypeOK' /\ Names' \in SUBSET (0..LastSecond) /\ Names \in SUBSET (0..LastSecond)
    BY DEF Basic, TypeOK, Names
  <2>2. p \in Procs /\ setting.keep \in Nat /\ made \in Nat /\ made' \in Nat /\ pruned \in 0..made
    BY <2>1, SettingOK DEF TypeOK
  <2>3. Cardinality(Names) \in Nat /\ Cardinality(Names') \in Nat
    BY <2>1, Seconds, FS_Subset, FS_CardinalityType
  <2>4. QED
    BY <2>1, <2>2, <2>3, Seconds
<1>1. Copies /\ Others(p) /\ UNCHANGED setting
  BY <1>0, StepCopies
<1>2. made' >= made /\ \A S : Cardinality(Names' \ S) <= Cardinality(Names \ S) + (made' - made)
  <2>1. made' >= made
    BY <1>0, <1>1 DEF Copies
  <2>2. ASSUME NEW S PROVE Cardinality(Names' \ S) <= Cardinality(Names \ S) + (made' - made)
    BY <1>0, <1>1, Grows, Zenon DEF Copies
  <2>3. QED
    BY <2>1, <2>2
<1>3. Cardinality(Names') <= Cardinality(Names) + (made' - made)
  <2>1. Names' \ {} = Names' /\ Names \ {} = Names
    OBVIOUS
  <2>2. QED
    BY <1>2, <2>1
<1>4. ASSUME NEW q \in Procs \ {p} PROVE Fresh(q)'
  <2>1. pc'[q] = pc[q] /\ mine'[q] = mine[q] /\ mine[q].seen \in Nat /\ Fresh(q)
    BY <1>0, <1>1 DEF Others, Bounded, TypeOK, Locals
  <2>2. Cardinality(Names' \ mine[q].list) <= Cardinality(Names \ mine[q].list) + (made' - made)
    BY <1>2
  <2>3. Cardinality(Names \ mine[q].list) \in Nat /\ Cardinality(Names' \ mine[q].list) \in Nat
    <3>1. IsFiniteSet(0..LastSecond) /\ Names' \in SUBSET (0..LastSecond) /\ Names \in SUBSET (0..LastSecond)
      BY <1>0, Seconds
    <3>2. Names \ mine[q].list \in SUBSET (0..LastSecond) /\ Names' \ mine[q].list \in SUBSET (0..LastSecond)
      BY <3>1
    <3>3. QED
      BY <3>1, <3>2, FS_Subset, FS_CardinalityType
  <2>4. QED
    BY <1>0, <2>1, <2>2, <2>3 DEF Fresh
<1>5. BackupsBounded' /\ Fresh(p)'
  <2>1. CASE SortBackups(p) \/ UnlinkOldest(p)
    <3>0. UNCHANGED made /\ pc'[p] \in {"unlink", "write"}
      BY <1>0, <2>1, SortFacts, UnlinkFacts
    <3>1. CASE UNCHANGED pruned /\ pc'[p] # "unlink"
      BY <1>0, <1>1, <1>3, <3>0, <3>1 DEF Bounded, BackupsBounded, Fresh
    <3>2. CASE /\ Cardinality(Names' \ mine'[p].list) <= made' - mine'[p].seen
               /\ pc'[p] = "unlink" /\ UNCHANGED pruned
      BY <1>0, <1>1, <1>3, <3>0, <3>2 DEF Bounded, BackupsBounded, Fresh
    <3>3. CASE /\ Cardinality(Names' \ mine'[p].list) <= made' - mine'[p].seen
               /\ pc'[p] # "unlink" /\ ~TooMany(mine'[p].list)
               /\ pruned' = pruned \/ pruned' = mine'[p].seen
      <4>1. CASE pruned' = pruned
        BY <1>0, <1>1, <1>3, <3>0, <3>3, <4>1 DEF Bounded, BackupsBounded, Fresh
      <4>2. CASE pruned' = mine'[p].seen
        <5>1. /\ mine'[p].list \in SUBSET (0..LastSecond) /\ mine'[p].seen \in Nat
              /\ mine'[p].seen <= made'
          BY <1>0 DEF Basic, TypeOK, Locals, InHand
        <5>2. Cardinality(mine'[p].list) <= setting.keep
          <6>1. Cardinality(mine'[p].list) \in Nat
            BY <5>1, Seconds, FS_Subset, FS_CardinalityType
          <6>2. QED
            BY <1>0, <1>1, <3>3, <6>1 DEF TooMany
        <5>3. made' - mine'[p].seen \in Int
          BY <1>0, <5>1
        <5>4. Cardinality(Names') <= setting.keep + (made' - mine'[p].seen)
          BY <1>0, <3>3, <5>1, <5>2, <5>3, FewNames
        <5>5. QED
          BY <1>1, <3>0, <3>3, <4>2, <5>4 DEF BackupsBounded, Fresh
      <4>3. QED
        BY <3>3, <4>1, <4>2
    <3>4. QED
      BY <1>0, <2>1, <3>1, <3>2, <3>3, PruningKnows DEF Bounded
  <2>2. CASE ListBackups(p)
    <3>1. UNCHANGED <<made, pruned>> /\ pc'[p] = "sort" /\ mine'[p].list = Names /\ mine'[p].seen = made
          /\ Names' = Names
      BY <1>0, <2>2, ListBackupsFacts DEF Names, Exists
    <3>2. Names' \ mine'[p].list = {}
      BY <3>1
    <3>3. Cardinality(Names' \ mine'[p].list) = 0
      BY <3>2, FS_EmptySet
    <3>4. QED
      BY <1>0, <1>1, <3>1, <3>3 DEF Bounded, BackupsBounded, Fresh
  <2>3. CASE ~SortBackups(p) /\ ~UnlinkOldest(p) /\ ~ListBackups(p)
    <3>1. UNCHANGED pruned /\ pc'[p] \notin {"sort", "unlink"}
      <4>1. CASE Read(p) \/ FindBackup(p) \/ RankBackups(p) \/ Restore(p) \/ CopyBack(p) \/ Reread(p)
        BY <1>0, <4>1, ReadFacts, FindFacts, RankFacts, RestoreFacts, CopyBackFacts, RereadFacts DEF Given
      <4>2. CASE \/ Update(p) \/ ReadOnly(p) \/ OpenBackup(p) \/ CopyToBackup(p) \/ WriteTemp(p) \/ Rename(p)
                 \/ DiskFull(p) \/ Crash(p)
        BY <1>0, <4>2, UpdateFacts, ReadOnlyFacts, OpenFacts, CopyFacts, WriteFacts, RenameFacts, FaultFacts
           DEF Given
      <4>3. QED
        BY <2>3, <4>1, <4>2 DEF Step
    <3>2. Fresh(p)'
      BY <3>1 DEF Fresh
    <3>3. BackupsBounded'
      BY <1>0, <1>1, <1>2, <1>3, <3>1 DEF Bounded, BackupsBounded
    <3>4. QED
      BY <3>2, <3>3
  <2>4. QED
    BY <2>1, <2>2, <2>3
<1>6. QED
  BY <1>4, <1>5 DEF Bounded

LEMMA NextBounded == Basic /\ Basic' /\ Bounded /\ [Next]_vars => Bounded'
<1> SUFFICES ASSUME Basic, Basic', Bounded, [Next]_vars PROVE Bounded'
  OBVIOUS
<1>1. CASE NextSecond \/ Damage \/ UNCHANGED vars
  <2>1. UNCHANGED <<backups, setting, pc, mine, made, pruned>>
    BY <1>1, OutsideFacts
  <2>2. Names' = Names
    BY <2>1 DEF Names, Exists
  <2>3. QED
    BY <2>1, <2>2 DEF Bounded, BackupsBounded, Fresh
<1>2. QED
  BY <1>1, StepBounded DEF Next

\* However many processes save at once, cut each other's pruning short or die, and
\* however often the disk is full, .backups holds no more copies than max_backups and
\* those begun since some prune that ran to its end listed it (file_utils.py:53-73).
THEOREM BackupsStayBounded == Spec => []BackupsBounded
<1>1. Init => Bounded
  <2> SUFFICES ASSUME Init PROVE Bounded
    OBVIOUS
  <2>1. TypeOK
    BY InitBasic DEF Basic
  <2>2. Names = {} /\ made = 0 /\ pruned = 0
    BY DEF Init, Names, Exists
  <2>3. BackupsBounded
    BY <2>1, <2>2, SettingOK, FS_EmptySet DEF BackupsBounded
  <2>4. \A p \in Procs : Fresh(p)
    BY DEF Init, Fresh
  <2>5. QED
    BY <2>3, <2>4 DEF Bounded
<1>2. Spec => [](Basic /\ Bounded)
  BY <1>1, InitBasic, NextBasic, NextBounded, PTL DEF Spec
<1>3. Basic /\ Bounded => BackupsBounded
  BY DEF Bounded
<1>4. QED
  BY <1>2, <1>3, PTL

-----------------------------------------------------------------------------
(* Without damage. *)

Repairing == {"find", "rank", "restore", "copying", "reread"}
Saving == {"backup", "backing", "list", "sort", "unlink", "write", "rename"}

\* The file is whole, so nobody repairs it.
Whole == "damage" \notin setting.may =>
    /\ ~Exists(file) \/ Readable(file)
    /\ \A p \in Procs : pc[p] \notin Repairing

LEMMA TempWhole ==
    ASSUME Basic, NEW p \in Procs, At(p, "rename")
    PROVE  Exists(mine[p].src) /\ Readable(mine[p].src) /\ mine[p].src.content = mine[p].data
<1>1. mine[p].data \in SUBSET (1..MaxSaves)
  BY DEF Basic, TypeOK, Locals
<1>2. mine[p].data # Bad
  BY <1>1, SafeFileAssumption
<1>3. QED
  BY <1>2 DEF Basic, InHand, Readable

LEMMA StepWhole ==
    ASSUME Basic, Whole, NEW p \in setting.procs, Step(p)
    PROVE  Whole'
<1>0. p \in Procs /\ TypeOK
  BY SettingOK DEF Basic
<1>1. UNCHANGED setting /\ Others(p)
  BY <1>0, StepCopies
<1>2. SUFFICES ASSUME "damage" \notin setting.may
               PROVE  (~Exists(file') \/ Readable(file')) /\ pc'[p] \notin Repairing
  BY <1>1 DEF Whole, Exists, Readable, Others
<1>3. /\ ~Exists(file) \/ Readable(file)
      /\ pc[p] \notin Repairing
  BY <1>0, <1>2 DEF Whole
<1>4. ASSUME UNCHANGED file, pc'[p] \notin Repairing
      PROVE  (~Exists(file') \/ Readable(file')) /\ pc'[p] \notin Repairing
  BY <1>3, <1>4 DEF Exists, Readable
<1>5. ~(FindBackup(p) \/ RankBackups(p) \/ Restore(p) \/ CopyBack(p) \/ Reread(p))
  BY <1>3 DEF FindBackup, RankBackups, Restore, CopyBack, Reread, At, Repairing
<1>6. CASE Rename(p)
  <2>1. file' = mine[p].src /\ At(p, "rename") /\ pc'[p] = "idle"
    BY <1>0, <1>6, RenameFacts DEF At
  <2>2. Exists(mine[p].src) /\ Readable(mine[p].src)
    BY <1>0, <2>1, TempWhole
  <2>3. QED
    BY <2>1, <2>2 DEF Repairing
<1>7. CASE Read(p)
  <2>1. UNCHANGED file /\ pc'[p] \in {"have", "find"} /\ (pc'[p] = "find" => Exists(file) /\ ~Readable(file))
    BY <1>0, <1>7, ReadFacts DEF Given
  <2>2. QED
    BY <1>3, <1>4, <2>1 DEF Repairing
<1>8. CASE Update(p) \/ ReadOnly(p) \/ OpenBackup(p) \/ CopyToBackup(p)
  <2>1. UNCHANGED file /\ pc'[p] \in {"backup", "idle", "backing", "list", "write"}
    BY <1>0, <1>8, UpdateFacts, ReadOnlyFacts, OpenFacts, CopyFacts
  <2>2. QED
    BY <1>4, <2>1 DEF Repairing
<1>9. CASE ListBackups(p) \/ SortBackups(p) \/ UnlinkOldest(p) \/ WriteTemp(p)
  <2>1. UNCHANGED file /\ pc'[p] \in {"sort", "unlink", "write", "rename"}
    BY <1>0, <1>9, ListBackupsFacts, SortFacts, UnlinkFacts, WriteFacts
  <2>2. QED
    BY <1>4, <2>1 DEF Repairing
<1>10. CASE DiskFull(p) \/ Crash(p)
  <2>1. UNCHANGED file /\ pc'[p] \in {"idle", "write", "have"}
    BY <1>0, <1>10, FaultFacts DEF Given
  <2>2. QED
    BY <1>4, <2>1 DEF Repairing
<1>11. QED
  BY <1>5, <1>6, <1>7, <1>8, <1>9, <1>10 DEF Step

LEMMA NextWhole == Basic /\ Whole /\ [Next]_vars => Whole'
<1> SUFFICES ASSUME Basic, Whole, [Next]_vars PROVE Whole'
  OBVIOUS
<1>1. CASE Damage
  BY <1>1 DEF Damage, Fault, Whole
<1>2. CASE NextSecond \/ UNCHANGED vars
  BY <1>2 DEF NextSecond, vars, Whole, Exists, Readable
<1>3. QED
  BY <1>1, <1>2, StepWhole DEF Next

LEMMA InitWhole == Init => Whole
BY DEF Init, Whole, Exists, Repairing

\* However many processes save and die, a reader never opens a half-written file that
\* nothing outside damaged: it is only ever replaced by a complete one (file_utils.py:43).
THEOREM FileStaysWhole == Spec => []NeverHalfWritten
<1>1. Spec => [](Basic /\ Whole)
  BY InitBasic, NextBasic, InitWhole, NextWhole, PTL DEF Spec
<1>2. Whole => NeverHalfWritten
  BY DEF Whole, NeverHalfWritten
<1>3. QED
  BY <1>1, <1>2, PTL

-----------------------------------------------------------------------------
(* One process.  What each step of a save does to its locals *)

LEMMA SavingSteps ==
    ASSUME Basic, NEW p \in Procs
    PROVE  /\ Update(p) \/ OpenBackup(p) \/ CopyToBackup(p) \/ ListBackups(p) \/ SortBackups(p)
              \/ UnlinkOldest(p) \/ WriteTemp(p)
                => /\ pc[p] \in Saving \cup {"have"} /\ pc'[p] \in Saving /\ UNCHANGED <<file, saved>>
                   /\ mine[p].data \subseteq mine'[p].data
           /\ ReadOnly(p) => UNCHANGED <<file, backups, saved, ticks>> /\ pc[p] = "have" /\ pc'[p] = "idle"
<1> DEFINE Does == /\ pc[p] \in Saving \cup {"have"} /\ pc'[p] \in Saving /\ UNCHANGED <<file, saved>>
                   /\ mine[p].data \subseteq mine'[p].data
<1>1. ASSUME Update(p) \/ OpenBackup(p) \/ CopyToBackup(p) PROVE Does
  BY <1>1, UpdateFacts, OpenFacts, CopyFacts DEF Saving
<1>2. ASSUME ListBackups(p) \/ SortBackups(p) \/ UnlinkOldest(p) \/ WriteTemp(p) PROVE Does
  BY <1>2, ListBackupsFacts, SortFacts, UnlinkFacts, WriteFacts DEF Saving
<1>3. ASSUME ReadOnly(p)
      PROVE  UNCHANGED <<file, backups, saved, ticks>> /\ pc[p] = "have" /\ pc'[p] = "idle"
  BY <1>3, ReadOnlyFacts
<1> HIDE DEF Does
<1>4. QED
  BY <1>1, <1>2, <1>3 DEF Does

\* The file, and what the one process will write over it, hold every save that returned.
Carried(p) ==
    /\ IF Exists(file) THEN saved \subseteq file.content ELSE saved = {}
    /\ pc[p] \in Saving \cup {"have"} => saved \subseteq mine[p].data

NeverDamaged(p) == setting.procs = {p} /\ "damage" \notin setting.may => Carried(p)

LEMMA StepCarried ==
    ASSUME Basic, Whole, NEW p \in setting.procs, "damage" \notin setting.may, Carried(p), Step(p)
    PROVE  Carried(p)'
<1>0. p \in Procs /\ TypeOK
  BY SettingOK DEF Basic
<1>1. pc[p] \notin Repairing
  BY <1>0 DEF Whole
<1>2. ~(FindBackup(p) \/ RankBackups(p) \/ Restore(p) \/ CopyBack(p) \/ Reread(p))
  BY <1>1 DEF FindBackup, RankBackups, Restore, CopyBack, Reread, At, Repairing
<1>3. CASE Read(p)
  BY <1>0, <1>3, ReadFacts DEF Given, Carried, Exists, Readable, Whole, Saving
<1>4. CASE Rename(p)
  <2>1. /\ file' = mine[p].src /\ saved' = saved \cup mine[p].data /\ pc'[p] = "idle" /\ pc[p] = "rename"
    BY <1>0, <1>4, RenameFacts
  <2>2. Exists(file') /\ file'.content = mine[p].data
    BY <1>0, <2>1, TempWhole DEF At
  <2>3. saved \subseteq mine[p].data
    BY <2>1 DEF Carried, Saving
  <2>4. QED
    BY <2>1, <2>2, <2>3 DEF Carried, Exists, Saving
<1>5. CASE \/ Update(p) \/ OpenBackup(p) \/ CopyToBackup(p) \/ ListBackups(p) \/ SortBackups(p)
           \/ UnlinkOldest(p) \/ WriteTemp(p)
  <2>1. UNCHANGED <<file, saved>> /\ pc[p] \in Saving \cup {"have"} /\ mine[p].data \subseteq mine'[p].data
    BY <1>0, <1>5, SavingSteps
  <2>2. QED
    BY <2>1 DEF Carried, Exists
<1>6. CASE ReadOnly(p)
  BY <1>0, <1>6, SavingSteps DEF Carried, Exists, Saving
<1>7. CASE DiskFull(p) \/ Crash(p)
  <2>1. UNCHANGED <<file, saved>>
    BY <1>0, <1>7, FaultFacts
  <2>2. \/ pc'[p] = "idle"
        \/ pc[p] \in Saving /\ pc'[p] = "write" /\ UNCHANGED mine
    BY <1>0, <1>1, <1>7, FaultFacts DEF Repairing, Saving
  <2>3. QED
    BY <2>1, <2>2 DEF Carried, Exists, Saving
<1>8. QED
  BY <1>2, <1>3, <1>4, <1>5, <1>6, <1>7 DEF Step

LEMMA NextCarried ==
    Basic /\ Whole /\ (\A p \in Procs : NeverDamaged(p)) /\ [Next]_vars
        => (\A p \in Procs : NeverDamaged(p))'
<1> SUFFICES ASSUME Basic, Whole, \A p \in Procs : NeverDamaged(p), [Next]_vars,
                    NEW p \in Procs, setting'.procs = {p}, "damage" \notin setting'.may
             PROVE  Carried(p)'
  BY DEF NeverDamaged
<1>1. UNCHANGED setting
  <2>1. CASE NextSecond \/ Damage \/ UNCHANGED vars
    BY <2>1, OutsideFacts
  <2>2. ASSUME NEW q \in setting.procs, Step(q) PROVE UNCHANGED setting
    <3>1. q \in Procs
      BY SettingOK DEF Basic
    <3>2. QED
      BY <2>2, <3>1, StepCopies
  <2>3. QED
    BY <2>1, <2>2 DEF Next
<1>2. Carried(p)
  BY <1>1 DEF NeverDamaged
<1>3. ~Damage
  BY <1>1 DEF Damage, Fault
<1>4. CASE NextSecond \/ UNCHANGED vars
  BY <1>2, <1>4 DEF NextSecond, vars, history, Carried, Exists
<1>5. CASE Step(p)
  BY <1>1, <1>2, <1>5, StepCarried
<1>6. QED
  BY <1>1, <1>3, <1>4, <1>5 DEF Next

\* The one process
LEMMA OneProcess ==
    ASSUME TypeOK, Cardinality(setting.procs) = 1
    PROVE  \E p \in Procs : setting.procs = {p}
<1>1. IsFiniteSet(setting.procs) /\ setting.procs \subseteq Procs
  BY SettingOK
<1>2. QED
  BY <1>1, FS_Singleton

\* A process alone may die at any step of a save, or find the disk full, and what it
\* saved is read back (file_utils.py:29-50).
THEOREM NothingIsLostByCrash == Spec => []NothingLostByCrash
<1>1. Init => \A p \in Procs : NeverDamaged(p)
  BY DEF Init, NeverDamaged, Carried, Exists, Saving
<1>2. Spec => [](Basic /\ \A p \in Procs : NeverDamaged(p))
  BY <1>1, InitBasic, NextBasic, InitWhole, NextWhole, NextCarried, PTL DEF Spec
<1>3. Basic /\ (\A p \in Procs : NeverDamaged(p)) => NothingLostByCrash
  <2> SUFFICES ASSUME Basic, \A p \in Procs : NeverDamaged(p),
                      Cardinality(setting.procs) = 1, "damage" \notin setting.may,
                      NEW p \in Procs, At(p, "have")
               PROVE  saved \subseteq result[p]
    BY DEF NothingLostByCrash
  <2>1. PICK q \in Procs : setting.procs = {q}
    BY OneProcess DEF Basic
  <2>2. p = q /\ result[p] = mine[p].data
    BY <2>1 DEF Basic, InHand, At
  <2>3. QED
    BY <2>1, <2>2 DEF NeverDamaged, Carried, At
<1>4. QED
  BY <1>2, <1>3, PTL

-----------------------------------------------------------------------------
(* One process and one fault.  Until the fault, the file holds what was saved and the   *)
(* newest backup the version before; after it, what the process reads lacks one save.   *)

LacksOne(X) == Cardinality(saved \ X) <= 1
Good(f) == f.content # Bad /\ LacksOne(f.content)
Recoverable == IF Names = {} THEN LacksOne({}) ELSE \A n \in Newest(Names) : Good(backups[n])
Older(S, f) == \A n \in S : backups[n].mtime < f.mtime

\* From the copy until the temporary file is written: the copy is the file as it is,
\* and every other copy is older.
Unhurt(p) ==
    /\ pc[p] \notin Repairing
    /\ IF Exists(file) THEN file.content = saved /\ file.mtime < ticks
       ELSE saved = {} /\ Names = {}
    /\ \A n \in Names : backups[n].mtime < ticks
    /\ pc[p] \in {"idle", "have", "backup"} => Recoverable /\ Older(Names, file)
    /\ At(p, "have") => mine[p].data = saved
    /\ pc[p] \in Saving => saved \subseteq mine[p].data /\ Cardinality(mine[p].data \ saved) <= 1
    /\ pc[p] \in {"backing", "list", "sort", "unlink"} =>
         /\ Exists(file) /\ mine[p].name \in Names
         /\ Older(Names \ {mine[p].name}, file)
    /\ At(p, "backing") => mine[p].src = file
    /\ pc[p] \in {"list", "sort", "unlink"} => backups[mine[p].name] = file
    /\ pc[p] \in {"sort", "unlink"} => mine[p].list = Names
    /\ At(p, "unlink") => /\ TooMany(mine[p].list)
                          /\ \A n \in mine[p].list : mine[p].times[n] = backups[n].mtime
    /\ pc[p] \in {"write", "rename"} =>
         IF Names = {} THEN saved = {} ELSE \A n \in Newest(Names) : backups[n].content = saved
    /\ At(p, "rename") => Older(Names, mine[p].src) /\ mine[p].src.mtime < ticks

Hurt(p) ==
    /\ pc[p] \in {"idle", "have"} =>
         IF Exists(file) THEN Good(file) \/ (file.content = Bad /\ Recoverable) ELSE saved = {}
    /\ pc[p] \in Saving \cup {"have"} => LacksOne(mine[p].data)
    /\ pc[p] \in {"find", "rank"} => Exists(file) /\ file.content = Bad /\ Recoverable
    /\ At(p, "rank") => mine[p].list = Names
    /\ At(p, "restore") => mine[p].name \in Names /\ Good(backups[mine[p].name])
    /\ At(p, "copying") => Exists(mine[p].src) /\ Good(mine[p].src)
    /\ At(p, "reread") => Exists(file) /\ Good(file)

OneFault(p) == setting.procs = {p} /\ setting.most = 1 =>
    /\ faults = 0 => Unhurt(p)
    /\ faults = 1 => Hurt(p)

LEMMA Lacking ==
    ASSUME TypeOK
    PROVE  /\ \A X, Y : LacksOne(X) /\ X \subseteq Y => LacksOne(Y)
           /\ \A X : saved \subseteq X => LacksOne(X)
<1>1. ASSUME NEW X, NEW Y, LacksOne(X), X \subseteq Y PROVE LacksOne(Y)
  <2>1. saved \ Y \in SUBSET (saved \ X) /\ saved \ X \in SUBSET saved /\ saved \ Y \in SUBSET saved
    BY <1>1
  <2>2. Cardinality(saved \ Y) <= Cardinality(saved \ X)
    BY <2>1, FiniteSaved, FS_Subset
  <2>3. Cardinality(saved \ Y) \in Nat /\ Cardinality(saved \ X) \in Nat
    BY <2>1, FiniteSaved
  <2>4. QED
    BY <1>1, <2>2, <2>3 DEF LacksOne
<1>2. ASSUME NEW X, saved \subseteq X PROVE LacksOne(X)
  <2>1. saved \ X = {}
    BY <1>2
  <2>2. QED
    BY <2>1, FS_EmptySet DEF LacksOne
<1>3. QED
  BY <1>1, <1>2

\* The files that neither a step nor the clock touches are as good as before.
LEMMA SameBackups ==
    ASSUME UNCHANGED <<backups, saved>>
    PROVE  /\ Names' = Names /\ Newest(Names)' = Newest(Names)
           /\ Recoverable' <=> Recoverable
           /\ \A f : Good(f)' <=> Good(f)
           /\ \A X : LacksOne(X)' <=> LacksOne(X)
           /\ \A S, f : Older(S, f)' <=> Older(S, f)
BY DEF Names, Newest, Recoverable, Good, LacksOne, Older, Exists

-----------------------------------------------------------------------------
(* Before the fault. *)

\* Whatever the process is doing, its fault leaves it with at most one save to lose.
LEMMA FaultHurts ==
    ASSUME Basic, NEW p \in Procs, setting.procs = {p}, Unhurt(p),
           Damage \/ DiskFull(p) \/ Crash(p)
    PROVE  Hurt(p)'
<1>0. TypeOK
  BY DEF Basic
<1>1. CASE Damage
  <2>1. /\ Readable(file) /\ file' = Written(Bad) /\ UNCHANGED <<backups, pc, mine, saved>>
    BY <1>1 DEF Damage, history
  <2>2. Exists(file') /\ file'.content = Bad
    BY <1>0, <2>1, WrittenOK DEF Contents
  <2>3. pc[p] \notin Repairing
    BY DEF Unhurt
  <2>4. pc[p] \in Saving \cup {"have"} => LacksOne(mine[p].data)
    BY <1>0, Lacking DEF Unhurt, At
  <2>5. pc[p] \in {"idle", "have"} => Recoverable
    BY DEF Unhurt
  <2>6. QED
    BY <2>1, <2>2, <2>3, <2>4, <2>5, SameBackups DEF Hurt, At, Exists, Repairing
<1>2. CASE DiskFull(p) \/ Crash(p)
  <2>1. UNCHANGED <<file, backups, saved>> /\ pc[p] \notin Repairing
    BY <1>2, FaultFacts DEF Unhurt
  <2>2. \/ pc'[p] = "idle"
        \/ pc[p] \in Saving /\ pc'[p] = "write" /\ UNCHANGED mine
    BY <1>2, <2>1, FaultFacts DEF Repairing, Saving
  <2>3. Exists(file) => Good(file)
    <3>1. Exists(file) => file.content = saved /\ file.content # Bad
      BY <1>0, SafeFileAssumption DEF Unhurt, TypeOK
    <3>2. QED
      BY <1>0, <3>1, Lacking DEF Good
  <2>4. ~Exists(file) => saved = {}
    BY DEF Unhurt
  <2>5. pc[p] \in Saving => LacksOne(mine[p].data)
    BY <1>0, Lacking DEF Unhurt
  <2>6. QED
    BY <2>1, <2>2, <2>3, <2>4, <2>5, SameBackups DEF Hurt, At, Exists, Saving
<1>3. QED
  BY <1>1, <1>2

\* The copy being made has the file's own modification time: it is the newest.
LEMMA BackupUnhurt ==
    ASSUME Basic, NEW p \in Procs, setting.procs = {p}, Unhurt(p),
           OpenBackup(p) \/ CopyToBackup(p)
    PROVE  Unhurt(p)'
<1>0. TypeOK /\ ticks \in Nat /\ mine[p] \in Locals /\ backups \in [0..LastSecond -> Files \cup {Absent}]
      /\ second \in 0..LastSecond
  BY DEF Basic, TypeOK
<1>1. CASE OpenBackup(p) /\ ~Exists(file)
  <2>1. UNCHANGED <<file, backups, ticks, saved>> /\ pc[p] = "backup" /\ pc'[p] = "write"
        /\ mine'[p].data = mine[p].data
    BY <1>1, OpenFacts
  <2>2. QED
    BY <1>1, <2>1, SameBackups DEF Unhurt, At, Exists, Repairing, Saving
<1>2. CASE OpenBackup(p) /\ Exists(file)
  <2>1. /\ UNCHANGED <<file, saved>> /\ ticks' = ticks + 1
        /\ backups' = [backups EXCEPT ![second] = Written(Bad)]
    BY <1>2, OpenFacts
  <2>2. /\ pc[p] = "backup" /\ pc'[p] = "backing" /\ mine'[p].data = mine[p].data
        /\ mine'[p].src = file /\ mine'[p].name = second
    BY <1>2, OpenFacts
  <2>3. Written(Bad).mtime = ticks
    BY <1>0, WrittenOK DEF Contents
  <2>4. /\ Names' \subseteq Names \cup {second} /\ second \in Names'
        /\ \A n \in 0..LastSecond : backups'[n] = IF n = second THEN Written(Bad) ELSE backups[n]
    BY <1>0, <2>1, WrittenOK DEF Names, Exists, Contents
  <2>5. /\ Names \subseteq 0..LastSecond /\ file.mtime \in Nat
        /\ \A n \in Names : backups[n].mtime \in Nat
    BY <1>0, <1>2, FiniteNames DEF TypeOK, Names, Exists, Files
  <2>6. \A n \in Names' : backups'[n].mtime < ticks'
    BY <1>0, <2>1, <2>3, <2>4, <2>5 DEF Unhurt
  <2>7. \A n \in Names' \ {second} : backups'[n].mtime < file.mtime
    BY <2>2, <2>4, <2>5 DEF Unhurt, Older
  <2>8. file.content = saved /\ file.mtime < ticks'
    BY <1>0, <1>2, <2>1, <2>5 DEF Unhurt
  <2>9. Older(Names \ {mine[p].name}, file)'
    BY <2>1, <2>2, <2>7 DEF Older
  <2>10. QED
    BY <1>2, <2>1, <2>2, <2>4, <2>6, <2>8, <2>9 DEF Unhurt, At, Exists, Repairing, Saving
<1>3. CASE CopyToBackup(p)
  <2>1. /\ UNCHANGED <<file, saved, ticks, mine>> /\ pc[p] = "backing" /\ pc'[p] = "list"
        /\ backups' = [backups EXCEPT ![mine[p].name] = mine[p].src]
    BY <1>3, CopyFacts DEF Unhurt, Names
  <2>2. /\ mine[p].src = file /\ Exists(file) /\ mine[p].name \in 0..LastSecond
        /\ mine[p].name \in Names
    BY <1>0, <2>1 DEF Unhurt, Locals, At
  <2>3. /\ Names' \subseteq Names \cup {mine[p].name} /\ mine[p].name \in Names'
        /\ \A n \in 0..LastSecond : backups'[n] = IF n = mine[p].name THEN file ELSE backups[n]
    BY <1>0, <2>1, <2>2 DEF Names, Exists
  <2>4. Names \subseteq 0..LastSecond
    BY <1>0, FiniteNames
  <2>5. \A n \in Names' : backups'[n].mtime < ticks'
    BY <2>1, <2>2, <2>3, <2>4 DEF Unhurt
  <2>6. \A n \in Names' \ {mine[p].name} : backups'[n].mtime < file.mtime
    BY <2>1, <2>2, <2>3, <2>4 DEF Unhurt, Older
  <2>7. Older(Names \ {mine[p].name}, file)'
    BY <2>1, <2>6 DEF Older
  <2>8. QED
    BY <2>1, <2>2, <2>3, <2>5, <2>7 DEF Unhurt, At, Exists, Repairing, Saving
<1>4. QED
  BY <1>1, <1>2, <1>3

\* Pruning keeps the newest.
\* The copy just made is listed with the newest modification time.
LEMMA ListUnhurt ==
    ASSUME Basic, NEW p \in Procs, setting.procs = {p}, Unhurt(p), ListBackups(p)
    PROVE  Unhurt(p)'
<1>1. /\ UNCHANGED <<file, backups, ticks, saved>> /\ pc[p] = "list" /\ pc'[p] = "sort"
      /\ mine'[p].list = Names /\ mine'[p].data = mine[p].data /\ mine'[p].name = mine[p].name
  BY ListBackupsFacts
<1>2. QED
  BY <1>1, SameBackups DEF Unhurt, At, Exists, Repairing, Saving

LEMMA OneNewest ==
    ASSUME Basic, NEW p \in Procs, Unhurt(p), pc[p] \in {"sort", "unlink"}
    PROVE  /\ mine[p].name \in Names /\ mine[p].list = Names
           /\ \A n \in Names : backups[n].mtime \in Nat
           /\ backups[mine[p].name] = file /\ Exists(file) /\ file.content = saved
           /\ \A n \in Names \ {mine[p].name} : backups[n].mtime < backups[mine[p].name].mtime
           /\ \A n \in Newest(Names) : n = mine[p].name
<1>1. \A n \in Names : backups[n].mtime \in Nat
  BY FiniteNames DEF Basic, TypeOK, Names, Exists, Files
<1>2. /\ mine[p].name \in Names /\ mine[p].list = Names
      /\ backups[mine[p].name] = file /\ Exists(file) /\ file.content = saved
      /\ \A n \in Names \ {mine[p].name} : backups[n].mtime < backups[mine[p].name].mtime
  BY DEF Unhurt, At, Older
<1>3. ASSUME NEW n \in Newest(Names) PROVE n = mine[p].name
  <2>1. n \in Names /\ backups[n].mtime >= backups[mine[p].name].mtime
    BY <1>2 DEF Newest
  <2>2. QED
    BY <1>1, <1>2, <2>1
<1>4. QED
  BY <1>1, <1>2, <1>3

LEMMA SortUnhurt ==
    ASSUME Basic, NEW p \in Procs, setting.procs = {p}, Unhurt(p), SortBackups(p)
    PROVE  Unhurt(p)'
<1>1. /\ UNCHANGED <<file, backups, ticks, saved>> /\ pc[p] = "sort"
      /\ mine'[p].list = mine[p].list /\ mine'[p].data = mine[p].data /\ mine'[p].name = mine[p].name
  BY SortFacts
<1>2. mine[p].list = Names /\ \A n \in Newest(Names) : backups[n].content = saved
  BY <1>1, OneNewest
<1>3. CASE /\ TooMany(mine[p].list) /\ pc'[p] = "unlink"
           /\ \A n \in mine[p].list : mine'[p].times[n] = backups[n].mtime
  <2>1. TooMany(mine[p].list)'
    BY <1>1, <1>3, SortFacts DEF TooMany
  <2>2. QED
    BY <1>1, <1>2, <1>3, <2>1, SameBackups DEF Unhurt, At, Exists, Repairing, Saving
<1>4. CASE pc'[p] = "write"
  <2>1. Names # {}
    BY <1>1, OneNewest
  <2>2. QED
    BY <1>1, <1>2, <1>4, <2>1, SameBackups DEF Unhurt, At, Exists, Repairing, Saving
<1>5. QED
  BY <1>2, <1>3, <1>4, SortFacts

\* The oldest copy is never the one just made, as at least one is kept.
LEMMA UnlinkUnhurt ==
    ASSUME Basic, NEW p \in Procs, setting.procs = {p}, Unhurt(p), UnlinkOldest(p)
    PROVE  Unhurt(p)'
<1>0. /\ TypeOK /\ backups \in [0..LastSecond -> Files \cup {Absent}] /\ setting.keep \in Nat \ {0}
      /\ Names \subseteq 0..LastSecond /\ IsFiniteSet(Names)
  BY SettingOK, FiniteNames DEF Basic, TypeOK
<1>1. /\ UNCHANGED <<file, ticks, saved, setting>> /\ pc[p] = "unlink"
      /\ mine'[p].data = mine[p].data /\ mine'[p].name = mine[p].name /\ mine'[p].times = mine[p].times
  BY UnlinkFacts
<1>2. PICK m : m = mine[p].name
  OBVIOUS
<1>3. /\ m \in Names /\ mine[p].list = Names /\ \A n \in Names : backups[n].mtime \in Nat
      /\ backups[m] = file /\ Exists(file) /\ file.content = saved
      /\ \A n \in Names \ {m} : backups[n].mtime < backups[m].mtime
  BY <1>1, <1>2, OneNewest
<1>4. TooMany(Names) /\ \A n \in Names : mine[p].times[n] = backups[n].mtime
  BY <1>1, <1>3 DEF Unhurt, At
<1>5. PICK n \in Oldest(mine[p]) :
        \/ /\ Exists(backups[n]) /\ backups' = [backups EXCEPT ![n] = Absent]
           /\ mine'[p].list = mine[p].list \ {n}
           /\ \/ TooMany(mine'[p].list) /\ pc'[p] = "unlink"
              \/ ~TooMany(mine'[p].list) /\ pc'[p] = "write"
        \/ ~Exists(backups[n])
  BY UnlinkFacts
<1>6. n \in Names /\ \A o \in Names : backups[n].mtime <= backups[o].mtime
  BY <1>3, <1>4, <1>5 DEF Oldest
<1>7. n # m
  <2>1. PICK o \in Names : o # m
    <3>1. Names # {m}
      <4>1. Cardinality({m}) = 1
        BY FS_Singleton
      <4>2. ~TooMany({m})
        BY <1>0, <4>1 DEF TooMany
      <4>3. QED
        BY <1>4, <4>2
    <3>2. QED
      BY <1>3, <3>1
  <2>2. backups[n].mtime <= backups[o].mtime /\ backups[o].mtime < backups[m].mtime
    BY <1>3, <1>6, <2>1
  <2>3. QED
    BY <1>3, <1>6, <2>1, <2>2
<1>8. /\ backups' = [backups EXCEPT ![n] = Absent] /\ mine'[p].list = Names \ {n}
      /\ \/ TooMany(mine'[p].list) /\ pc'[p] = "unlink"
         \/ ~TooMany(mine'[p].list) /\ pc'[p] = "write"
  BY <1>3, <1>5, <1>6 DEF Names
<1>9. Names' = Names \ {n} /\ \A o \in Names' : backups'[o] = backups[o]
  BY <1>0, <1>6, <1>8 DEF Names, Exists
<1>10. m \in Names' /\ backups'[m] = file /\ \A o \in Names' : backups'[o].mtime < ticks'
  BY <1>1, <1>3, <1>7, <1>9 DEF Unhurt
<1>11. Older(Names \ {m}, file)'
  BY <1>1, <1>2, <1>3, <1>9 DEF Older
<1>12. \A o \in Newest(Names)' : backups'[o].content = saved
  <2>1. SUFFICES ASSUME NEW o \in Names', backups'[o].mtime >= backups'[m].mtime
                 PROVE  o = m
    BY <1>3, <1>10 DEF Newest
  <2>2. QED
    BY <1>3, <1>9, <1>10, <2>1
<1>13. \A o \in Names' : mine'[p].times[o] = backups'[o].mtime
  BY <1>1, <1>4, <1>9
<1>14. /\ saved \subseteq mine[p].data /\ Cardinality(mine[p].data \ saved) <= 1 /\ file.mtime < ticks
  BY <1>1, <1>3 DEF Unhurt, Saving
<1>15. CASE TooMany(mine'[p].list) /\ pc'[p] = "unlink"
  <2>1. TooMany(mine[p].list)'
    BY <1>1, <1>15 DEF TooMany
  <2>2. QED
    BY <1>1, <1>2, <1>3, <1>8, <1>9, <1>10, <1>11, <1>13, <1>14, <1>15, <2>1
       DEF Unhurt, At, Exists, Repairing, Saving
<1>16. CASE pc'[p] = "write"
  BY <1>1, <1>3, <1>10, <1>12, <1>14, <1>16 DEF Unhurt, At, Exists, Repairing, Saving
<1>17. QED
  BY <1>8, <1>15, <1>16

LEMMA OtherStepsUnhurt ==
    ASSUME Basic, NEW p \in Procs, setting.procs = {p}, Unhurt(p),
           \/ Read(p) \/ FindBackup(p) \/ RankBackups(p) \/ Restore(p) \/ CopyBack(p) \/ Reread(p)
           \/ Update(p) \/ ReadOnly(p) \/ WriteTemp(p) \/ Rename(p)
    PROVE  Unhurt(p)'
<1>0. /\ TypeOK /\ ticks \in Nat /\ mine[p] \in Locals /\ IsFiniteSet(Names)
      /\ \A n \in Names : backups[n].mtime \in Nat
  BY FiniteNames DEF Basic, TypeOK, Names, Exists, Files
<1>1. ~(FindBackup(p) \/ RankBackups(p) \/ Restore(p) \/ CopyBack(p) \/ Reread(p))
  BY DEF Unhurt, FindBackup, RankBackups, Restore, CopyBack, Reread, At, Repairing
<1>2. CASE Read(p)
  <2>1. Exists(file) => Readable(file)
    BY <1>0, SafeFileAssumption DEF Unhurt, Readable, TypeOK
  <2>2. Given(p, saved)
    <3>1. CASE Readable(file) /\ Given(p, file.content)
      <4>1. file.content = saved
        BY <3>1 DEF Unhurt, Readable
      <4>2. QED
        BY <3>1, <4>1
    <3>2. CASE ~Exists(file) /\ Given(p, {})
      <4>1. saved = {}
        BY <3>2 DEF Unhurt
      <4>2. QED
        BY <3>2, <4>1
    <3>3. QED
      BY <1>2, <2>1, <3>1, <3>2, ReadFacts
  <2>3. pc'[p] = "have" /\ mine'[p].data = saved
    BY <2>2 DEF Given
  <2>4. UNCHANGED <<file, backups, ticks, saved>> /\ pc[p] = "idle"
    BY <1>2, ReadFacts
  <2>5. QED
    BY <2>3, <2>4, SameBackups DEF Unhurt, At, Exists, Repairing, Saving
<1>3. CASE Update(p)
  <2>1. UNCHANGED <<file, backups, ticks, saved>>
    BY <1>3, UpdateFacts
  <2>2. PICK u : pc[p] = "have" /\ pc'[p] = "backup" /\ mine'[p].data = mine[p].data \cup {u}
    BY <1>3, UpdateFacts
  <2>3. mine'[p].data = saved \cup {u}
    BY <2>2 DEF Unhurt, At
  <2>4. Cardinality(mine'[p].data \ saved) <= 1
    <3>1. IsFiniteSet({u}) /\ Cardinality({u}) = 1
      BY FS_Singleton
    <3>2. mine'[p].data \ saved \in SUBSET {u}
      BY <2>3
    <3>3. QED
      BY <3>1, <3>2, FS_Subset
  <2>5. QED
    BY <2>1, <2>2, <2>3, <2>4, SameBackups DEF Unhurt, At, Exists, Repairing, Saving
<1>4. CASE ReadOnly(p)
  <2>1. UNCHANGED <<file, backups, ticks, saved>> /\ pc[p] = "have" /\ pc'[p] = "idle"
    BY <1>4, ReadOnlyFacts
  <2>2. QED
    BY <2>1, SameBackups DEF Unhurt, At, Exists, Repairing, Saving
<1>5. CASE WriteTemp(p)
  <2>1. UNCHANGED <<file, backups, saved>> /\ ticks' = ticks + 1
    BY <1>5, WriteFacts
  <2>2. /\ pc[p] = "write" /\ pc'[p] = "rename" /\ mine'[p].data = mine[p].data
        /\ mine'[p].src = Written(mine[p].data)
    BY <1>5, WriteFacts
  <2>3. mine'[p].src.mtime = ticks
    BY <1>0, <2>2, WrittenOK DEF Locals, Contents
  <2>4. Older(Names, mine[p].src)'
    BY <2>1, <2>3, SameBackups DEF Unhurt, Older
  <2>5. /\ Exists(file) => file.mtime < ticks'
        /\ \A n \in Names' : backups'[n].mtime < ticks'
    <3>1. Exists(file) => file.mtime \in Nat
      BY <1>0 DEF TypeOK, Exists, Files
    <3>2. QED
      BY <1>0, <2>1, <3>1, SameBackups DEF Unhurt
  <2>6. mine'[p].src.mtime < ticks'
    BY <1>0, <2>1, <2>3
  <2>7. QED
    BY <2>1, <2>2, <2>4, <2>5, <2>6, SameBackups DEF Unhurt, At, Exists, Repairing, Saving
<1>6. CASE Rename(p)
  <2>1. /\ file' = mine[p].src /\ saved' = saved \cup mine[p].data /\ UNCHANGED <<backups, ticks>>
        /\ pc[p] = "rename" /\ pc'[p] = "idle"
    BY <1>6, RenameFacts
  <2>2. Exists(file') /\ file'.content = mine[p].data /\ file'.mtime < ticks'
    BY <2>1, TempWhole DEF Unhurt, At
  <2>3. saved' = mine[p].data /\ Cardinality(mine[p].data \ saved) <= 1
    BY <2>1 DEF Unhurt, Saving
  <2>4. Older(Names, file)'
    BY <2>1 DEF Unhurt, At, Older, Names, Exists
  <2>5. Names' = Names /\ Newest(Names)' = Newest(Names)
    BY <2>1 DEF Names, Newest, Exists
  <2>6. Recoverable'
    <3>1. CASE Names = {}
      <4>1. saved = {}
        BY <2>1, <3>1 DEF Unhurt
      <4>2. saved' \ {} = mine[p].data \ saved
        BY <2>3, <4>1
      <4>3. QED
        BY <2>3, <2>5, <3>1, <4>2 DEF Recoverable, LacksOne
    <3>2. CASE Names # {}
      <4>1. \A n \in Newest(Names) : backups[n].content = saved
        BY <2>1, <3>2 DEF Unhurt
      <4>2. saved # Bad
        BY <1>0, SafeFileAssumption DEF TypeOK
      <4>3. QED
        BY <2>1, <2>3, <2>5, <3>2, <4>1, <4>2 DEF Recoverable, Good, LacksOne
    <3>3. QED
      BY <3>1, <3>2
  <2>7. QED
    BY <2>1, <2>2, <2>3, <2>4, <2>5, <2>6 DEF Unhurt, At, Exists, Repairing, Saving
<1>7. QED
  BY <1>1, <1>2, <1>3, <1>4, <1>5, <1>6

-----------------------------------------------------------------------------
(* After the fault. *)

LEMMA ReadsHurt ==
    ASSUME Basic, NEW p \in Procs, setting.procs = {p}, Hurt(p),
           \/ Read(p) \/ FindBackup(p) \/ RankBackups(p) \/ Restore(p) \/ CopyBack(p) \/ Reread(p)
    PROVE  Hurt(p)'
<1>0. TypeOK
  BY DEF Basic
<1>1. UNCHANGED <<backups, saved>>
  BY ReadFacts, FindFacts, RankFacts, RestoreFacts, CopyBackFacts, RereadFacts
<1>2. ASSUME NEW X, Given(p, X), LacksOne(X), UNCHANGED file,
             IF Exists(file) THEN Good(file) \/ (file.content = Bad /\ Recoverable) ELSE saved = {}
      PROVE  Hurt(p)'
  BY <1>1, <1>2, SameBackups DEF Hurt, At, Exists, Given, Saving
<1>3. CASE Read(p)
  <2>1. UNCHANGED file /\ pc[p] = "idle"
    BY <1>3, ReadFacts
  <2>2. IF Exists(file) THEN Good(file) \/ (file.content = Bad /\ Recoverable) ELSE saved = {}
    BY <2>1 DEF Hurt
  <2>3. CASE Readable(file) /\ Given(p, file.content)
    BY <1>2, <2>1, <2>2, <2>3 DEF Readable, Good
  <2>4. CASE ~Exists(file) /\ Given(p, {})
    BY <1>0, <1>2, <2>1, <2>2, <2>4, Lacking
  <2>5. CASE Exists(file) /\ ~Readable(file) /\ pc'[p] = "find"
    <3>1. file.content = Bad /\ Recoverable
      BY <2>2, <2>5 DEF Readable, Good
    <3>2. QED
      BY <1>1, <2>1, <2>5, <3>1, SameBackups DEF Hurt, At, Exists, Saving
  <2>6. QED
    BY <1>3, <2>3, <2>4, <2>5, ReadFacts
<1>4. CASE FindBackup(p)
  <2>1. UNCHANGED file /\ pc[p] = "find" /\ pc'[p] = "rank" /\ mine'[p].list = Names
    BY <1>4, FindFacts
  <2>2. QED
    BY <1>1, <2>1, SameBackups DEF Hurt, At, Exists, Saving
<1>5. CASE RankBackups(p)
  <2>1. UNCHANGED file /\ pc[p] = "rank"
    BY <1>5, RankFacts
  <2>2. Exists(file) /\ file.content = Bad /\ Recoverable /\ mine[p].list = Names
    BY <2>1 DEF Hurt, At
  <2>3. CASE mine[p].list = {} /\ Given(p, {})
    BY <1>2, <2>1, <2>2, <2>3 DEF Recoverable
  <2>4. CASE pc'[p] = "restore" /\ mine'[p].name \in Newest(mine[p].list)
    <3>1. mine'[p].name \in Names /\ Good(backups[mine'[p].name])
      BY <2>2, <2>4 DEF Recoverable, Newest
    <3>2. QED
      BY <1>1, <2>4, <3>1, SameBackups DEF Hurt, At, Saving
  <2>5. QED
    BY <1>5, <2>2, <2>3, <2>4, RankFacts
<1>6. CASE Restore(p)
  <2>1. mine[p].name \in Names /\ Good(backups[mine[p].name])
    BY <1>6, RestoreFacts DEF Hurt, At
  <2>2. /\ Exists(backups[mine[p].name]) /\ pc'[p] = "copying"
        /\ mine'[p].src = backups[mine[p].name]
    BY <1>6, <2>1, RestoreFacts DEF Names
  <2>3. QED
    BY <1>1, <2>1, <2>2, SameBackups DEF Hurt, At, Exists, Saving
<1>7. CASE CopyBack(p)
  <2>1. pc[p] = "copying" /\ file' = mine[p].src /\ pc'[p] = "reread"
    BY <1>7, CopyBackFacts
  <2>2. Exists(file') /\ Good(file')
    BY <2>1 DEF Hurt, At
  <2>3. QED
    BY <1>1, <2>1, <2>2, SameBackups DEF Hurt, At, Exists, Saving
<1>8. CASE Reread(p)
  <2>1. UNCHANGED file /\ pc[p] = "reread" /\ Given(p, IF Readable(file) THEN file.content ELSE {})
    BY <1>8, RereadFacts
  <2>2. Exists(file) /\ Good(file) /\ Readable(file)
    BY <2>1 DEF Hurt, Readable, Good, At
  <2>3. QED
    BY <1>2, <2>1, <2>2 DEF Good
<1>9. QED
  BY <1>3, <1>4, <1>5, <1>6, <1>7, <1>8

LEMMA WritesHurt ==
    ASSUME Basic, NEW p \in Procs, setting.procs = {p}, Hurt(p),
           \/ Update(p) \/ ReadOnly(p) \/ OpenBackup(p) \/ CopyToBackup(p) \/ ListBackups(p)
           \/ SortBackups(p) \/ UnlinkOldest(p) \/ WriteTemp(p) \/ Rename(p)
    PROVE  Hurt(p)'
<1>0. TypeOK
  BY DEF Basic
<1>1. CASE \/ Update(p) \/ OpenBackup(p) \/ CopyToBackup(p) \/ ListBackups(p) \/ SortBackups(p)
           \/ UnlinkOldest(p) \/ WriteTemp(p)
  <2>1. /\ UNCHANGED saved /\ pc[p] \in Saving \cup {"have"} /\ pc'[p] \in Saving
        /\ mine[p].data \subseteq mine'[p].data
    BY <1>1, SavingSteps
  <2>2. LacksOne(mine'[p].data)
    BY <1>0, <2>1, Lacking DEF Hurt
  <2>3. LacksOne(mine[p].data)'
    BY <2>1, <2>2 DEF LacksOne
  <2>4. QED
    BY <2>1, <2>3 DEF Hurt, At, Saving
<1>2. CASE ReadOnly(p)
  <2>1. UNCHANGED <<file, backups, saved>> /\ pc[p] = "have" /\ pc'[p] = "idle"
    BY <1>2, ReadOnlyFacts
  <2>2. QED
    BY <2>1, SameBackups DEF Hurt, At, Exists, Saving
<1>3. CASE Rename(p)
  <2>1. /\ file' = mine[p].src /\ saved' = saved \cup mine[p].data
        /\ pc[p] = "rename" /\ pc'[p] = "idle"
    BY <1>3, RenameFacts
  <2>2. Exists(file') /\ file'.content = mine[p].data /\ file'.content # Bad
    BY <2>1, TempWhole DEF At, Readable
  <2>3. LacksOne(mine[p].data)
    BY <2>1 DEF Hurt, Saving
  <2>4. saved' \ mine[p].data = saved \ mine[p].data
    BY <2>1
  <2>5. Good(file)'
    BY <2>2, <2>3, <2>4 DEF Good, LacksOne
  <2>6. QED
    BY <2>1, <2>2, <2>5 DEF Hurt, At, Exists, Saving
<1>4. QED
  BY <1>1, <1>2, <1>3

LEMMA NextOneFault ==
    Basic /\ (\A p \in Procs : OneFault(p)) /\ [Next]_vars => (\A p \in Procs : OneFault(p))'
<1> SUFFICES ASSUME Basic, \A p \in Procs : OneFault(p), [Next]_vars,
                    NEW p \in Procs, setting'.procs = {p}, setting'.most = 1
             PROVE  (faults' = 0 => Unhurt(p)') /\ (faults' = 1 => Hurt(p)')
  BY DEF OneFault
<1>1. UNCHANGED setting
  <2>1. CASE NextSecond \/ Damage \/ UNCHANGED vars
    BY <2>1, OutsideFacts
  <2>2. ASSUME NEW q \in setting.procs, Step(q) PROVE UNCHANGED setting
    <3>1. q \in Procs
      BY SettingOK DEF Basic
    <3>2. QED
      BY <2>2, <3>1, StepCopies
  <2>3. QED
    BY <2>1, <2>2 DEF Next
<1>2. /\ setting.procs = {p} /\ setting.most = 1 /\ faults \in {0, 1}
      /\ faults = 0 => Unhurt(p)
      /\ faults = 1 => Hurt(p)
  BY <1>1 DEF OneFault, Basic, TypeOK
<1>3. CASE Damage \/ DiskFull(p) \/ Crash(p)
  <2>1. faults = 0 /\ faults' = 1
    BY <1>2, <1>3 DEF Damage, DiskFull, Crash, Fault
  <2>2. QED
    BY <1>2, <1>3, <2>1, FaultHurts
<1>4. CASE NextSecond \/ UNCHANGED vars
  <2>1. UNCHANGED <<file, backups, ticks, saved, pc, mine, faults>>
    BY <1>4 DEF NextSecond, vars, history
  <2>2. Unhurt(p) => Unhurt(p)'
    <3>1. TooMany(mine[p].list)' <=> TooMany(mine[p].list)
      BY <1>1, <2>1 DEF TooMany
    <3>2. QED
      BY <2>1, <3>1, SameBackups DEF Unhurt, At, Exists
  <2>3. Hurt(p) => Hurt(p)'
    BY <2>1, SameBackups DEF Hurt, At, Exists
  <2>4. QED
    BY <1>2, <2>1, <2>2, <2>3
<1>5. CASE Step(p) /\ ~DiskFull(p) /\ ~Crash(p)
  <2>1. UNCHANGED faults
    BY <1>5, ReadFacts, FindFacts, RankFacts, RestoreFacts, CopyBackFacts, RereadFacts, UpdateFacts,
       ReadOnlyFacts, OpenFacts, CopyFacts, ListBackupsFacts, SortFacts, UnlinkFacts, WriteFacts,
       RenameFacts DEF Step
  <2>2. Unhurt(p) => Unhurt(p)'
    BY <1>2, <1>5, BackupUnhurt, ListUnhurt, SortUnhurt, UnlinkUnhurt,
       OtherStepsUnhurt DEF Step
  <2>3. Hurt(p) => Hurt(p)'
    BY <1>2, <1>5, ReadsHurt, WritesHurt DEF Step
  <2>4. QED
    BY <1>2, <2>1, <2>2, <2>3
<1>6. QED
  BY <1>2, <1>3, <1>4, <1>5 DEF Next, Step

LEMMA InitOneFault == Init => \A p \in Procs : OneFault(p)
<1> SUFFICES ASSUME Init, NEW p \in Procs PROVE Unhurt(p) /\ faults = 0
  BY DEF OneFault
<1>1. Names = {} /\ saved = {} /\ pc[p] = "idle" /\ file = Absent /\ faults = 0
  BY DEF Init, Names, Exists
<1>2. LacksOne({})
  BY <1>1, FS_EmptySet DEF LacksOne
<1>3. QED
  BY <1>1, <1>2 DEF Unhurt, Exists, Recoverable, Older, Repairing, Saving, At

\* A process alone that meets one fault, a crash at any step, a full disk or a damaged
\* file, reads back all it saved but one save at most, whatever backups were pruned and
\* however fast the saves came (file_utils.py:15-26, 53-73).
THEOREM LosesOneSave == Spec => []LosesAtMostOneSave
<1>1. Spec => [](Basic /\ \A p \in Procs : OneFault(p))
  BY InitBasic, NextBasic, InitOneFault, NextOneFault, PTL DEF Spec
<1>2. Basic /\ (\A p \in Procs : OneFault(p)) => LosesAtMostOneSave
  <2> SUFFICES ASSUME Basic, \A p \in Procs : OneFault(p),
                      Cardinality(setting.procs) = 1, setting.most = 1,
                      NEW p \in Procs, At(p, "have")
               PROVE  Cardinality(saved \ result[p]) <= 1
    BY DEF LosesAtMostOneSave
  <2>1. TypeOK /\ faults \in {0, 1}
    BY DEF Basic, TypeOK
  <2>2. PICK q \in Procs : setting.procs = {q}
    BY <2>1, OneProcess
  <2>3. p = q /\ result[p] = mine[p].data
    BY <2>2 DEF Basic, InHand, At
  <2>4. LacksOne(mine[p].data)
    <3>1. CASE faults = 0
      BY <2>1, <2>2, <2>3, <3>1, Lacking DEF OneFault, Unhurt
    <3>2. CASE faults = 1
      BY <2>2, <2>3, <3>2 DEF OneFault, Hurt, At
    <3>3. QED
      BY <2>1, <3>1, <3>2
  <2>5. QED
    BY <2>3, <2>4 DEF LacksOne
<1>3. QED
  BY <1>1, <1>2, PTL
=============================================================================
