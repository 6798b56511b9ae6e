------------------------- MODULE SharedRulesProofs -------------------------
(***************************************************************************)
(* What the bot said of a rule holds in the file, and in what the proxy    *)
(* goes by Ttl later, for any number of rules and deliveries, through      *)
(* restarts and failed writes of other rules, unless a default or a        *)
(* delivery's copy was saved over a change.  The invariant is about the    *)
(* copies: the bot's cache and the table it works on say what the          *)
(* administrator was told, but for the rule at hand and those whose last   *)
(* save failed; a copy of the proxy does for every rule that was saved     *)
(* longer ago than the copy is old.                                        *)
(***************************************************************************)
EXTENDS SharedRules, TLAPS

\* The rules of the file, and the actors that share the proxy's cache
InFile == IF file = None THEN {} ELSE file
Ours == {"proxy"} \cup Deliveries

-----------------------------------------------------------------------------
\* No file, no cache; the table the bot works on is the cached one; what its command is.
NoFile == file = None => cache["bot"].data = None
HaveFile == pc["bot"] \in {"fill", "stamp"} => file # None
Defaults == \A a \in Actors : pc[a] = "default" => local[a].data = {}
BotCopy == pc["bot"] \in {"use", "save"} => cache["bot"].data \in {None, local["bot"].data}
BotTask == pc["bot"] # "idle" =>
    /\ local["bot"].op \in {"add", "remove", "list"}
    /\ local["bot"].op # "list" => local["bot"].item \in Items
BotEdit == pc["bot"] = "save" =>
    /\ local["bot"].op # "list"
    /\ local["bot"].item \in local["bot"].data <=> local["bot"].op = "add"
Shape == NoFile /\ HaveFile /\ Defaults /\ BotCopy /\ BotTask /\ BotEdit

-----------------------------------------------------------------------------
(* What the administrator was told, in the file and in every copy of it *)

\* The rule of a change that has not been saved yet
Pending(i) == pc["bot"] = "save" /\ i = local["bot"].item
FileKept == \A i \in Items : Agrees(InFile, i)
BotKept == \A i \in Items : ~Pending(i) =>
    /\ cache["bot"].data # None => Agrees(cache["bot"].data, i)
    /\ local["bot"].data # None => Agrees(local["bot"].data, i)
CacheKept == cache["proxy"].data # None =>
    \A i \in Items : since[i] > cache["proxy"].age => Agrees(cache["proxy"].data, i)
CopiesKept == \A a \in Ours : local[a].data # None => \A i \in Items :
    since[i] = Ttl \/ (pc[a] \in {"fill", "stamp"} /\ since[i] > 0) => Agrees(local[a].data, i)

Kept == FileKept /\ BotKept /\ CacheKept /\ CopiesKept
IInv == TypeOK /\ Shape /\ (upset = {} => Kept)

-----------------------------------------------------------------------------
(* Every step keeps the types *)

LEMMA Constants ==
  /\ Settings \subseteq Setting
  /\ Ttl \in Nat \ {0}
  /\ None \notin Items \cup SUBSET Items
  /\ Deliveries \cap Procs = {}
BY RulesAssumption

LEMMA NoLocalsTyped == NoLocals \in Local /\ NoLocals.data = None
BY DEF NoLocals, Local, Table

LEMMA LocalEdits ==
  ASSUME NEW l \in Local
  PROVE  /\ \A x \in Table : [l EXCEPT !.data = x] \in Local
         /\ \A x \in Table : [l EXCEPT !.data = x].data = x
         /\ \A x \in {"add", "remove", "list", "apply", "success", "failure", "none"} :
               [l EXCEPT !.op = x] \in Local /\ [l EXCEPT !.op = x].data = l.data
         /\ \A x \in Items : [l EXCEPT !.item = x] \in Local /\ [l EXCEPT !.item = x].data = l.data
         /\ l.data \in Table
BY DEF Local

\* A load starts from a table in the cache or from none.
LEMMA LoadTypes ==
  ASSUME TypeOK, NEW a \in Actors, NEW mine \in Local, mine.data = None, Load(a, mine)
  PROVE  TypeOK'
<1>. DEFINE p == Proc(a)
<1>1. p \in Procs
  BY DEF Proc, Procs
<1>2. cache[p].data \in Table
  BY <1>1 DEF TypeOK
<1>3. CASE Fresh(p)
  <2>1. pc' = [pc EXCEPT ![a] = "use"] /\ local' = [local EXCEPT ![a] = [mine EXCEPT !.data = cache[p].data]]
    BY <1>3 DEF Load, Goto
  <2>2. [mine EXCEPT !.data = cache[p].data] \in Local /\ [mine EXCEPT !.data = cache[p].data].data # None
    BY <1>2, <1>3, LocalEdits DEF Fresh
  <2>. QED
    BY <2>1, <2>2 DEF TypeOK, Load, history, Phases
<1>4. CASE ~Fresh(p)
  <2>1. pc' = [pc EXCEPT ![a] = "look"] /\ local' = [local EXCEPT ![a] = mine]
    BY <1>4 DEF Load, Goto
  <2>. QED
    BY <2>1 DEF TypeOK, Load, history, Phases
<1>. QED
  BY <1>3, <1>4

LEMMA LookTypes ==
  ASSUME TypeOK, Shape, NEW a \in Actors, Look(a)
  PROVE  TypeOK'
<1>. USE Constants
<1>1. setting' \in Setting
  BY DEF TypeOK, Look, Setting, Goto, Done, Proc, Procs, Actors, NoLocals, history, Load
<1>2. file' \in Table /\ upset' \subseteq {"default", "delivery"}
  BY DEF TypeOK, Look, Table, Local, Goto, Done, Proc, Procs, Actors, NoLocals, history, Load
<1>3. cache' \in [Procs -> [data : Table, age : 0 .. Ttl]]
  BY DEF TypeOK, Shape, Look, Local, Table, Goto, Done, Proc, Procs, Actors, NoLocals, history, Load
<1>4. pc' \in [Actors -> Phases]
  BY DEF TypeOK, Look, Phases, Goto, Done, Proc, Procs, Actors, NoLocals, history, Load
<1>5. local' \in [Actors -> Local]
  BY DEF TypeOK, Look, Local, Table, Goto, Done, Proc, Procs, Actors, NoLocals, history, Load
<1>6. \A b \in Actors : local'[b].data = None <=> pc'[b] \in {"idle", "posting", "look"}
  BY DEF TypeOK, Look, Local, Table, Goto, Done, Proc, Procs, Actors, NoLocals, history, Load
<1>7. status' \in [Items -> {"never", "listed", "removed"}] /\ unsaved' \subseteq Items /\ since' \in [Items -> 0 .. Ttl]
  BY DEF TypeOK, Shape, Look, Goto, Done, Proc, Procs, Actors, NoLocals, history, Load
<1>. QED
  BY <1>1, <1>2, <1>3, <1>4, <1>5, <1>6, <1>7 DEF TypeOK

LEMMA SaveDefaultTypes ==
  ASSUME TypeOK, Shape, NEW a \in Actors, SaveDefault(a)
  PROVE  TypeOK'
<1>. USE Constants
<1>1. setting' \in Setting
  BY DEF TypeOK, SaveDefault, Setting, Goto, Done, Proc, Procs, Actors, NoLocals, history, Load
<1>2. file' \in Table /\ upset' \subseteq {"default", "delivery"}
  BY DEF TypeOK, SaveDefault, Table, Local, Goto, Done, Proc, Procs, Actors, NoLocals, history, Load
<1>3. cache' \in [Procs -> [data : Table, age : 0 .. Ttl]]
  BY DEF TypeOK, Shape, SaveDefault, Local, Table, Goto, Done, Proc, Procs, Actors, NoLocals, history, Load
<1>4. pc' \in [Actors -> Phases]
  BY DEF TypeOK, SaveDefault, Phases, Goto, Done, Proc, Procs, Actors, NoLocals, history, Load
<1>5. local' \in [Actors -> Local]
  BY DEF TypeOK, SaveDefault, Local, Table, Goto, Done, Proc, Procs, Actors, NoLocals, history, Load
<1>6. \A b \in Actors : local'[b].data = None <=> pc'[b] \in {"idle", "posting", "look"}
  BY DEF TypeOK, SaveDefault, Local, Table, Goto, Done, Proc, Procs, Actors, NoLocals, history, Load
<1>7. status' \in [Items -> {"never", "listed", "removed"}] /\ unsaved' \subseteq Items /\ since' \in [Items -> 0 .. Ttl]
  BY DEF TypeOK, Shape, SaveDefault, Goto, Done, Proc, Procs, Actors, NoLocals, history, Load
<1>. QED
  BY <1>1, <1>2, <1>3, <1>4, <1>5, <1>6, <1>7 DEF TypeOK

LEMMA SaveDefaultFailsTypes ==
  ASSUME TypeOK, Shape, NEW a \in Actors, SaveDefaultFails(a)
  PROVE  TypeOK'
<1>. USE Constants
<1>1. setting' \in Setting
  BY DEF TypeOK, SaveDefaultFails, Setting, Goto, Done, Proc, Procs, Actors, NoLocals, history, Load
<1>2. file' \in Table /\ upset' \subseteq {"default", "delivery"}
  BY DEF TypeOK, SaveDefaultFails, Table, Local, Goto, Done, Proc, Procs, Actors, NoLocals, history, Load
<1>3. cache' \in [Procs -> [data : Table, age : 0 .. Ttl]]
  BY DEF TypeOK, Shape, SaveDefaultFails, Local, Table, Goto, Done, Proc, Procs, Actors, NoLocals, history, Load
<1>4. pc' \in [Actors -> Phases]
  BY DEF TypeOK, SaveDefaultFails, Phases, Goto, Done, Proc, Procs, Actors, NoLocals, history, Load
<1>5. local' \in [Actors -> Local]
  BY DEF TypeOK, SaveDefaultFails, Local, Table, Goto, Done, Proc, Procs, Actors, NoLocals, history, Load
<1>6. \A b \in Actors : local'[b].data = None <=> pc'[b] \in {"idle", "posting", "look"}
  BY DEF TypeOK, SaveDefaultFails, Local, Table, Goto, Done, Proc, Procs, Actors, NoLocals, history, Load
<1>7. status' \in [Items -> {"never", "listed", "removed"}] /\ unsaved' \subseteq Items /\ since' \in [Items -> 0 .. Ttl]
  BY DEF TypeOK, Shape, SaveDefaultFails, Goto, Done, Proc, Procs, Actors, NoLocals, history, Load
<1>. QED
  BY <1>1, <1>2, <1>3, <1>4, <1>5, <1>6, <1>7 DEF TypeOK

LEMMA FillTypes ==
  ASSUME TypeOK, Shape, NEW a \in Actors, Fill(a)
  PROVE  TypeOK'
<1>. USE Constants
<1>1. setting' \in Setting
  BY DEF TypeOK, Fill, Setting, Goto, Done, Proc, Procs, Actors, NoLocals, history, Load
<1>2. file' \in Table /\ upset' \subseteq {"default", "delivery"}
  BY DEF TypeOK, Fill, Table, Local, Goto, Done, Proc, Procs, Actors, NoLocals, history, Load
<1>3. cache' \in [Procs -> [data : Table, age : 0 .. Ttl]]
  BY DEF TypeOK, Shape, Fill, Local, Table, Goto, Done, Proc, Procs, Actors, NoLocals, history, Load
<1>4. pc' \in [Actors -> Phases]
  BY DEF TypeOK, Fill, Phases, Goto, Done, Proc, Procs, Actors, NoLocals, history, Load
<1>5. local' \in [Actors -> Local]
  BY DEF TypeOK, Fill, Local, Table, Goto, Done, Proc, Procs, Actors, NoLocals, history, Load
<1>6. \A b \in Actors : local'[b].data = None <=> pc'[b] \in {"idle", "posting", "look"}
  BY DEF TypeOK, Fill, Local, Table, Goto, Done, Proc, Procs, Actors, NoLocals, history, Load
<1>7. status' \in [Items -> {"never", "listed", "removed"}] /\ unsaved' \subseteq Items /\ since' \in [Items -> 0 .. Ttl]
  BY DEF TypeOK, Shape, Fill, Goto, Done, Proc, Procs, Actors, NoLocals, history, Load
<1>. QED
  BY <1>1, <1>2, <1>3, <1>4, <1>5, <1>6, <1>7 DEF TypeOK

LEMMA StampTypes ==
  ASSUME TypeOK, Shape, NEW a \in Actors, Stamp(a)
  PROVE  TypeOK'
<1>. USE Constants
<1>1. setting' \in Setting
  BY DEF TypeOK, Stamp, Setting, Goto, Done, Proc, Procs, Actors, NoLocals, history, Load
<1>2. file' \in Table /\ upset' \subseteq {"default", "delivery"}
  BY DEF TypeOK, Stamp, Table, Local, Goto, Done, Proc, Procs, Actors, NoLocals, history, Load
<1>3. cache' \in [Procs -> [data : Table, age : 0 .. Ttl]]
  BY DEF TypeOK, Shape, Stamp, Local, Table, Goto, Done, Proc, Procs, Actors, NoLocals, history, Load
<1>4. pc' \in [Actors -> Phases]
  BY DEF TypeOK, Stamp, Phases, Goto, Done, Proc, Procs, Actors, NoLocals, history, Load
<1>5. local' \in [Actors -> Local]
  BY DEF TypeOK, Stamp, Local, Table, Goto, Done, Proc, Procs, Actors, NoLocals, history, Load
<1>6. \A b \in Actors : local'[b].data = None <=> pc'[b] \in {"idle", "posting", "look"}
  BY DEF TypeOK, Stamp, Local, Table, Goto, Done, Proc, Procs, Actors, NoLocals, history, Load
<1>7. status' \in [Items -> {"never", "listed", "removed"}] /\ unsaved' \subseteq Items /\ since' \in [Items -> 0 .. Ttl]
  BY DEF TypeOK, Shape, Stamp, Goto, Done, Proc, Procs, Actors, NoLocals, history, Load
<1>. QED
  BY <1>1, <1>2, <1>3, <1>4, <1>5, <1>6, <1>7 DEF TypeOK

LEMMA CommandTypes ==
  ASSUME TypeOK, Shape, Command
  PROVE  TypeOK'
<1>1. PICK mine \in [data : {None}, item : Items \cup {None}, op : {"add", "remove", "list"}] : Load("bot", mine)
  BY DEF Command
<1>2. mine \in Local /\ mine.data = None
  BY DEF Local, Table
<1>. QED
  BY <1>1, <1>2, LoadTypes DEF Actors, Procs

LEMMA ChangeTypes ==
  ASSUME TypeOK, Shape, Change
  PROVE  TypeOK'
<1>. USE Constants
<1>1. setting' \in Setting
  BY DEF TypeOK, Change, Setting, Goto, Done, Proc, Procs, Actors, NoLocals, history, Load
<1>2. file' \in Table /\ upset' \subseteq {"default", "delivery"}
  BY DEF TypeOK, Change, Table, Local, Goto, Done, Proc, Procs, Actors, NoLocals, history, Load
<1>3. cache' \in [Procs -> [data : Table, age : 0 .. Ttl]]
  BY DEF TypeOK, Shape, BotTask, Change, Local, Table, Goto, Done, Proc, Procs, Actors, NoLocals, history, Load
<1>4. pc' \in [Actors -> Phases]
  BY DEF TypeOK, Change, Phases, Goto, Done, Proc, Procs, Actors, NoLocals, history, Load
<1>5. /\ local' \in [Actors -> Local]
      /\ \A b \in Actors : local'[b].data = None <=> pc'[b] \in {"idle", "posting", "look"}
  <2>1. "bot" \in Actors /\ local["bot"] \in Local
    BY DEF TypeOK, Actors, Procs
  <2>2. CASE Done("bot")
    BY <2>2, NoLocalsTyped DEF TypeOK, Done, Goto
  <2>3. CASE ~Done("bot")
    <3>1. PICK x : /\ local' = [local EXCEPT !["bot"].data = x]
                   /\ x \in {local["bot"].data \cup {local["bot"].item},
                             local["bot"].data \ {local["bot"].item}}
                   /\ local["bot"].op # "list"
                   /\ Goto("bot", "save")
                   /\ pc["bot"] = "use"
      BY <2>3 DEF Change
    <3>2. local["bot"].item \in Items /\ local["bot"].data \in SUBSET Items
      BY <2>1, <3>1 DEF Shape, BotTask, TypeOK, Local, Table
    <3>3. x \in SUBSET Items /\ x # None /\ x \in Table
      BY <3>1, <3>2 DEF Table
    <3>4. local'["bot"] = [local["bot"] EXCEPT !.data = x]
      BY <2>1, <3>1 DEF TypeOK
    <3>5. local'["bot"] \in Local /\ local'["bot"].data = x
      BY <2>1, <3>3, <3>4 DEF Local
    <3>. QED
      BY <3>1, <3>3, <3>5 DEF TypeOK, Goto
  <2>. QED
    BY <2>2, <2>3
<1>7. status' \in [Items -> {"never", "listed", "removed"}] /\ unsaved' \subseteq Items /\ since' \in [Items -> 0 .. Ttl]
  BY DEF TypeOK, Shape, BotTask, Change, Goto, Done, Proc, Procs, Actors, NoLocals, history, Load
<1>. QED
  BY <1>1, <1>2, <1>3, <1>4, <1>5, <1>7 DEF TypeOK

LEMMA SaveChangeTypes ==
  ASSUME TypeOK, Shape, SaveChange
  PROVE  TypeOK'
<1>. USE Constants
<1>1. setting' \in Setting
  BY DEF TypeOK, SaveChange, Setting, Goto, Done, Proc, Procs, Actors, NoLocals, history, Load
<1>2. file' \in Table /\ upset' \subseteq {"default", "delivery"}
  BY DEF TypeOK, SaveChange, Table, Local, Goto, Done, Proc, Procs, Actors, NoLocals, history, Load
<1>3. cache' \in [Procs -> [data : Table, age : 0 .. Ttl]]
  BY DEF TypeOK, Shape, BotTask, BotEdit, SaveChange, Local, Table, Goto, Done, Proc, Procs, Actors, NoLocals, history, Load
<1>4. pc' \in [Actors -> Phases]
  BY DEF TypeOK, SaveChange, Phases, Goto, Done, Proc, Procs, Actors, NoLocals, history, Load
<1>5. local' \in [Actors -> Local]
  BY DEF TypeOK, SaveChange, Local, Table, Goto, Done, Proc, Procs, Actors, NoLocals, history, Load
<1>6. \A b \in Actors : local'[b].data = None <=> pc'[b] \in {"idle", "posting", "look"}
  BY DEF TypeOK, SaveChange, Local, Table, Goto, Done, Proc, Procs, Actors, NoLocals, history, Load
<1>7. status' \in [Items -> {"never", "listed", "removed"}] /\ unsaved' \subseteq Items /\ since' \in [Items -> 0 .. Ttl]
  BY DEF TypeOK, Shape, BotTask, BotEdit, SaveChange, Goto, Done, Proc, Procs, Actors, NoLocals, history, Load
<1>. QED
  BY <1>1, <1>2, <1>3, <1>4, <1>5, <1>6, <1>7 DEF TypeOK

LEMMA SaveChangeFailsTypes ==
  ASSUME TypeOK, Shape, SaveChangeFails
  PROVE  TypeOK'
<1>. USE Constants
<1>1. setting' \in Setting
  BY DEF TypeOK, SaveChangeFails, Setting, Goto, Done, Proc, Procs, Actors, NoLocals, history, Load
<1>2. file' \in Table /\ upset' \subseteq {"default", "delivery"}
  BY DEF TypeOK, SaveChangeFails, Table, Local, Goto, Done, Proc, Procs, Actors, NoLocals, history, Load
<1>3. cache' \in [Procs -> [data : Table, age : 0 .. Ttl]]
  BY DEF TypeOK, Shape, BotTask, SaveChangeFails, Local, Table, Goto, Done, Proc, Procs, Actors, NoLocals, history, Load
<1>4. pc' \in [Actors -> Phases]
  BY DEF TypeOK, SaveChangeFails, Phases, Goto, Done, Proc, Procs, Actors, NoLocals, history, Load
<1>5. local' \in [Actors -> Local]
  BY DEF TypeOK, SaveChangeFails, Local, Table, Goto, Done, Proc, Procs, Actors, NoLocals, history, Load
<1>6. \A b \in Actors : local'[b].data = None <=> pc'[b] \in {"idle", "posting", "look"}
  BY DEF TypeOK, SaveChangeFails, Local, Table, Goto, Done, Proc, Procs, Actors, NoLocals, history, Load
<1>7. status' \in [Items -> {"never", "listed", "removed"}] /\ unsaved' \subseteq Items /\ since' \in [Items -> 0 .. Ttl]
  <2>1. local["bot"].item \in Items
    BY DEF Shape, BotTask, BotEdit, SaveChangeFails
  <2>2. UNCHANGED <<status, since>> /\ unsaved' = unsaved \cup {local["bot"].item}
    BY DEF SaveChangeFails
  <2>3. QED
    BY <2>1, <2>2 DEF TypeOK
<1>. QED
  BY <1>1, <1>2, <1>3, <1>4, <1>5, <1>6, <1>7 DEF TypeOK

LEMMA RequestTypes ==
  ASSUME TypeOK, Shape, Request
  PROVE  TypeOK'
<1>1. [NoLocals EXCEPT !.op = "apply"] \in Local /\ [NoLocals EXCEPT !.op = "apply"].data = None
  BY NoLocalsTyped, LocalEdits
<1>. QED
  BY <1>1, LoadTypes DEF Request, Actors, Procs

LEMMA ApplyTypes ==
  ASSUME TypeOK, Shape, Apply
  PROVE  TypeOK'
<1>. USE Constants
<1>1. setting' \in Setting
  BY DEF TypeOK, Apply, Setting, Goto, Done, Proc, Procs, Actors, NoLocals, history, Load
<1>2. file' \in Table /\ upset' \subseteq {"default", "delivery"}
  BY DEF TypeOK, Apply, Table, Local, Goto, Done, Proc, Procs, Actors, NoLocals, history, Load
<1>3. cache' \in [Procs -> [data : Table, age : 0 .. Ttl]]
  BY DEF TypeOK, Shape, Apply, Local, Table, Goto, Done, Proc, Procs, Actors, NoLocals, history, Load
<1>4. pc' \in [Actors -> Phases]
  BY DEF TypeOK, Apply, Phases, Goto, Done, Proc, Procs, Actors, NoLocals, history, Load
<1>5. local' \in [Actors -> Local]
  BY DEF TypeOK, Apply, Local, Table, Goto, Done, Proc, Procs, Actors, NoLocals, history, Load
<1>6. \A b \in Actors : local'[b].data = None <=> pc'[b] \in {"idle", "posting", "look"}
  BY DEF TypeOK, Apply, Local, Table, Goto, Done, Proc, Procs, Actors, NoLocals, history, Load
<1>7. status' \in [Items -> {"never", "listed", "removed"}] /\ unsaved' \subseteq Items /\ since' \in [Items -> 0 .. Ttl]
  BY DEF TypeOK, Shape, Apply, Goto, Done, Proc, Procs, Actors, NoLocals, history, Load
<1>. QED
  BY <1>1, <1>2, <1>3, <1>4, <1>5, <1>6, <1>7 DEF TypeOK

LEMMA PostedTypes ==
  ASSUME TypeOK, Shape, NEW d \in Deliveries, Posted(d)
  PROVE  TypeOK'
<1>1. d \in Actors
  BY DEF Actors
<1>2. local[d] \in Local /\ local[d].data = None
  BY <1>1 DEF TypeOK, Posted
<1>3. PICK outcome \in {"success", "failure"} : Load(d, [local[d] EXCEPT !.op = outcome])
  BY DEF Posted
<1>4. [local[d] EXCEPT !.op = outcome] \in Local /\ [local[d] EXCEPT !.op = outcome].data = None
  BY <1>2, LocalEdits
<1>. QED
  BY <1>1, <1>3, <1>4, LoadTypes

LEMMA NoteTypes ==
  ASSUME TypeOK, Shape, NEW d \in Deliveries, Note(d)
  PROVE  TypeOK'
<1>. USE Constants
<1>1. setting' \in Setting
  BY DEF TypeOK, Note, Setting, Goto, Done, Proc, Procs, Actors, NoLocals, history, Load
<1>2. file' \in Table /\ upset' \subseteq {"default", "delivery"}
  BY DEF TypeOK, Note, Table, Local, Goto, Done, Proc, Procs, Actors, NoLocals, history, Load
<1>3. cache' \in [Procs -> [data : Table, age : 0 .. Ttl]]
  BY DEF TypeOK, Shape, Note, Local, Table, Goto, Done, Proc, Procs, Actors, NoLocals, history, Load
<1>4. pc' \in [Actors -> Phases]
  BY DEF TypeOK, Note, Phases, Goto, Done, Proc, Procs, Actors, NoLocals, history, Load
<1>5. local' \in [Actors -> Local]
  BY DEF TypeOK, Note, Local, Table, Goto, Done, Proc, Procs, Actors, NoLocals, history, Load
<1>6. \A b \in Actors : local'[b].data = None <=> pc'[b] \in {"idle", "posting", "look"}
  BY DEF TypeOK, Note, Local, Table, Goto, Done, Proc, Procs, Actors, NoLocals, history, Load
<1>7. status' \in [Items -> {"never", "listed", "removed"}] /\ unsaved' \subseteq Items /\ since' \in [Items -> 0 .. Ttl]
  BY DEF TypeOK, Shape, Note, Goto, Done, Proc, Procs, Actors, NoLocals, history, Load
<1>. QED
  BY <1>1, <1>2, <1>3, <1>4, <1>5, <1>6, <1>7 DEF TypeOK

LEMMA SaveNoteTypes ==
  ASSUME TypeOK, Shape, NEW d \in Deliveries, SaveNote(d)
  PROVE  TypeOK'
<1>. USE Constants
<1>1. setting' \in Setting
  BY DEF TypeOK, SaveNote, Setting, Goto, Done, Proc, Procs, Actors, NoLocals, history, Load
<1>2. file' \in Table /\ upset' \subseteq {"default", "delivery"}
  BY DEF TypeOK, SaveNote, Table, Local, Goto, Done, Proc, Procs, Actors, NoLocals, history, Load
<1>3. cache' \in [Procs -> [data : Table, age : 0 .. Ttl]]
  BY DEF TypeOK, Shape, SaveNote, Local, Table, Goto, Done, Proc, Procs, Actors, NoLocals, history, Load
<1>4. pc' \in [Actors -> Phases]
  BY DEF TypeOK, SaveNote, Phases, Goto, Done, Proc, Procs, Actors, NoLocals, history, Load
<1>5. local' \in [Actors -> Local]
  BY DEF TypeOK, SaveNote, Local, Table, Goto, Done, Proc, Procs, Actors, NoLocals, history, Load
<1>6. \A b \in Actors : local'[b].data = None <=> pc'[b] \in {"idle", "posting", "look"}
  BY DEF TypeOK, SaveNote, Local, Table, Goto, Done, Proc, Procs, Actors, NoLocals, history, Load
<1>7. status' \in [Items -> {"never", "listed", "removed"}] /\ unsaved' \subseteq Items /\ since' \in [Items -> 0 .. Ttl]
  BY DEF TypeOK, Shape, SaveNote, Goto, Done, Proc, Procs, Actors, NoLocals, history, Load
<1>. QED
  BY <1>1, <1>2, <1>3, <1>4, <1>5, <1>6, <1>7 DEF TypeOK

LEMMA SaveNoteFailsTypes ==
  ASSUME TypeOK, Shape, NEW d \in Deliveries, SaveNoteFails(d)
  PROVE  TypeOK'
<1>. USE Constants
<1>1. setting' \in Setting
  BY DEF TypeOK, SaveNoteFails, Setting, Goto, Done, Proc, Procs, Actors, NoLocals, history, Load
<1>2. file' \in Table /\ upset' \subseteq {"default", "delivery"}
  BY DEF TypeOK, SaveNoteFails, Table, Local, Goto, Done, Proc, Procs, Actors, NoLocals, history, Load
<1>3. cache' \in [Procs -> [data : Table, age : 0 .. Ttl]]
  BY DEF TypeOK, Shape, SaveNoteFails, Local, Table, Goto, Done, Proc, Procs, Actors, NoLocals, history, Load
<1>4. pc' \in [Actors -> Phases]
  BY DEF TypeOK, SaveNoteFails, Phases, Goto, Done, Proc, Procs, Actors, NoLocals, history, Load
<1>5. local' \in [Actors -> Local]
  BY DEF TypeOK, SaveNoteFails, Local, Table, Goto, Done, Proc, Procs, Actors, NoLocals, history, Load
<1>6. \A b \in Actors : local'[b].data = None <=> pc'[b] \in {"idle", "posting", "look"}
  BY DEF TypeOK, SaveNoteFails, Local, Table, Goto, Done, Proc, Procs, Actors, NoLocals, history, Load
<1>7. status' \in [Items -> {"never", "listed", "removed"}] /\ unsaved' \subseteq Items /\ since' \in [Items -> 0 .. Ttl]
  BY DEF TypeOK, Shape, SaveNoteFails, Goto, Done, Proc, Procs, Actors, NoLocals, history, Load
<1>. QED
  BY <1>1, <1>2, <1>3, <1>4, <1>5, <1>6, <1>7 DEF TypeOK

LEMMA TickTypes ==
  ASSUME TypeOK, Shape, Tick
  PROVE  TypeOK'
<1>. USE Constants
<1>1. setting' \in Setting
  BY DEF TypeOK, Tick, Setting, Goto, Done, Proc, Procs, Actors, NoLocals, history, Load
<1>2. file' \in Table /\ upset' \subseteq {"default", "delivery"}
  BY DEF TypeOK, Tick, Table, Local, Goto, Done, Proc, Procs, Actors, NoLocals, history, Load
<1>3. cache' \in [Procs -> [data : Table, age : 0 .. Ttl]]
  BY DEF TypeOK, Shape, Tick, Local, Table, Goto, Done, Proc, Procs, Actors, NoLocals, history, Load
<1>4. pc' \in [Actors -> Phases]
  BY DEF TypeOK, Tick, Phases, Goto, Done, Proc, Procs, Actors, NoLocals, history, Load
<1>5. local' \in [Actors -> Local]
  BY DEF TypeOK, Tick, Local, Table, Goto, Done, Proc, Procs, Actors, NoLocals, history, Load
<1>6. \A b \in Actors : local'[b].data = None <=> pc'[b] \in {"idle", "posting", "look"}
  BY DEF TypeOK, Tick, Local, Table, Goto, Done, Proc, Procs, Actors, NoLocals, history, Load
<1>7. status' \in [Items -> {"never", "listed", "removed"}] /\ unsaved' \subseteq Items /\ since' \in [Items -> 0 .. Ttl]
  BY DEF TypeOK, Shape, Tick, Goto, Done, Proc, Procs, Actors, NoLocals, history, Load
<1>. QED
  BY <1>1, <1>2, <1>3, <1>4, <1>5, <1>6, <1>7 DEF TypeOK

LEMMA RestartTypes ==
  ASSUME TypeOK, Shape, NEW p \in Procs, Restart(p)
  PROVE  TypeOK'
<1>. USE Constants
<1>1. setting' \in Setting
  BY DEF TypeOK, Restart, Setting, Goto, Done, Proc, Procs, Actors, NoLocals, history, Load
<1>2. file' \in Table /\ upset' \subseteq {"default", "delivery"}
  BY DEF TypeOK, Restart, Table, Local, Goto, Done, Proc, Procs, Actors, NoLocals, history, Load
<1>3. cache' \in [Procs -> [data : Table, age : 0 .. Ttl]]
  BY DEF TypeOK, Shape, Restart, Local, Table, Goto, Done, Proc, Procs, Actors, NoLocals, history, Load
<1>4. pc' \in [Actors -> Phases]
  BY DEF TypeOK, Restart, Phases, Goto, Done, Proc, Procs, Actors, NoLocals, history, Load
<1>5. local' \in [Actors -> Local]
  BY DEF TypeOK, Restart, Local, Table, Goto, Done, Proc, Procs, Actors, NoLocals, history, Load
<1>6. \A b \in Actors : local'[b].data = None <=> pc'[b] \in {"idle", "posting", "look"}
  BY DEF TypeOK, Restart, Local, Table, Goto, Done, Proc, Procs, Actors, NoLocals, history, Load
<1>7. status' \in [Items -> {"never", "listed", "removed"}] /\ unsaved' \subseteq Items /\ since' \in [Items -> 0 .. Ttl]
  BY DEF TypeOK, Shape, Restart, Goto, Done, Proc, Procs, Actors, NoLocals, history, Load
<1>. QED
  BY <1>1, <1>2, <1>3, <1>4, <1>5, <1>6, <1>7 DEF TypeOK
-----------------------------------------------------------------------------
(* Every step keeps the shape of the copies *)

LEMMA LookShape ==
  ASSUME TypeOK, TypeOK', Shape, NEW a \in Actors, Look(a)
  PROVE  Shape'
<1>. USE Constants
<1>1. NoFile' /\ HaveFile'
  BY DEF Shape, NoFile, HaveFile, BotCopy, TypeOK, Look, Goto, Done, Proc, Procs, Actors, NoLocals, history, Load, Local, Table
<1>2. Defaults'
  BY DEF Shape, Defaults, TypeOK, Look, Goto, Done, Proc, Procs, Actors, NoLocals, history, Load, Local, Table
<1>3. BotCopy'
  BY DEF Shape, NoFile, BotCopy, TypeOK, Look, Goto, Done, Proc, Procs, Actors, NoLocals, history, Load, Local, Table
<1>4. BotTask' /\ BotEdit'
  BY DEF Shape, BotTask, BotEdit, TypeOK, Look, Goto, Done, Proc, Procs, Actors, NoLocals, history, Load, Local, Table
<1>. QED
  BY <1>1, <1>2, <1>3, <1>4 DEF Shape

LEMMA SaveDefaultShape ==
  ASSUME TypeOK, TypeOK', Shape, NEW a \in Actors, SaveDefault(a)
  PROVE  Shape'
<1>. USE Constants
<1>1. NoFile' /\ HaveFile'
  BY DEF Shape, NoFile, HaveFile, BotCopy, TypeOK, SaveDefault, Goto, Done, Proc, Procs, Actors, NoLocals, history, Load, Local, Table
<1>2. Defaults'
  BY DEF Shape, Defaults, TypeOK, SaveDefault, Goto, Done, Proc, Procs, Actors, NoLocals, history, Load, Local, Table
<1>3. BotCopy'
  BY DEF Shape, NoFile, BotCopy, TypeOK, SaveDefault, Goto, Done, Proc, Procs, Actors, NoLocals, history, Load, Local, Table
<1>4. BotTask' /\ BotEdit'
  BY DEF Shape, BotTask, BotEdit, TypeOK, SaveDefault, Goto, Done, Proc, Procs, Actors, NoLocals, history, Load, Local, Table
<1>. QED
  BY <1>1, <1>2, <1>3, <1>4 DEF Shape

LEMMA SaveDefaultFailsShape ==
  ASSUME TypeOK, TypeOK', Shape, NEW a \in Actors, SaveDefaultFails(a)
  PROVE  Shape'
<1>. USE Constants
<1>1. NoFile' /\ HaveFile'
  BY DEF Shape, NoFile, HaveFile, BotCopy, TypeOK, SaveDefaultFails, Goto, Done, Proc, Procs, Actors, NoLocals, history, Load, Local, Table
<1>2. Defaults'
  BY DEF Shape, Defaults, TypeOK, SaveDefaultFails, Goto, Done, Proc, Procs, Actors, NoLocals, history, Load, Local, Table
<1>3. BotCopy'
  BY DEF Shape, NoFile, BotCopy, TypeOK, SaveDefaultFails, Goto, Done, Proc, Procs, Actors, NoLocals, history, Load, Local, Table
<1>4. BotTask' /\ BotEdit'
  BY DEF Shape, BotTask, BotEdit, TypeOK, SaveDefaultFails, Goto, Done, Proc, Procs, Actors, NoLocals, history, Load, Local, Table
<1>. QED
  BY <1>1, <1>2, <1>3, <1>4 DEF Shape

LEMMA FillShape ==
  ASSUME TypeOK, TypeOK', Shape, NEW a \in Actors, Fill(a)
  PROVE  Shape'
<1>. USE Constants
<1>1. NoFile' /\ HaveFile'
  BY DEF Shape, NoFile, HaveFile, BotCopy, TypeOK, Fill, Goto, Done, Proc, Procs, Actors, NoLocals, history, Load, Local, Table
<1>2. Defaults'
  BY DEF Shape, Defaults, TypeOK, Fill, Goto, Done, Proc, Procs, Actors, NoLocals, history, Load, Local, Table
<1>3. BotCopy'
  BY DEF Shape, NoFile, BotCopy, TypeOK, Fill, Goto, Done, Proc, Procs, Actors, NoLocals, history, Load, Local, Table
<1>4. BotTask' /\ BotEdit'
  BY DEF Shape, BotTask, BotEdit, TypeOK, Fill, Goto, Done, Proc, Procs, Actors, NoLocals, history, Load, Local, Table
<1>. QED
  BY <1>1, <1>2, <1>3, <1>4 DEF Shape

LEMMA StampShape ==
  ASSUME TypeOK, TypeOK', Shape, NEW a \in Actors, Stamp(a)
  PROVE  Shape'
<1>. USE Constants
<1>1. NoFile' /\ HaveFile'
  BY DEF Shape, NoFile, HaveFile, BotCopy, TypeOK, Stamp, Goto, Done, Proc, Procs, Actors, NoLocals, history, Load, Local, Table
<1>2. Defaults'
  BY DEF Shape, Defaults, TypeOK, Stamp, Goto, Done, Proc, Procs, Actors, NoLocals, history, Load, Local, Table
<1>3. BotCopy'
  BY DEF Shape, NoFile, BotCopy, TypeOK, Stamp, Goto, Done, Proc, Procs, Actors, NoLocals, history, Load, Local, Table
<1>4. BotTask' /\ BotEdit'
  BY DEF Shape, BotTask, BotEdit, TypeOK, Stamp, Goto, Done, Proc, Procs, Actors, NoLocals, history, Load, Local, Table
<1>. QED
  BY <1>1, <1>2, <1>3, <1>4 DEF Shape

LEMMA CommandShape ==
  ASSUME TypeOK, TypeOK', Shape, Command
  PROVE  Shape'
<1>. USE Constants
<1>1. NoFile' /\ HaveFile'
  BY DEF Shape, NoFile, HaveFile, BotCopy, TypeOK, Command, Goto, Done, Proc, Procs, Actors, NoLocals, history, Load, Local, Table
<1>2. Defaults'
  BY DEF Shape, Defaults, TypeOK, Command, Goto, Done, Proc, Procs, Actors, NoLocals, history, Load, Local, Table
<1>3. BotCopy'
  BY DEF Shape, NoFile, BotCopy, TypeOK, Command, Goto, Done, Proc, Procs, Actors, NoLocals, history, Load, Local, Table
<1>4. BotTask' /\ BotEdit'
  BY DEF Shape, BotTask, BotEdit, TypeOK, Command, Goto, Done, Proc, Procs, Actors, NoLocals, history, Load, Local, Table
<1>. QED
  BY <1>1, <1>2, <1>3, <1>4 DEF Shape

LEMMA ChangeShape ==
  ASSUME TypeOK, TypeOK', Shape, Change
  PROVE  Shape'
<1>. USE Constants
<1>1. NoFile' /\ HaveFile'
  BY DEF Shape, NoFile, HaveFile, BotCopy, TypeOK, Change, Goto, Done, Proc, Procs, Actors, NoLocals, history, Load, Local, Table
<1>2. Defaults'
  BY DEF Shape, Defaults, TypeOK, Change, Goto, Done, Proc, Procs, Actors, NoLocals, history, Load, Local, Table
<1>3. BotCopy'
  <2>1. CASE pc'["bot"] = "idle"
    BY <2>1 DEF BotCopy
  <2>2. CASE pc'["bot"] # "idle"
    <3>1. ~Done("bot")
      BY <2>2 DEF Done, Goto, TypeOK, Actors, Procs
    <3>2. PICK x : /\ local' = [local EXCEPT !["bot"].data = x]
                   /\ cache' = IF cache["bot"].data = local["bot"].data
                               THEN [cache EXCEPT !["bot"].data = x] ELSE cache
                   /\ pc["bot"] = "use"
      BY <3>1 DEF Change
    <3>3. cache["bot"].data \in {None, local["bot"].data}
      BY <3>2 DEF Shape, BotCopy
    <3>4. local'["bot"].data = x
      BY <3>2 DEF TypeOK, Local, Actors, Procs
    <3>5. CASE cache["bot"].data = local["bot"].data
      <4>1. cache'["bot"].data = x
        BY <3>2, <3>5 DEF TypeOK, Procs
      <4>. QED
        BY <3>4, <4>1 DEF BotCopy
    <3>6. CASE cache["bot"].data # local["bot"].data
      BY <3>2, <3>3, <3>6 DEF BotCopy
    <3>. QED
      BY <3>5, <3>6
  <2>. QED
    BY <2>1, <2>2
<1>4. BotTask' /\ BotEdit'
  BY DEF Shape, BotTask, BotEdit, TypeOK, Change, Goto, Done, Proc, Procs, Actors, NoLocals, history, Load, Local, Table
<1>. QED
  BY <1>1, <1>2, <1>3, <1>4 DEF Shape

LEMMA SaveChangeShape ==
  ASSUME TypeOK, TypeOK', Shape, SaveChange
  PROVE  Shape'
<1>. USE Constants
<1>1. NoFile' /\ HaveFile'
  BY DEF Shape, NoFile, HaveFile, BotCopy, TypeOK, SaveChange, Goto, Done, Proc, Procs, Actors, NoLocals, history, Load, Local, Table
<1>2. Defaults'
  BY DEF Shape, Defaults, TypeOK, SaveChange, Goto, Done, Proc, Procs, Actors, NoLocals, history, Load, Local, Table
<1>3. BotCopy'
  BY DEF Shape, NoFile, BotCopy, TypeOK, SaveChange, Goto, Done, Proc, Procs, Actors, NoLocals, history, Load, Local, Table
<1>4. BotTask' /\ BotEdit'
  BY DEF Shape, BotTask, BotEdit, TypeOK, SaveChange, Goto, Done, Proc, Procs, Actors, NoLocals, history, Load, Local, Table
<1>. QED
  BY <1>1, <1>2, <1>3, <1>4 DEF Shape

LEMMA SaveChangeFailsShape ==
  ASSUME TypeOK, TypeOK', Shape, SaveChangeFails
  PROVE  Shape'
<1>. USE Constants
<1>1. NoFile' /\ HaveFile'
  BY DEF Shape, NoFile, HaveFile, BotCopy, TypeOK, SaveChangeFails, Goto, Done, Proc, Procs, Actors, NoLocals, history, Load, Local, Table
<1>2. Defaults'
  BY DEF Shape, Defaults, TypeOK, SaveChangeFails, Goto, Done, Proc, Procs, Actors, NoLocals, history, Load, Local, Table
<1>3. BotCopy'
  BY DEF Shape, NoFile, BotCopy, TypeOK, SaveChangeFails, Goto, Done, Proc, Procs, Actors, NoLocals, history, Load, Local, Table
<1>4. BotTask' /\ BotEdit'
  BY DEF Shape, BotTask, BotEdit, TypeOK, SaveChangeFails, Goto, Done, Proc, Procs, Actors, NoLocals, history, Load, Local, Table
<1>. QED
  BY <1>1, <1>2, <1>3, <1>4 DEF Shape

LEMMA RequestShape ==
  ASSUME TypeOK, TypeOK', Shape, Request
  PROVE  Shape'
<1>. USE Constants
<1>1. NoFile' /\ HaveFile'
  BY DEF Shape, NoFile, HaveFile, BotCopy, TypeOK, Request, Goto, Done, Proc, Procs, Actors, NoLocals, history, Load, Local, Table
<1>2. Defaults'
  BY DEF Shape, Defaults, TypeOK, Request, Goto, Done, Proc, Procs, Actors, NoLocals, history, Load, Local, Table
<1>3. BotCopy'
  BY DEF Shape, NoFile, BotCopy, TypeOK, Request, Goto, Done, Proc, Procs, Actors, NoLocals, history, Load, Local, Table
<1>4. BotTask' /\ BotEdit'
  BY DEF Shape, BotTask, BotEdit, TypeOK, Request, Goto, Done, Proc, Procs, Actors, NoLocals, history, Load, Local, Table
<1>. QED
  BY <1>1, <1>2, <1>3, <1>4 DEF Shape

LEMMA ApplyShape ==
  ASSUME TypeOK, TypeOK', Shape, Apply
  PROVE  Shape'
<1>. USE Constants
<1>1. NoFile' /\ HaveFile'
  BY DEF Shape, NoFile, HaveFile, BotCopy, TypeOK, Apply, Goto, Done, Proc, Procs, Actors, NoLocals, history, Load, Local, Table
<1>2. Defaults'
  BY DEF Shape, Defaults, TypeOK, Apply, Goto, Done, Proc, Procs, Actors, NoLocals, history, Load, Local, Table
<1>3. BotCopy'
  BY DEF Shape, NoFile, BotCopy, TypeOK, Apply, Goto, Done, Proc, Procs, Actors, NoLocals, history, Load, Local, Table
<1>4. BotTask' /\ BotEdit'
  <2>1. pc'["bot"] = pc["bot"] /\ local'["bot"] = local["bot"]
    BY DEF Apply, Done, Goto, TypeOK, Actors, Procs, Setting
  <2>. QED
    BY <2>1 DEF Shape, BotTask, BotEdit
<1>. QED
  BY <1>1, <1>2, <1>3, <1>4 DEF Shape

LEMMA PostedShape ==
  ASSUME TypeOK, TypeOK', Shape, NEW d \in Deliveries, Posted(d)
  PROVE  Shape'
<1>. USE Constants
<1>1. NoFile' /\ HaveFile'
  BY DEF Shape, NoFile, HaveFile, BotCopy, TypeOK, Posted, Goto, Done, Proc, Procs, Actors, NoLocals, history, Load, Local, Table
<1>2. Defaults'
  BY DEF Shape, Defaults, TypeOK, Posted, Goto, Done, Proc, Procs, Actors, NoLocals, history, Load, Local, Table
<1>3. BotCopy'
  BY DEF Shape, NoFile, BotCopy, TypeOK, Posted, Goto, Done, Proc, Procs, Actors, NoLocals, history, Load, Local, Table
<1>4. BotTask' /\ BotEdit'
  BY DEF Shape, BotTask, BotEdit, TypeOK, Posted, Goto, Done, Proc, Procs, Actors, NoLocals, history, Load, Local, Table
<1>. QED
  BY <1>1, <1>2, <1>3, <1>4 DEF Shape

LEMMA NoteShape ==
  ASSUME TypeOK, TypeOK', Shape, NEW d \in Deliveries, Note(d)
  PROVE  Shape'
<1>. USE Constants
<1>1. NoFile' /\ HaveFile'
  BY DEF Shape, NoFile, HaveFile, BotCopy, TypeOK, Note, Goto, Done, Proc, Procs, Actors, NoLocals, history, Load, Local, Table
<1>2. Defaults'
  BY DEF Shape, Defaults, TypeOK, Note, Goto, Done, Proc, Procs, Actors, NoLocals, history, Load, Local, Table
<1>3. BotCopy'
  BY DEF Shape, NoFile, BotCopy, TypeOK, Note, Goto, Done, Proc, Procs, Actors, NoLocals, history, Load, Local, Table
<1>4. BotTask' /\ BotEdit'
  BY DEF Shape, BotTask, BotEdit, TypeOK, Note, Goto, Done, Proc, Procs, Actors, NoLocals, history, Load, Local, Table
<1>. QED
  BY <1>1, <1>2, <1>3, <1>4 DEF Shape

LEMMA SaveNoteShape ==
  ASSUME TypeOK, TypeOK', Shape, NEW d \in Deliveries, SaveNote(d)
  PROVE  Shape'
<1>. USE Constants
<1>1. NoFile' /\ HaveFile'
  BY DEF Shape, NoFile, HaveFile, BotCopy, TypeOK, SaveNote, Goto, Done, Proc, Procs, Actors, NoLocals, history, Load, Local, Table
<1>2. Defaults'
  BY DEF Shape, Defaults, TypeOK, SaveNote, Goto, Done, Proc, Procs, Actors, NoLocals, history, Load, Local, Table
<1>3. BotCopy'
  BY DEF Shape, NoFile, BotCopy, TypeOK, SaveNote, Goto, Done, Proc, Procs, Actors, NoLocals, history, Load, Local, Table
<1>4. BotTask' /\ BotEdit'
  BY DEF Shape, BotTask, BotEdit, TypeOK, SaveNote, Goto, Done, Proc, Procs, Actors, NoLocals, history, Load, Local, Table
<1>. QED
  BY <1>1, <1>2, <1>3, <1>4 DEF Shape

LEMMA SaveNoteFailsShape ==
  ASSUME TypeOK, TypeOK', Shape, NEW d \in Deliveries, SaveNoteFails(d)
  PROVE  Shape'
<1>. USE Constants
<1>1. NoFile' /\ HaveFile'
  BY DEF Shape, NoFile, HaveFile, BotCopy, TypeOK, SaveNoteFails, Goto, Done, Proc, Procs, Actors, NoLocals, history, Load, Local, Table
<1>2. Defaults'
  BY DEF Shape, Defaults, TypeOK, SaveNoteFails, Goto, Done, Proc, Procs, Actors, NoLocals, history, Load, Local, Table
<1>3. BotCopy'
  BY DEF Shape, NoFile, BotCopy, TypeOK, SaveNoteFails, Goto, Done, Proc, Procs, Actors, NoLocals, history, Load, Local, Table
<1>4. BotTask' /\ BotEdit'
  BY DEF Shape, BotTask, BotEdit, TypeOK, SaveNoteFails, Goto, Done, Proc, Procs, Actors, NoLocals, history, Load, Local, Table
<1>. QED
  BY <1>1, <1>2, <1>3, <1>4 DEF Shape

LEMMA TickShape ==
  ASSUME TypeOK, TypeOK', Shape, Tick
  PROVE  Shape'
<1>. USE Constants
<1>1. NoFile' /\ HaveFile'
  BY DEF Shape, NoFile, HaveFile, BotCopy, TypeOK, Tick, Goto, Done, Proc, Procs, Actors, NoLocals, history, Load, Local, Table
<1>2. Defaults'
  BY DEF Shape, Defaults, TypeOK, Tick, Goto, Done, Proc, Procs, Actors, NoLocals, history, Load, Local, Table
<1>3. BotCopy'
  BY DEF Shape, NoFile, BotCopy, TypeOK, Tick, Goto, Done, Proc, Procs, Actors, NoLocals, history, Load, Local, Table
<1>4. BotTask' /\ BotEdit'
  BY DEF Shape, BotTask, BotEdit, TypeOK, Tick, Goto, Done, Proc, Procs, Actors, NoLocals, history, Load, Local, Table
<1>. QED
  BY <1>1, <1>2, <1>3, <1>4 DEF Shape

LEMMA RestartShape ==
  ASSUME TypeOK, TypeOK', Shape, NEW p \in Procs, Restart(p)
  PROVE  Shape'
<1>. USE Constants
<1>1. NoFile' /\ HaveFile'
  BY DEF Shape, NoFile, HaveFile, BotCopy, TypeOK, Restart, Goto, Done, Proc, Procs, Actors, NoLocals, history, Load, Local, Table
<1>2. Defaults'
  BY DEF Shape, Defaults, TypeOK, Restart, Goto, Done, Proc, Procs, Actors, NoLocals, history, Load, Local, Table
<1>3. BotCopy'
  BY DEF Shape, NoFile, BotCopy, TypeOK, Restart, Goto, Done, Proc, Procs, Actors, NoLocals, history, Load, Local, Table
<1>4. BotTask' /\ BotEdit'
  BY DEF Shape, BotTask, BotEdit, TypeOK, Restart, Goto, Done, Proc, Procs, Actors, NoLocals, history, Load, Local, Table
<1>. QED
  BY <1>1, <1>2, <1>3, <1>4 DEF Shape

-----------------------------------------------------------------------------
(* Every step keeps what the copies say *)

\* What a load takes from a cache that has not expired is as the file has it, for rules
\* that were not saved lately.
LEMMA LoadKept ==
  ASSUME TypeOK, Kept, NEW a \in Ours, NEW mine \in Local, mine.data = None, Load(a, mine)
  PROVE  CopiesKept'
<1>. USE Constants
<1>1. a \in Actors /\ Proc(a) = "proxy" /\ "proxy" \in Procs
  BY DEF Ours, Actors, Procs, Proc
<1>2. UNCHANGED <<cache, status, unsaved, since>>
  BY DEF Load, history
<1>3. \A b \in Actors \ {a} : local'[b] = local[b] /\ pc'[b] = pc[b]
  BY <1>1 DEF Load, Goto, TypeOK
<1>4. CASE Fresh("proxy")
  <2>1. local'[a] = [mine EXCEPT !.data = cache["proxy"].data] /\ pc'[a] = "use"
    BY <1>1, <1>4 DEF Load, Goto, TypeOK
  <2>2. local'[a].data = cache["proxy"].data
    BY <2>1 DEF Local
  <2>3. cache["proxy"].age < Ttl /\ cache["proxy"].data # None
    BY <1>4 DEF Fresh
  <2>4. \A i \in Items : since[i] = Ttl => Agrees(cache["proxy"].data, i)
    BY <1>1, <2>3 DEF Kept, CacheKept, TypeOK
  <2>. QED
    BY <1>1, <1>2, <1>3, <2>1, <2>2, <2>4 DEF Kept, CopiesKept, Agrees, Ours, Actors, Procs
<1>5. CASE ~Fresh("proxy")
  <2>1. local'[a].data = None
    BY <1>1, <1>5 DEF Load, TypeOK
  <2>. QED
    BY <1>1, <1>2, <1>3, <2>1 DEF Kept, CopiesKept, Agrees, Ours, Actors, Procs
<1>. QED
  BY <1>4, <1>5

LEMMA LookKept ==
  ASSUME TypeOK, TypeOK', Shape, Shape', upset = {} => Kept,
         NEW a \in Actors, Look(a), upset' = {}
  PROVE  Kept'
<1>. USE Constants
<1>1. Kept
  BY DEF Look, history, Load
<1>2. FileKept'
  BY <1>1 DEF Kept, FileKept, BotKept, CopiesKept, Shape, Defaults, Pending, InFile, Ours, Agrees, TypeOK, Look, Fresh, Goto, Done, Proc, Procs, Actors, NoLocals, history, Load, Local, Table
<1>3. BotKept'
  BY <1>1 DEF Kept, FileKept, BotKept, Shape, BotCopy, Defaults, Pending, InFile, Ours, Agrees, TypeOK, Look, Fresh, Goto, Done, Proc, Procs, Actors, NoLocals, history, Load, Local, Table
<1>4. CacheKept'
  BY <1>1 DEF Kept, FileKept, CacheKept, CopiesKept, Shape, Defaults, InFile, Ours, Agrees, TypeOK, Look, Fresh, Goto, Done, Proc, Procs, Actors, NoLocals, history, Load, Local, Table
<1>5. CopiesKept'
  BY <1>1 DEF Kept, FileKept, CacheKept, CopiesKept, InFile, Ours, Agrees, TypeOK, Look, Fresh, Goto, Done, Proc, Procs, Actors, NoLocals, history, Load, Local, Table
<1>. QED
  BY <1>2, <1>3, <1>4, <1>5 DEF Kept

LEMMA SaveDefaultKept ==
  ASSUME TypeOK, TypeOK', Shape, Shape', upset = {} => Kept,
         NEW a \in Actors, SaveDefault(a), upset' = {}
  PROVE  Kept'
<1>. USE Constants
<1>1. Kept
  BY DEF SaveDefault, history, Load
<1>2. FileKept'
  BY <1>1 DEF Kept, FileKept, BotKept, CopiesKept, Shape, Defaults, Pending, InFile, Ours, Agrees, TypeOK, SaveDefault, Fresh, Goto, Done, Proc, Procs, Actors, NoLocals, history, Load, Local, Table
<1>3. BotKept'
  BY <1>1 DEF Kept, FileKept, BotKept, Shape, BotCopy, Defaults, Pending, InFile, Ours, Agrees, TypeOK, SaveDefault, Fresh, Goto, Done, Proc, Procs, Actors, NoLocals, history, Load, Local, Table
<1>4. CacheKept'
  BY <1>1 DEF Kept, FileKept, CacheKept, CopiesKept, Shape, Defaults, InFile, Ours, Agrees, TypeOK, SaveDefault, Fresh, Goto, Done, Proc, Procs, Actors, NoLocals, history, Load, Local, Table
<1>5. CopiesKept'
  BY <1>1 DEF Kept, FileKept, CacheKept, CopiesKept, InFile, Ours, Agrees, TypeOK, SaveDefault, Fresh, Goto, Done, Proc, Procs, Actors, NoLocals, history, Load, Local, Table
<1>. QED
  BY <1>2, <1>3, <1>4, <1>5 DEF Kept

LEMMA SaveDefaultFailsKept ==
  ASSUME TypeOK, TypeOK', Shape, Shape', upset = {} => Kept,
         NEW a \in Actors, SaveDefaultFails(a), upset' = {}
  PROVE  Kept'
<1>. USE Constants
<1>1. Kept
  BY DEF SaveDefaultFails, history, Load
<1>2. FileKept'
  BY <1>1 DEF Kept, FileKept, BotKept, CopiesKept, Shape, Defaults, Pending, InFile, Ours, Agrees, TypeOK, SaveDefaultFails, Fresh, Goto, Done, Proc, Procs, Actors, NoLocals, history, Load, Local, Table
<1>3. BotKept'
  BY <1>1 DEF Kept, FileKept, BotKept, Shape, BotCopy, Defaults, Pending, InFile, Ours, Agrees, TypeOK, SaveDefaultFails, Fresh, Goto, Done, Proc, Procs, Actors, NoLocals, history, Load, Local, Table
<1>4. CacheKept'
  BY <1>1 DEF Kept, FileKept, CacheKept, CopiesKept, Shape, Defaults, InFile, Ours, Agrees, TypeOK, SaveDefaultFails, Fresh, Goto, Done, Proc, Procs, Actors, NoLocals, history, Load, Local, Table
<1>5. CopiesKept'
  BY <1>1 DEF Kept, FileKept, CacheKept, CopiesKept, InFile, Ours, Agrees, TypeOK, SaveDefaultFails, Fresh, Goto, Done, Proc, Procs, Actors, NoLocals, history, Load, Local, Table
<1>. QED
  BY <1>2, <1>3, <1>4, <1>5 DEF Kept

LEMMA FillKept ==
  ASSUME TypeOK, TypeOK', Shape, Shape', upset = {} => Kept,
         NEW a \in Actors, Fill(a), upset' = {}
  PROVE  Kept'
<1>. USE Constants
<1>1. Kept
  BY DEF Fill, history, Load
<1>2. FileKept'
  BY <1>1 DEF Kept, FileKept, BotKept, CopiesKept, Shape, Defaults, Pending, InFile, Ours, Agrees, TypeOK, Fill, Fresh, Goto, Done, Proc, Procs, Actors, NoLocals, history, Load, Local, Table
<1>3. BotKept'
  BY <1>1 DEF Kept, FileKept, BotKept, Shape, BotCopy, Defaults, Pending, InFile, Ours, Agrees, TypeOK, Fill, Fresh, Goto, Done, Proc, Procs, Actors, NoLocals, history, Load, Local, Table
<1>4. CacheKept'
  BY <1>1 DEF Kept, FileKept, CacheKept, CopiesKept, Shape, Defaults, InFile, Ours, Agrees, TypeOK, Fill, Fresh, Goto, Done, Proc, Procs, Actors, NoLocals, history, Load, Local, Table
<1>5. CopiesKept'
  BY <1>1 DEF Kept, FileKept, CacheKept, CopiesKept, InFile, Ours, Agrees, TypeOK, Fill, Fresh, Goto, Done, Proc, Procs, Actors, NoLocals, history, Load, Local, Table
<1>. QED
  BY <1>2, <1>3, <1>4, <1>5 DEF Kept

LEMMA StampKept ==
  ASSUME TypeOK, TypeOK', Shape, Shape', upset = {} => Kept,
         NEW a \in Actors, Stamp(a), upset' = {}
  PROVE  Kept'
<1>. USE Constants
<1>1. Kept
  BY DEF Stamp, history, Load
<1>2. FileKept'
  BY <1>1 DEF Kept, FileKept, BotKept, CopiesKept, Shape, Defaults, Pending, InFile, Ours, Agrees, TypeOK, Stamp, Fresh, Goto, Done, Proc, Procs, Actors, NoLocals, history, Load, Local, Table
<1>3. BotKept'
  BY <1>1 DEF Kept, FileKept, BotKept, Shape, BotCopy, Defaults, Pending, InFile, Ours, Agrees, TypeOK, Stamp, Fresh, Goto, Done, Proc, Procs, Actors, NoLocals, history, Load, Local, Table
<1>4. CacheKept'
  BY <1>1 DEF Kept, FileKept, CacheKept, CopiesKept, Shape, Defaults, InFile, Ours, Agrees, TypeOK, Stamp, Fresh, Goto, Done, Proc, Procs, Actors, NoLocals, history, Load, Local, Table
<1>5. CopiesKept'
  BY <1>1 DEF Kept, FileKept, CacheKept, CopiesKept, InFile, Ours, Agrees, TypeOK, Stamp, Fresh, Goto, Done, Proc, Procs, Actors, NoLocals, history, Load, Local, Table
<1>. QED
  BY <1>2, <1>3, <1>4, <1>5 DEF Kept

LEMMA CommandKept ==
  ASSUME TypeOK, TypeOK', Shape, Shape', upset = {} => Kept,
         Command, upset' = {}
  PROVE  Kept'
<1>. USE Constants
<1>1. Kept
  BY DEF Command, history, Load
<1>2. FileKept'
  BY <1>1 DEF Kept, FileKept, BotKept, CopiesKept, Shape, Defaults, Pending, InFile, Ours, Agrees, TypeOK, Command, Fresh, Goto, Done, Proc, Procs, Actors, NoLocals, history, Load, Local, Table
<1>3. BotKept'
  BY <1>1 DEF Kept, FileKept, BotKept, Shape, BotCopy, Defaults, Pending, InFile, Ours, Agrees, TypeOK, Command, Fresh, Goto, Done, Proc, Procs, Actors, NoLocals, history, Load, Local, Table
<1>4. CacheKept'
  BY <1>1 DEF Kept, FileKept, CacheKept, CopiesKept, Shape, Defaults, InFile, Ours, Agrees, TypeOK, Command, Fresh, Goto, Done, Proc, Procs, Actors, NoLocals, history, Load, Local, Table
<1>5. CopiesKept'
  BY <1>1 DEF Kept, FileKept, CacheKept, CopiesKept, InFile, Ours, Agrees, TypeOK, Command, Fresh, Goto, Done, Proc, Procs, Actors, NoLocals, history, Load, Local, Table
<1>. QED
  BY <1>2, <1>3, <1>4, <1>5 DEF Kept

LEMMA ChangeKept ==
  ASSUME TypeOK, TypeOK', Shape, Shape', upset = {} => Kept,
         Change, upset' = {}
  PROVE  Kept'
<1>. USE Constants
<1>1. Kept
  BY DEF Change, history, Load
<1>2. FileKept'
  BY <1>1 DEF Kept, FileKept, BotKept, CopiesKept, Shape, Defaults, Pending, InFile, Ours, Agrees, TypeOK, Change, Fresh, Goto, Done, Proc, Procs, Actors, NoLocals, history, Load, Local, Table
<1>3. BotKept'
  BY <1>1 DEF Kept, FileKept, BotKept, Shape, BotCopy, Defaults, Pending, InFile, Ours, Agrees, TypeOK, Change, Fresh, Goto, Done, Proc, Procs, Actors, NoLocals, history, Load, Local, Table
<1>6. \A i \in Items \ unsaved :
        status'[i] = status[i] \/ {status[i], status'[i]} \subseteq {"never", "removed"}
  <2>1. pc["bot"] = "use" /\ local["bot"].data # None
    BY DEF Change, TypeOK, Actors, Procs
  <2>2. \A i \in Items : Agrees(local["bot"].data, i)
    BY <1>1, <2>1 DEF Kept, BotKept, Pending
  <2>3. local["bot"].op # "list" => local["bot"].item \in Items
    BY <2>1 DEF Shape, BotTask
  <2>. QED
    BY <2>1, <2>2, <2>3 DEF Change, Agrees, TypeOK
<1>7. /\ cache'["proxy"] = cache["proxy"] /\ since' = since /\ unsaved' = unsaved
      /\ \A a \in Ours : local'[a] = local[a] /\ pc'[a] = pc[a]
  BY DEF Change, Done, Goto, TypeOK, Ours, Actors, Procs
<1>4. CacheKept'
  BY <1>1, <1>6, <1>7 DEF Kept, CacheKept, Agrees, TypeOK
<1>5. CopiesKept'
  BY <1>1, <1>6, <1>7 DEF Kept, CopiesKept, Agrees, TypeOK
<1>. QED
  BY <1>2, <1>3, <1>4, <1>5 DEF Kept

LEMMA SaveChangeKept ==
  ASSUME TypeOK, TypeOK', Shape, Shape', upset = {} => Kept,
         SaveChange, upset' = {}
  PROVE  Kept'
<1>. USE Constants
<1>1. Kept
  BY DEF SaveChange, history, Load
<1>2. FileKept'
  BY <1>1 DEF Kept, FileKept, BotKept, Shape, BotTask, BotEdit, BotCopy, Pending, InFile, Agrees, TypeOK, SaveChange, Fresh, Goto, Done, Proc, Procs, Actors, NoLocals, history, Load, Local, Table
<1>3. BotKept'
  BY <1>1 DEF Kept, FileKept, BotKept, Shape, BotTask, BotEdit, BotCopy, Pending, InFile, Agrees, TypeOK, SaveChange, Fresh, Goto, Done, Proc, Procs, Actors, NoLocals, history, Load, Local, Table
<1>4. CacheKept'
  BY <1>1 DEF Kept, FileKept, CacheKept, CopiesKept, Shape, Defaults, InFile, Ours, Agrees, TypeOK, SaveChange, Fresh, Goto, Done, Proc, Procs, Actors, NoLocals, history, Load, Local, Table
<1>5. CopiesKept'
  BY <1>1 DEF Kept, FileKept, CacheKept, CopiesKept, InFile, Ours, Agrees, TypeOK, SaveChange, Fresh, Goto, Done, Proc, Procs, Actors, NoLocals, history, Load, Local, Table
<1>. QED
  BY <1>2, <1>3, <1>4, <1>5 DEF Kept

LEMMA SaveChangeFailsKept ==
  ASSUME TypeOK, TypeOK', Shape, Shape', upset = {} => Kept,
         SaveChangeFails, upset' = {}
  PROVE  Kept'
<1>. USE Constants
<1>1. Kept
  BY DEF SaveChangeFails, history, Load
<1>2. FileKept'
  BY <1>1 DEF Kept, FileKept, BotKept, CopiesKept, Shape, Defaults, Pending, InFile, Ours, Agrees, TypeOK, SaveChangeFails, Fresh, Goto, Done, Proc, Procs, Actors, NoLocals, history, Load, Local, Table
<1>3. BotKept'
  BY <1>1 DEF Kept, FileKept, BotKept, Shape, BotCopy, Defaults, Pending, InFile, Ours, Agrees, TypeOK, SaveChangeFails, Fresh, Goto, Done, Proc, Procs, Actors, NoLocals, history, Load, Local, Table
<1>4. CacheKept'
  BY <1>1 DEF Kept, FileKept, CacheKept, CopiesKept, Shape, Defaults, InFile, Ours, Agrees, TypeOK, SaveChangeFails, Fresh, Goto, Done, Proc, Procs, Actors, NoLocals, history, Load, Local, Table
<1>5. CopiesKept'
  BY <1>1 DEF Kept, FileKept, CacheKept, CopiesKept, InFile, Ours, Agrees, TypeOK, SaveChangeFails, Fresh, Goto, Done, Proc, Procs, Actors, NoLocals, history, Load, Local, Table
<1>. QED
  BY <1>2, <1>3, <1>4, <1>5 DEF Kept

LEMMA RequestKept ==
  ASSUME TypeOK, TypeOK', Shape, Shape', upset = {} => Kept,
         Request, upset' = {}
  PROVE  Kept'
<1>. USE Constants
<1>1. Kept
  BY DEF Request, history, Load
<1>2. FileKept'
  BY <1>1 DEF Kept, FileKept, BotKept, CopiesKept, Shape, Defaults, Pending, InFile, Ours, Agrees, TypeOK, Request, Fresh, Goto, Done, Proc, Procs, Actors, NoLocals, history, Load, Local, Table
<1>3. BotKept'
  BY <1>1 DEF Kept, FileKept, BotKept, Shape, BotCopy, Defaults, Pending, InFile, Ours, Agrees, TypeOK, Request, Fresh, Goto, Done, Proc, Procs, Actors, NoLocals, history, Load, Local, Table
<1>4. CacheKept'
  BY <1>1 DEF Kept, FileKept, CacheKept, CopiesKept, Shape, Defaults, InFile, Ours, Agrees, TypeOK, Request, Fresh, Goto, Done, Proc, Procs, Actors, NoLocals, history, Load, Local, Table
<1>5. CopiesKept'
  <2>1. [NoLocals EXCEPT !.op = "apply"] \in Local /\ [NoLocals EXCEPT !.op = "apply"].data = None
    BY NoLocalsTyped, LocalEdits
  <2>. QED
    BY <1>1, <2>1, LoadKept DEF Request, Ours
<1>. QED
  BY <1>2, <1>3, <1>4, <1>5 DEF Kept

LEMMA ApplyKept ==
  ASSUME TypeOK, TypeOK', Shape, Shape', upset = {} => Kept,
         Apply, upset' = {}
  PROVE  Kept'
<1>. USE Constants
<1>1. Kept
  BY DEF Apply, history, Load
<1>2. FileKept'
  BY <1>1 DEF Kept, FileKept, BotKept, CopiesKept, Shape, Defaults, Pending, InFile, Ours, Agrees, TypeOK, Apply, Fresh, Goto, Done, Proc, Procs, Actors, NoLocals, history, Load, Local, Table
<1>3. BotKept'
  BY <1>1 DEF Kept, FileKept, BotKept, Shape, BotCopy, Defaults, Pending, InFile, Ours, Agrees, TypeOK, Apply, Fresh, Goto, Done, Proc, Procs, Actors, NoLocals, history, Load, Local, Table
<1>4. CacheKept'
  BY <1>1 DEF Kept, FileKept, CacheKept, CopiesKept, Shape, Defaults, InFile, Ours, Agrees, TypeOK, Apply, Fresh, Goto, Done, Proc, Procs, Actors, NoLocals, history, Load, Local, Table
<1>5. CopiesKept'
  BY <1>1 DEF Kept, FileKept, CacheKept, CopiesKept, InFile, Ours, Agrees, TypeOK, Apply, Fresh, Goto, Done, Proc, Procs, Actors, NoLocals, history, Load, Local, Table
<1>. QED
  BY <1>2, <1>3, <1>4, <1>5 DEF Kept

LEMMA PostedKept ==
  ASSUME TypeOK, TypeOK', Shape, Shape', upset = {} => Kept,
         NEW d \in Deliveries, Posted(d), upset' = {}
  PROVE  Kept'
<1>. USE Constants
<1>1. Kept
  BY DEF Posted, history, Load
<1>2. FileKept'
  BY <1>1 DEF Kept, FileKept, BotKept, CopiesKept, Shape, Defaults, Pending, InFile, Ours, Agrees, TypeOK, Posted, Fresh, Goto, Done, Proc, Procs, Actors, NoLocals, history, Load, Local, Table
<1>3. BotKept'
  BY <1>1 DEF Kept, FileKept, BotKept, Shape, BotCopy, Defaults, Pending, InFile, Ours, Agrees, TypeOK, Posted, Fresh, Goto, Done, Proc, Procs, Actors, NoLocals, history, Load, Local, Table
<1>4. CacheKept'
  BY <1>1 DEF Kept, FileKept, CacheKept, CopiesKept, Shape, Defaults, InFile, Ours, Agrees, TypeOK, Posted, Fresh, Goto, Done, Proc, Procs, Actors, NoLocals, history, Load, Local, Table
<1>5. CopiesKept'
  <2>1. local[d] \in Local /\ local[d].data = None
    BY DEF TypeOK, Posted, Actors
  <2>2. PICK outcome \in {"success", "failure"} : Load(d, [local[d] EXCEPT !.op = outcome])
    BY DEF Posted
  <2>3. [local[d] EXCEPT !.op = outcome] \in Local /\ [local[d] EXCEPT !.op = outcome].data = None
    BY <2>1, LocalEdits
  <2>. QED
    BY <1>1, <2>2, <2>3, LoadKept DEF Ours
<1>. QED
  BY <1>2, <1>3, <1>4, <1>5 DEF Kept

LEMMA NoteKept ==
  ASSUME TypeOK, TypeOK', Shape, Shape', upset = {} => Kept,
         NEW d \in Deliveries, Note(d), upset' = {}
  PROVE  Kept'
<1>. USE Constants
<1>1. Kept
  BY DEF Note, history, Load
<1>2. FileKept'
  BY <1>1 DEF Kept, FileKept, BotKept, CopiesKept, Shape, Defaults, Pending, InFile, Ours, Agrees, TypeOK, Note, Fresh, Goto, Done, Proc, Procs, Actors, NoLocals, history, Load, Local, Table
<1>3. BotKept'
  BY <1>1 DEF Kept, FileKept, BotKept, Shape, BotCopy, Defaults, Pending, InFile, Ours, Agrees, TypeOK, Note, Fresh, Goto, Done, Proc, Procs, Actors, NoLocals, history, Load, Local, Table
<1>4. CacheKept'
  BY <1>1 DEF Kept, FileKept, CacheKept, CopiesKept, Shape, Defaults, InFile, Ours, Agrees, TypeOK, Note, Fresh, Goto, Done, Proc, Procs, Actors, NoLocals, history, Load, Local, Table
<1>5. CopiesKept'
  BY <1>1 DEF Kept, FileKept, CacheKept, CopiesKept, InFile, Ours, Agrees, TypeOK, Note, Fresh, Goto, Done, Proc, Procs, Actors, NoLocals, history, Load, Local, Table
<1>. QED
  BY <1>2, <1>3, <1>4, <1>5 DEF Kept

LEMMA SaveNoteKept ==
  ASSUME TypeOK, TypeOK', Shape, Shape', upset = {} => Kept,
         NEW d \in Deliveries, SaveNote(d), upset' = {}
  PROVE  Kept'
<1>. USE Constants
<1>1. Kept
  BY DEF SaveNote, history, Load
<1>6. local[d].data # None /\ d \in Actors
  BY DEF SaveNote, TypeOK, Actors
<1>7. \A i \in Items : since[i] = Ttl
  <2>1. ~(\E i \in Items : since[i] < Ttl)
    BY DEF SaveNote
  <2>2. \A i \in Items : since[i] \in 0 .. Ttl
    BY DEF TypeOK
  <2>. QED
    BY <2>1, <2>2
<1>8. \A i \in Items : Agrees(local[d].data, i)
  BY <1>1, <1>6, <1>7 DEF Kept, CopiesKept, Ours
<1>2. FileKept'
  BY <1>6, <1>8 DEF FileKept, InFile, Agrees, SaveNote
<1>3. BotKept'
  BY <1>1 DEF Kept, FileKept, BotKept, Shape, BotCopy, Defaults, Pending, InFile, Ours, Agrees, TypeOK, SaveNote, Fresh, Goto, Done, Proc, Procs, Actors, NoLocals, history, Load, Local, Table
<1>4. CacheKept'
  BY <1>1 DEF Kept, FileKept, CacheKept, CopiesKept, Shape, Defaults, InFile, Ours, Agrees, TypeOK, SaveNote, Fresh, Goto, Done, Proc, Procs, Actors, NoLocals, history, Load, Local, Table
<1>5. CopiesKept'
  BY <1>1, <1>6, <1>8 DEF Kept, CopiesKept, Ours, Agrees, SaveNote, Goto, TypeOK, Actors, Procs
<1>. QED
  BY <1>2, <1>3, <1>4, <1>5 DEF Kept

LEMMA SaveNoteFailsKept ==
  ASSUME TypeOK, TypeOK', Shape, Shape', upset = {} => Kept,
         NEW d \in Deliveries, SaveNoteFails(d), upset' = {}
  PROVE  Kept'
<1>. USE Constants
<1>1. Kept
  BY DEF SaveNoteFails, history, Load
<1>2. FileKept'
  BY <1>1 DEF Kept, FileKept, BotKept, CopiesKept, Shape, Defaults, Pending, InFile, Ours, Agrees, TypeOK, SaveNoteFails, Fresh, Goto, Done, Proc, Procs, Actors, NoLocals, history, Load, Local, Table
<1>3. BotKept'
  BY <1>1 DEF Kept, FileKept, BotKept, Shape, BotCopy, Defaults, Pending, InFile, Ours, Agrees, TypeOK, SaveNoteFails, Fresh, Goto, Done, Proc, Procs, Actors, NoLocals, history, Load, Local, Table
<1>4. CacheKept'
  BY <1>1 DEF Kept, FileKept, CacheKept, CopiesKept, Shape, Defaults, InFile, Ours, Agrees, TypeOK, SaveNoteFails, Fresh, Goto, Done, Proc, Procs, Actors, NoLocals, history, Load, Local, Table
<1>5. CopiesKept'
  BY <1>1 DEF Kept, FileKept, CacheKept, CopiesKept, InFile, Ours, Agrees, TypeOK, SaveNoteFails, Fresh, Goto, Done, Proc, Procs, Actors, NoLocals, history, Load, Local, Table
<1>. QED
  BY <1>2, <1>3, <1>4, <1>5 DEF Kept

LEMMA TickKept ==
  ASSUME TypeOK, TypeOK', Shape, Shape', upset = {} => Kept,
         Tick, upset' = {}
  PROVE  Kept'
<1>. USE Constants
<1>1. Kept
  BY DEF Tick, history, Load
<1>2. FileKept'
  BY <1>1 DEF Kept, FileKept, BotKept, CopiesKept, Shape, Defaults, Pending, InFile, Ours, Agrees, TypeOK, Tick, Fresh, Goto, Done, Proc, Procs, Actors, NoLocals, history, Load, Local, Table
<1>3. BotKept'
  BY <1>1 DEF Kept, FileKept, BotKept, Shape, BotCopy, Defaults, Pending, InFile, Ours, Agrees, TypeOK, Tick, Fresh, Goto, Done, Proc, Procs, Actors, NoLocals, history, Load, Local, Table
<1>4. CacheKept'
  BY <1>1 DEF Kept, FileKept, CacheKept, CopiesKept, Shape, Defaults, InFile, Ours, Agrees, TypeOK, Tick, Fresh, Goto, Done, Proc, Procs, Actors, NoLocals, history, Load, Local, Table
<1>5. CopiesKept'
  BY <1>1 DEF Kept, FileKept, CacheKept, CopiesKept, InFile, Ours, Agrees, TypeOK, Tick, Fresh, Goto, Done, Proc, Procs, Actors, NoLocals, history, Load, Local, Table
<1>. QED
  BY <1>2, <1>3, <1>4, <1>5 DEF Kept

LEMMA RestartKept ==
  ASSUME TypeOK, TypeOK', Shape, Shape', upset = {} => Kept,
         NEW p \in Procs, Restart(p), upset' = {}
  PROVE  Kept'
<1>. USE Constants
<1>1. Kept
  BY DEF Restart, history, Load
<1>2. FileKept'
  BY <1>1 DEF Kept, FileKept, BotKept, CopiesKept, Shape, Defaults, Pending, InFile, Ours, Agrees, TypeOK, Restart, Fresh, Goto, Done, Proc, Procs, Actors, NoLocals, history, Load, Local, Table
<1>3. BotKept'
  BY <1>1 DEF Kept, FileKept, BotKept, Shape, BotCopy, Defaults, Pending, InFile, Ours, Agrees, TypeOK, Restart, Fresh, Goto, Done, Proc, Procs, Actors, NoLocals, history, Load, Local, Table
<1>4. CacheKept'
  BY <1>1 DEF Kept, FileKept, CacheKept, CopiesKept, Shape, Defaults, InFile, Ours, Agrees, TypeOK, Restart, Fresh, Goto, Done, Proc, Procs, Actors, NoLocals, history, Load, Local, Table
<1>5. CopiesKept'
  BY <1>1 DEF Kept, FileKept, CacheKept, CopiesKept, InFile, Ours, Agrees, TypeOK, Restart, Fresh, Goto, Done, Proc, Procs, Actors, NoLocals, history, Load, Local, Table
<1>. QED
  BY <1>2, <1>3, <1>4, <1>5 DEF Kept

-----------------------------------------------------------------------------
LEMMA InitIInv == Init => IInv
<1>. SUFFICES ASSUME Init PROVE IInv
  OBVIOUS
<1>. USE Constants
<1>1. setting \in Setting /\ setting.before \in Table
  BY DEF Init, Setting, Table
<1>2. TypeOK
  BY <1>1, NoLocalsTyped DEF Init, TypeOK, Phases, Actors, Procs, Table
<1>3. Shape
  BY DEF Init, Shape, NoFile, HaveFile, Defaults, BotCopy, BotTask, BotEdit, Actors, Procs
<1>4. FileKept
  BY <1>1 DEF Init, FileKept, InFile, Agrees, Table
<1>5. BotKept /\ CacheKept /\ CopiesKept
  BY NoLocalsTyped DEF Init, BotKept, CacheKept, CopiesKept, Ours, Actors, Procs
<1>. QED
  BY <1>2, <1>3, <1>4, <1>5 DEF IInv, Kept

LEMMA NextIInv == IInv /\ [Next]_vars => IInv'
<1>. SUFFICES ASSUME TypeOK, Shape, upset = {} => Kept, [Next]_vars PROVE IInv'
  BY DEF IInv
<1>1. CASE \E a \in Actors : Look(a)
  BY <1>1, LookTypes, LookShape, LookKept DEF IInv
<1>2. CASE \E a \in Actors : SaveDefault(a)
  BY <1>2, SaveDefaultTypes, SaveDefaultShape, SaveDefaultKept DEF IInv
<1>3. CASE \E a \in Actors : SaveDefaultFails(a)
  BY <1>3, SaveDefaultFailsTypes, SaveDefaultFailsShape, SaveDefaultFailsKept DEF IInv
<1>4. CASE \E a \in Actors : Fill(a)
  BY <1>4, FillTypes, FillShape, FillKept DEF IInv
<1>5. CASE \E a \in Actors : Stamp(a)
  BY <1>5, StampTypes, StampShape, StampKept DEF IInv
<1>6. CASE Command
  BY <1>6, CommandTypes, CommandShape, CommandKept DEF IInv
<1>7. CASE Change
  BY <1>7, ChangeTypes, ChangeShape, ChangeKept DEF IInv
<1>8. CASE SaveChange
  BY <1>8, SaveChangeTypes, SaveChangeShape, SaveChangeKept DEF IInv
<1>9. CASE SaveChangeFails
  BY <1>9, SaveChangeFailsTypes, SaveChangeFailsShape, SaveChangeFailsKept DEF IInv
<1>10. CASE Request
  BY <1>10, RequestTypes, RequestShape, RequestKept DEF IInv
<1>11. CASE Apply
  BY <1>11, ApplyTypes, ApplyShape, ApplyKept DEF IInv
<1>12. CASE \E d \in Deliveries : Posted(d)
  BY <1>12, PostedTypes, PostedShape, PostedKept DEF IInv
<1>13. CASE \E d \in Deliveries : Note(d)
  BY <1>13, NoteTypes, NoteShape, NoteKept DEF IInv
<1>14. CASE \E d \in Deliveries : SaveNote(d)
  BY <1>14, SaveNoteTypes, SaveNoteShape, SaveNoteKept DEF IInv
<1>15. CASE \E d \in Deliveries : SaveNoteFails(d)
  BY <1>15, SaveNoteFailsTypes, SaveNoteFailsShape, SaveNoteFailsKept DEF IInv
<1>16. CASE Tick
  BY <1>16, TickTypes, TickShape, TickKept DEF IInv
<1>17. CASE \E p \in Procs : Restart(p)
  BY <1>17, RestartTypes, RestartShape, RestartKept DEF IInv
<1>18. CASE UNCHANGED vars
  BY <1>18 DEF vars, history, IInv, TypeOK, Shape, NoFile, HaveFile, Defaults, BotCopy, BotTask, BotEdit,
             Kept, FileKept, BotKept, CacheKept, CopiesKept, InFile, Pending, Agrees
<1>. QED
  BY <1>1, <1>2, <1>3, <1>4, <1>5, <1>6, <1>7, <1>8, <1>9, <1>10, <1>11, <1>12, <1>13, <1>14, <1>15, <1>16, <1>17, <1>18 DEF Next, LoadSteps, Bot, Proxy, Deliver

\* The file, the copies in the caches and the tables being changed stay as the invariant
\* says, whatever writes fail, deliveries overlap or processes restart.
THEOREM RulesKept == Spec => []IInv
  BY InitIInv, NextIInv, PTL DEF Spec

\* Every variable of the rules keeps its type.
THEOREM RulesTyped == Spec => []TypeOK
<1>1. IInv => TypeOK
  BY DEF IInv
<1>. QED
  BY <1>1, RulesKept, PTL

\* A rule the bot confirmed is what the file says until a default or a delivery's copy is
\* saved over it, for any rules and deliveries (filter_rules.py:41-72, webhooks.py:56-85);
\* but for a rule whose last save failed, which the bot may confirm without saving it.
THEOREM ConfirmedStays == Spec => []ConfirmedIsKept
<1>1. IInv => ConfirmedIsKept
  BY DEF IInv, Kept, FileKept, InFile, ConfirmedIsKept
<1>. QED
  BY <1>1, RulesKept, PTL

\* One life of the cache after a change the proxy goes by it, whatever that life is
\* (filter_rules.py:13-38, webhooks.py:40-53).
THEOREM ChangesTakeEffect == Spec => []TakesEffect
<1>1. IInv => TakesEffect
  BY DEF IInv, TypeOK, Kept, CopiesKept, Ours, Actors, Procs, TakesEffect
<1>. QED
  BY <1>1, RulesKept, PTL
=============================================================================
