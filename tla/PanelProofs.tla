---------------------------- MODULE PanelProofs -----------------------------
(***************************************************************************)
(* A lock-out is earned and comes in time, and an account that was         *)
(* switched off is told from the others where the panel looks at it, for   *)
(* any number of addresses, accounts and threads.  The invariant ties      *)
(* every dictionary of failed logins, stored or only held by a thread, to  *)
(* one address whose failures it does not exceed; and, while changes of    *)
(* adminx.json do not overlap, the one copy about to be saved to the file. *)
(* How many guesses come before a lock-out follows from counting the       *)
(* failures there is still room for in the dictionaries of an address.     *)
(***************************************************************************)
EXTENDS Panel, FiniteSetTheorems, WellFoundedInduction, TLAPS

\* d counts the failures of ip.
Owned(d, ip) == \/ attempts[ip] = d
                \/ \E t \in Threads : local[t].entry = d /\ local[t].ip = ip

-----------------------------------------------------------------------------
(* Where the threads are *)

Holding == \A t \in Threads :
    /\ local[t].entry # None <=> pc[t] = "check"
    /\ pc[t] # "idle" => local[t].ip \in Ips
    /\ pc[t] = "make" => local[t].session.user \in Users
Changing == \A a \in Actors :
    /\ pc[a] \in {"serve", "load", "save"} => local[a].user \in Users
    /\ pc[a] = "save" => local[a].copy # None
Apart == \A d \in Dicts, ip \in Ips, jp \in Ips : Owned(d, ip) /\ Owned(d, jp) => ip = jp
Shape == Holding /\ Changing /\ Apart

-----------------------------------------------------------------------------
(* What the code keeps as long as nothing overlaps *)

Earned == "login" \notin upset => \A d \in Dicts, ip \in Ips : Owned(d, ip) =>
    /\ heap[d].count <= fails[ip]
    /\ heap[d].left > 0 => fails[ip] >= MaxAttempts

ToldTrue == \A user \in Users : told[user].state = accounts[user]
CopyTrue == \A a \in Actors : pc[a] = "save" =>
    /\ local[a].copy = [accounts EXCEPT ![local[a].user] = local[a].goal]
    /\ \A b \in Actors : pc[b] = "save" => b = a
MakerActive == \A t \in Threads : pc[t] = "make" =>
    LET user == local[t].session.user IN accounts[user] = "active" \/ told[user].age = 0
Agreed == "accounts" \notin upset => ToldTrue /\ CopyTrue /\ MakerActive

IInv == TypeOK /\ Shape /\ Earned /\ Agreed

-----------------------------------------------------------------------------
(* There is a dictionary to spare *)

LEMMA DictsNat == Dicts \subseteq Nat /\ None \notin Dicts
<1>1. Cardinality(Ips) \in Nat /\ Cardinality(Threads) \in Nat
  BY PanelAssumption, FS_CardinalityType
<1>. QED
  BY <1>1, PanelAssumption DEF Dicts

LEMMA NewDictFree ==
  ASSUME TypeOK
  PROVE  /\ NewDict \in Dicts
         /\ \A ip \in Ips : attempts[ip] # NewDict
         /\ \A t \in Threads : local[t].entry # NewDict
<1>. DEFINE A == {attempts[ip] : ip \in Ips}
            B == {local[t].entry : t \in Threads}
            entryOf == [t \in Threads |-> local[t].entry]
            Free == Dicts \ (A \cup B)
<1>1. Cardinality(Ips) \in Nat /\ Cardinality(Threads) \in Nat
  BY PanelAssumption, FS_CardinalityType
<1>2. IsFiniteSet(A) /\ Cardinality(A) \in Nat /\ Cardinality(A) <= Cardinality(Ips)
  <2>1. attempts \in Surjection(Ips, A)
    BY DEF Surjection, TypeOK
  <2>. QED
    BY <2>1, FS_Surjection, FS_CardinalityType, PanelAssumption
<1>3. IsFiniteSet(B) /\ Cardinality(B) \in Nat /\ Cardinality(B) <= Cardinality(Threads)
  <2>1. entryOf \in Surjection(Threads, B)
    BY DEF Surjection
  <2>. QED
    BY <2>1, FS_Surjection, FS_CardinalityType, PanelAssumption
<1>4. IsFiniteSet(A \cup B) /\ Cardinality(A \cup B) <= Cardinality(A) + Cardinality(B)
  <2>1. IsFiniteSet(A \cap B)
    BY <1>2, FS_Subset
  <2>2. Cardinality(A \cap B) \in Nat
    BY <2>1, FS_CardinalityType
  <2>3. Cardinality(A \cup B) = Cardinality(A) + Cardinality(B) - Cardinality(A \cap B)
    BY <1>2, <1>3, FS_Union
  <2>4. IsFiniteSet(A \cup B)
    BY <1>2, <1>3, FS_Union
  <2>. QED
    BY <1>2, <1>3, <2>2, <2>3, <2>4
<1>5. Cardinality(Dicts) = Cardinality(Ips) + Cardinality(Threads) + 1
  BY <1>1, FS_Interval DEF Dicts
<1>6. Free # {}
  <2>1. SUFFICES ASSUME Dicts \subseteq A \cup B PROVE FALSE
    OBVIOUS
  <2>2. Cardinality(Dicts) <= Cardinality(A \cup B)
    BY <1>4, <2>1, FS_Subset
  <2>3. Cardinality(A \cup B) \in Nat
    BY <1>4, FS_CardinalityType
  <2>. QED
    BY <1>1, <1>2, <1>3, <1>4, <1>5, <2>2, <2>3
<1>7. Free \subseteq Nat
  BY DictsNat
<1>8. \E x \in Free : \A y \in Free : ~(<<y, x>> \in OpToRel(<, Nat))
  BY <1>6, <1>7, NatLessThanWellFounded, WFMin
<1>9. \E x \in Free : \A y \in Free : x <= y
  <2>1. PICK x \in Free : \A y \in Free : ~(<<y, x>> \in OpToRel(<, Nat))
    BY <1>8
  <2>2. ASSUME NEW y \in Free PROVE x <= y
    <3>1. x \in Nat /\ y \in Nat
      BY <1>7
    <3>2. ~(y < x)
      BY <2>1, <3>1 DEF OpToRel
    <3>. QED
      BY <3>1, <3>2
  <2>. QED
    BY <2>2
<1>10. NewDict \in Free
  BY <1>9 DEF NewDict, Min
<1>. QED
  BY <1>10

-----------------------------------------------------------------------------
(* Every step keeps the types *)

LEMMA Numbers ==
  /\ MaxAttempts \in Nat /\ MaxAttempts > 0
  /\ Block \in Nat /\ Block > 0
  /\ Timeout \in Nat
  /\ None \notin Dicts \cup Users \cup Ips \cup [Users -> States]
BY PanelAssumption, DictsNat

LEMMA SessionTypes ==
  /\ NoSession \in Session
  /\ \A u \in Users \cup {"admin"} : [user |-> u, idle |-> 0] \in Session
  /\ \A s \in Session : Renewed(s) \in Session
BY Numbers DEF NoSession, Session, Renewed

LEMMA NoLocalsTyped == NoLocals \in Local /\ NoLocals.entry = None /\ NoLocals.ip = None
BY SessionTypes DEF NoLocals, Local, States

\* A request that ends leaves a session in its browser.
LEMMA ReplyTypes ==
  ASSUME TypeOK, NEW t \in Threads, NEW session \in Session, Reply(t, session)
  PROVE  cookie' \in [Ips -> Session] /\ pc' \in [Actors -> Phases] /\ local' \in [Actors -> Local]
BY NoLocalsTyped DEF TypeOK, Reply, Goto, Phases

LEMMA AnswerTypes ==
  ASSUME TypeOK, NEW a \in Actors, Answer(a)
  PROVE  cookie' \in [Ips -> Session] /\ pc' \in [Actors -> Phases] /\ local' \in [Actors -> Local]
<1>1. local[a].session \in Session
  BY DEF TypeOK, Local
<1>. QED
  BY <1>1, NoLocalsTyped DEF TypeOK, Answer, Goto, Phases

LEMMA LocalFields ==
  ASSUME TypeOK, NEW a \in Actors
  PROVE  /\ local[a] \in Local
         /\ local[a].session \in Session
         /\ local[a].goal \in States
BY DEF TypeOK, Local

LEMMA ArriveTypes ==
  ASSUME TypeOK, Shape, NEW t \in Threads, Arrive(t)
  PROVE  TypeOK'
<1>. USE Numbers
<1>1. setting' \in Setting /\ accounts' \in [Users -> States] /\ upset' \subseteq {"login", "accounts"}
  BY DEF TypeOK, Shape, Changing, Setting, Arrive, Goto, Reply, Answer, Actors, history, NoLocals, NoSession, Local, States
<1>2. heap' \in [Dicts -> Entry] /\ attempts' \in [Ips -> Dicts \cup {None}]
  BY DEF TypeOK, Shape, Holding, Arrive, Goto, Reply, Answer, Actors, history, NoLocals, NoSession, Entry, Blank, AtMost, Collect, Local
<1>3. cookie' \in [Ips -> Session]
  BY SessionTypes DEF TypeOK, Arrive
<1>4. pc' \in [Actors -> Phases]
  BY DEF TypeOK, Arrive, Goto, Reply, Answer, Actors, history, NoLocals, NoSession, Phases
<1>5. local' \in [Actors -> Local]
  <2>1. CASE UNCHANGED local
    BY <2>1 DEF TypeOK
  <2>2. CASE ~(UNCHANGED local)
    <3>1. PICK ip \in setting.ips, kind \in setting.kinds, user \in Users :
             local' = [local EXCEPT ![t] = [NoLocals EXCEPT !.ip = ip, !.kind = kind,
                                               !.user = user, !.session = Renewed(cookie[ip])]]
      BY <2>2 DEF Arrive
    <3>2. ip \in Ips /\ kind \in Kinds /\ Renewed(cookie[ip]) \in Session
      BY SessionTypes DEF TypeOK, Setting
    <3>3. [NoLocals EXCEPT !.ip = ip, !.kind = kind, !.user = user,
                           !.session = Renewed(cookie[ip])] \in Local
      BY <3>2, NoLocalsTyped DEF Local
    <3>. QED
      BY <3>1, <3>3 DEF TypeOK
  <2>. QED
    BY <2>1, <2>2
<1>6. /\ tries' \in [Ips -> Nat] /\ fails' \in [Ips -> 0 .. MaxAttempts]
      /\ told' \in [Users -> [state : States, age : 0 .. 1]]
  BY DEF TypeOK, Arrive, Goto, Reply, Answer, Actors, history, NoLocals, NoSession, AtMost, Local
<1>. QED
  BY <1>1, <1>2, <1>3, <1>4, <1>5, <1>6 DEF TypeOK

LEMMA LoginStartTypes ==
  ASSUME TypeOK, Shape, NEW t \in Threads, LoginStart(t)
  PROVE  TypeOK'
<1>. USE Numbers
<1>. USE NewDictFree
<1>1. setting' \in Setting /\ accounts' \in [Users -> States] /\ upset' \subseteq {"login", "accounts"}
  BY DEF TypeOK, Shape, Changing, Setting, LoginStart, Goto, Reply, Answer, Actors, history, NoLocals, NoSession, Local, States
<1>2. heap' \in [Dicts -> Entry] /\ attempts' \in [Ips -> Dicts \cup {None}]
  BY DEF TypeOK, Shape, Holding, LoginStart, Goto, Reply, Answer, Actors, history, NoLocals, NoSession, Entry, Blank, AtMost, Collect, Local
<1>3. cookie' \in [Ips -> Session]
  BY DEF TypeOK, LoginStart, Goto, Reply, Answer, Actors, history, NoLocals, NoSession, Session, Local, AtMost
<1>4. pc' \in [Actors -> Phases]
  BY DEF TypeOK, LoginStart, Goto, Reply, Answer, Actors, history, NoLocals, NoSession, Phases
<1>5. local' \in [Actors -> Local]
  <2>1. CASE Reply(t, local[t].session)
    BY <2>1, LocalFields, ReplyTypes DEF Actors
  <2>2. CASE ~Reply(t, local[t].session)
    <3>1. PICK d : /\ d = IF attempts[local[t].ip] = None THEN NewDict ELSE attempts[local[t].ip]
                   /\ local' = [local EXCEPT ![t].entry = d]
      BY <2>2 DEF LoginStart
    <3>2. d \in Dicts
      BY <3>1, NewDictFree DEF TypeOK, Shape, Holding, LoginStart
    <3>3. local' = [local EXCEPT ![t] = [local[t] EXCEPT !.entry = d]]
      BY <3>1
    <3>4. [local[t] EXCEPT !.entry = d] \in Local
      BY <3>2, LocalFields DEF Local, Actors
    <3>. QED
      BY <3>3, <3>4 DEF TypeOK
  <2>. QED
    BY <2>1, <2>2
<1>6. /\ tries' \in [Ips -> Nat] /\ fails' \in [Ips -> 0 .. MaxAttempts]
      /\ told' \in [Users -> [state : States, age : 0 .. 1]]
  BY DEF TypeOK, LoginStart, Goto, Reply, Answer, Actors, history, NoLocals, NoSession, AtMost, Local
<1>. QED
  BY <1>1, <1>2, <1>3, <1>4, <1>5, <1>6 DEF TypeOK

LEMMA LoginSucceedsTypes ==
  ASSUME TypeOK, Shape, NEW t \in Threads, NEW u \in Users \cup {"admin"}, LoginSucceeds(t, u)
  PROVE  TypeOK'
<1>. USE Numbers
<1>1. setting' \in Setting /\ accounts' \in [Users -> States] /\ upset' \subseteq {"login", "accounts"}
  BY DEF TypeOK, Shape, Changing, Setting, LoginSucceeds, Goto, Reply, Answer, Actors, history, NoLocals, NoSession, Local, States
<1>2. heap' \in [Dicts -> Entry] /\ attempts' \in [Ips -> Dicts \cup {None}]
  BY DEF TypeOK, Shape, Holding, LoginSucceeds, Goto, Reply, Answer, Actors, history, NoLocals, NoSession, Entry, Blank, AtMost, Collect, Local
<1>3. cookie' \in [Ips -> Session]
  BY SessionTypes, ReplyTypes DEF LoginSucceeds
<1>4. pc' \in [Actors -> Phases]
  BY SessionTypes, ReplyTypes DEF LoginSucceeds
<1>5. local' \in [Actors -> Local]
  BY SessionTypes, ReplyTypes DEF LoginSucceeds
<1>6. /\ tries' \in [Ips -> Nat] /\ fails' \in [Ips -> 0 .. MaxAttempts]
      /\ told' \in [Users -> [state : States, age : 0 .. 1]]
  <2>1. 0 \in Nat /\ 0 \in 0 .. MaxAttempts
    OBVIOUS
  <2>. QED
    BY <2>1 DEF TypeOK, LoginSucceeds
<1>. QED
  BY <1>1, <1>2, <1>3, <1>4, <1>5, <1>6 DEF TypeOK

LEMMA LoginInactiveTypes ==
  ASSUME TypeOK, Shape, NEW t \in Threads, LoginInactive(t)
  PROVE  TypeOK'
<1>. USE Numbers
<1>1. setting' \in Setting /\ accounts' \in [Users -> States] /\ upset' \subseteq {"login", "accounts"}
  BY DEF TypeOK, Shape, Changing, Setting, LoginInactive, Goto, Reply, Answer, Actors, history, NoLocals, NoSession, Local, States
<1>2. heap' \in [Dicts -> Entry] /\ attempts' \in [Ips -> Dicts \cup {None}]
  BY DEF TypeOK, Shape, Holding, LoginInactive, Goto, Reply, Answer, Actors, history, NoLocals, NoSession, Entry, Blank, AtMost, Collect, Local
<1>3. cookie' \in [Ips -> Session]
  BY LocalFields, ReplyTypes DEF LoginInactive, Actors
<1>4. pc' \in [Actors -> Phases]
  BY LocalFields, ReplyTypes DEF LoginInactive, Actors
<1>5. local' \in [Actors -> Local]
  BY LocalFields, ReplyTypes DEF LoginInactive, Actors
<1>6. /\ tries' \in [Ips -> Nat] /\ fails' \in [Ips -> 0 .. MaxAttempts]
      /\ told' \in [Users -> [state : States, age : 0 .. 1]]
  BY DEF TypeOK, LoginInactive, Goto, Reply, Answer, Actors, history, NoLocals, NoSession, AtMost, Local
<1>. QED
  BY <1>1, <1>2, <1>3, <1>4, <1>5, <1>6 DEF TypeOK

LEMMA LoginFailsTypes ==
  ASSUME TypeOK, Shape, NEW t \in Threads, LoginFails(t)
  PROVE  TypeOK'
<1>. USE Numbers
<1>1. setting' \in Setting /\ accounts' \in [Users -> States] /\ upset' \subseteq {"login", "accounts"}
  BY DEF TypeOK, Shape, Changing, Setting, LoginFails, Goto, Reply, Answer, Actors, history, NoLocals, NoSession, Local, States
<1>2. heap' \in [Dicts -> Entry] /\ attempts' \in [Ips -> Dicts \cup {None}]
  BY DEF TypeOK, Shape, Holding, LoginFails, Goto, Reply, Answer, Actors, history, NoLocals, NoSession, Entry, Blank, AtMost, Collect, Local
<1>3. cookie' \in [Ips -> Session]
  BY LocalFields, ReplyTypes DEF LoginFails, Actors
<1>4. pc' \in [Actors -> Phases]
  BY LocalFields, ReplyTypes DEF LoginFails, Actors
<1>5. local' \in [Actors -> Local]
  BY LocalFields, ReplyTypes DEF LoginFails, Actors
<1>6. /\ tries' \in [Ips -> Nat] /\ fails' \in [Ips -> 0 .. MaxAttempts]
      /\ told' \in [Users -> [state : States, age : 0 .. 1]]
  <2>1. local[t].ip \in Ips
    BY DEF Shape, Holding, LoginFails
  <2>2. AtMost(fails[local[t].ip] + 1, MaxAttempts) \in 0 .. MaxAttempts
    BY <2>1 DEF TypeOK, AtMost
  <2>3. fails' = [fails EXCEPT ![local[t].ip] = AtMost(fails[local[t].ip] + 1, MaxAttempts)]
    BY DEF LoginFails
  <2>4. fails' \in [Ips -> 0 .. MaxAttempts]
    BY <2>2, <2>3 DEF TypeOK
  <2>5. PICK n \in Nat : tries' = [tries EXCEPT ![local[t].ip] = n]
    <3>1. 0 \in Nat /\ tries[local[t].ip] + 1 \in Nat
      BY <2>1 DEF TypeOK
    <3>. QED
      BY <3>1 DEF LoginFails
  <2>. QED
    BY <2>4, <2>5 DEF TypeOK, LoginFails
<1>. QED
  BY <1>1, <1>2, <1>3, <1>4, <1>5, <1>6 DEF TypeOK

LEMMA LogoutTypes ==
  ASSUME TypeOK, Shape, NEW t \in Threads, Logout(t)
  PROVE  TypeOK'
<1>. USE Numbers
<1>1. setting' \in Setting /\ accounts' \in [Users -> States] /\ upset' \subseteq {"login", "accounts"}
  BY DEF TypeOK, Shape, Changing, Setting, Logout, Goto, Reply, Answer, Actors, history, NoLocals, NoSession, Local, States
<1>2. heap' \in [Dicts -> Entry] /\ attempts' \in [Ips -> Dicts \cup {None}]
  BY DEF TypeOK, Shape, Holding, Logout, Goto, Reply, Answer, Actors, history, NoLocals, NoSession, Entry, Blank, AtMost, Collect, Local
<1>3. cookie' \in [Ips -> Session]
  BY SessionTypes, ReplyTypes DEF Logout
<1>4. pc' \in [Actors -> Phases]
  BY SessionTypes, ReplyTypes DEF Logout
<1>5. local' \in [Actors -> Local]
  BY SessionTypes, ReplyTypes DEF Logout
<1>6. /\ tries' \in [Ips -> Nat] /\ fails' \in [Ips -> 0 .. MaxAttempts]
      /\ told' \in [Users -> [state : States, age : 0 .. 1]]
  BY DEF TypeOK, Logout, Goto, Reply, Answer, Actors, history, NoLocals, NoSession, AtMost, Local
<1>. QED
  BY <1>1, <1>2, <1>3, <1>4, <1>5, <1>6 DEF TypeOK

LEMMA PageTypes ==
  ASSUME TypeOK, Shape, NEW t \in Threads, Page(t)
  PROVE  TypeOK'
<1>. USE Numbers
<1>1. setting' \in Setting /\ accounts' \in [Users -> States] /\ upset' \subseteq {"login", "accounts"}
  BY DEF TypeOK, Shape, Changing, Setting, Page, Goto, Reply, Answer, Actors, history, NoLocals, NoSession, Local, States
<1>2. heap' \in [Dicts -> Entry] /\ attempts' \in [Ips -> Dicts \cup {None}]
  BY DEF TypeOK, Shape, Holding, Page, Goto, Reply, Answer, Actors, history, NoLocals, NoSession, Entry, Blank, AtMost, Collect, Local
<1>3. cookie' \in [Ips -> Session]
  BY LocalFields, ReplyTypes DEF Page, Actors
<1>4. pc' \in [Actors -> Phases]
  BY LocalFields, ReplyTypes DEF Page, Actors
<1>5. local' \in [Actors -> Local]
  BY LocalFields, ReplyTypes DEF Page, Actors
<1>6. /\ tries' \in [Ips -> Nat] /\ fails' \in [Ips -> 0 .. MaxAttempts]
      /\ told' \in [Users -> [state : States, age : 0 .. 1]]
  BY DEF TypeOK, Page, Goto, Reply, Answer, Actors, history, NoLocals, NoSession, AtMost, Local
<1>. QED
  BY <1>1, <1>2, <1>3, <1>4, <1>5, <1>6 DEF TypeOK

LEMMA UseKeysTypes ==
  ASSUME TypeOK, Shape, NEW t \in Threads, UseKeys(t)
  PROVE  TypeOK'
<1>. USE Numbers
<1>1. setting' \in Setting /\ accounts' \in [Users -> States] /\ upset' \subseteq {"login", "accounts"}
  BY DEF TypeOK, Shape, Changing, Setting, UseKeys, Goto, Reply, Answer, Actors, history, NoLocals, NoSession, Local, States
<1>2. heap' \in [Dicts -> Entry] /\ attempts' \in [Ips -> Dicts \cup {None}]
  BY DEF TypeOK, Shape, Holding, UseKeys, Goto, Reply, Answer, Actors, history, NoLocals, NoSession, Entry, Blank, AtMost, Collect, Local
<1>3. cookie' \in [Ips -> Session]
  BY LocalFields, ReplyTypes DEF UseKeys, Actors
<1>4. pc' \in [Actors -> Phases]
  BY LocalFields, ReplyTypes DEF UseKeys, Actors
<1>5. local' \in [Actors -> Local]
  BY LocalFields, ReplyTypes DEF UseKeys, Actors
<1>6. /\ tries' \in [Ips -> Nat] /\ fails' \in [Ips -> 0 .. MaxAttempts]
      /\ told' \in [Users -> [state : States, age : 0 .. 1]]
  BY DEF TypeOK, UseKeys, Goto, Reply, Answer, Actors, history, NoLocals, NoSession, AtMost, Local
<1>. QED
  BY <1>1, <1>2, <1>3, <1>4, <1>5, <1>6 DEF TypeOK

LEMMA CheckAccountTypes ==
  ASSUME TypeOK, Shape, NEW t \in Threads, CheckAccount(t)
  PROVE  TypeOK'
<1>. USE Numbers
<1>1. setting' \in Setting /\ accounts' \in [Users -> States] /\ upset' \subseteq {"login", "accounts"}
  BY DEF TypeOK, Shape, Changing, Setting, CheckAccount, Goto, Reply, Answer, Actors, history, NoLocals, NoSession, Local, States
<1>2. heap' \in [Dicts -> Entry] /\ attempts' \in [Ips -> Dicts \cup {None}]
  BY DEF TypeOK, Shape, Holding, CheckAccount, Goto, Reply, Answer, Actors, history, NoLocals, NoSession, Entry, Blank, AtMost, Collect, Local
<1>3. cookie' \in [Ips -> Session]
  BY DEF TypeOK, CheckAccount, Goto, Reply, Answer, Actors, history, NoLocals, NoSession, Session, Local, AtMost
<1>4. pc' \in [Actors -> Phases]
  BY DEF TypeOK, CheckAccount, Goto, Reply, Answer, Actors, history, NoLocals, NoSession, Phases
<1>5. local' \in [Actors -> Local]
  BY LocalFields, ReplyTypes DEF CheckAccount, Actors, TypeOK
<1>6. /\ tries' \in [Ips -> Nat] /\ fails' \in [Ips -> 0 .. MaxAttempts]
      /\ told' \in [Users -> [state : States, age : 0 .. 1]]
  BY DEF TypeOK, CheckAccount, Goto, Reply, Answer, Actors, history, NoLocals, NoSession, AtMost, Local
<1>. QED
  BY <1>1, <1>2, <1>3, <1>4, <1>5, <1>6 DEF TypeOK

LEMMA MakeKeyTypes ==
  ASSUME TypeOK, Shape, NEW t \in Threads, MakeAccountKey(t)
  PROVE  TypeOK'
<1>. USE Numbers
<1>1. setting' \in Setting /\ accounts' \in [Users -> States] /\ upset' \subseteq {"login", "accounts"}
  BY DEF TypeOK, Shape, Changing, Setting, MakeAccountKey, Goto, Reply, Answer, Actors, history, NoLocals, NoSession, Local, States
<1>2. heap' \in [Dicts -> Entry] /\ attempts' \in [Ips -> Dicts \cup {None}]
  BY DEF TypeOK, Shape, Holding, MakeAccountKey, Goto, Reply, Answer, Actors, history, NoLocals, NoSession, Entry, Blank, AtMost, Collect, Local
<1>3. cookie' \in [Ips -> Session]
  BY LocalFields, ReplyTypes DEF MakeAccountKey, Actors
<1>4. pc' \in [Actors -> Phases]
  BY LocalFields, ReplyTypes DEF MakeAccountKey, Actors
<1>5. local' \in [Actors -> Local]
  BY LocalFields, ReplyTypes DEF MakeAccountKey, Actors
<1>6. /\ tries' \in [Ips -> Nat] /\ fails' \in [Ips -> 0 .. MaxAttempts]
      /\ told' \in [Users -> [state : States, age : 0 .. 1]]
  BY DEF TypeOK, MakeAccountKey, Goto, Reply, Answer, Actors, history, NoLocals, NoSession, AtMost, Local
<1>. QED
  BY <1>1, <1>2, <1>3, <1>4, <1>5, <1>6 DEF TypeOK

LEMMA ToggleTypes ==
  ASSUME TypeOK, Shape, NEW t \in Threads, Toggle(t)
  PROVE  TypeOK'
<1>. USE Numbers
<1>1. setting' \in Setting /\ accounts' \in [Users -> States] /\ upset' \subseteq {"login", "accounts"}
  BY DEF TypeOK, Shape, Changing, Setting, Toggle, Goto, Reply, Answer, Actors, history, NoLocals, NoSession, Local, States
<1>2. heap' \in [Dicts -> Entry] /\ attempts' \in [Ips -> Dicts \cup {None}]
  BY DEF TypeOK, Shape, Holding, Toggle, Goto, Reply, Answer, Actors, history, NoLocals, NoSession, Entry, Blank, AtMost, Collect, Local
<1>3. cookie' \in [Ips -> Session]
  BY DEF TypeOK, Toggle, Goto, Reply, Answer, Actors, history, NoLocals, NoSession, Session, Local, AtMost
<1>4. pc' \in [Actors -> Phases]
  BY DEF TypeOK, Toggle, Goto, Reply, Answer, Actors, history, NoLocals, NoSession, Phases
<1>5. local' \in [Actors -> Local]
  <2>1. CASE Reply(t, local[t].session)
    BY <2>1, LocalFields, ReplyTypes DEF Actors
  <2>2. CASE ~Reply(t, local[t].session)
    <3>1. PICK g \in States : local' = [local EXCEPT ![t] = [local[t] EXCEPT !.goal = g]]
      BY <2>2 DEF Toggle, States
    <3>2. [local[t] EXCEPT !.goal = g] \in Local
      BY LocalFields DEF Local, Actors
    <3>. QED
      BY <3>1, <3>2 DEF TypeOK
  <2>. QED
    BY <2>1, <2>2
<1>6. /\ tries' \in [Ips -> Nat] /\ fails' \in [Ips -> 0 .. MaxAttempts]
      /\ told' \in [Users -> [state : States, age : 0 .. 1]]
  BY DEF TypeOK, Toggle, Goto, Reply, Answer, Actors, history, NoLocals, NoSession, AtMost, Local
<1>. QED
  BY <1>1, <1>2, <1>3, <1>4, <1>5, <1>6 DEF TypeOK

LEMMA DeleteTypes ==
  ASSUME TypeOK, Shape, NEW t \in Threads, Delete(t)
  PROVE  TypeOK'
<1>. USE Numbers
<1>1. setting' \in Setting /\ accounts' \in [Users -> States] /\ upset' \subseteq {"login", "accounts"}
  BY DEF TypeOK, Shape, Changing, Setting, Delete, Goto, Reply, Answer, Actors, history, NoLocals, NoSession, Local, States
<1>2. heap' \in [Dicts -> Entry] /\ attempts' \in [Ips -> Dicts \cup {None}]
  BY DEF TypeOK, Shape, Holding, Delete, Goto, Reply, Answer, Actors, history, NoLocals, NoSession, Entry, Blank, AtMost, Collect, Local
<1>3. cookie' \in [Ips -> Session]
  BY DEF TypeOK, Delete, Goto, Reply, Answer, Actors, history, NoLocals, NoSession, Session, Local, AtMost
<1>4. pc' \in [Actors -> Phases]
  BY DEF TypeOK, Delete, Goto, Reply, Answer, Actors, history, NoLocals, NoSession, Phases
<1>5. local' \in [Actors -> Local]
  <2>1. local' = [local EXCEPT ![t] = [local[t] EXCEPT !.goal = "none"]]
    BY DEF Delete
  <2>2. [local[t] EXCEPT !.goal = "none"] \in Local
    BY LocalFields DEF Local, Actors, States
  <2>. QED
    BY <2>1, <2>2 DEF TypeOK
<1>6. /\ tries' \in [Ips -> Nat] /\ fails' \in [Ips -> 0 .. MaxAttempts]
      /\ told' \in [Users -> [state : States, age : 0 .. 1]]
  BY DEF TypeOK, Delete, Goto, Reply, Answer, Actors, history, NoLocals, NoSession, AtMost, Local
<1>. QED
  BY <1>1, <1>2, <1>3, <1>4, <1>5, <1>6 DEF TypeOK

LEMMA CommandTypes ==
  ASSUME TypeOK, Shape, Command
  PROVE  TypeOK'
<1>. USE Numbers
<1>1. setting' \in Setting /\ accounts' \in [Users -> States] /\ upset' \subseteq {"login", "accounts"}
  BY DEF TypeOK, Shape, Changing, Setting, Command, Goto, Reply, Answer, Actors, history, NoLocals, NoSession, Local, States
<1>2. heap' \in [Dicts -> Entry] /\ attempts' \in [Ips -> Dicts \cup {None}]
  BY DEF TypeOK, Shape, Holding, Command, Goto, Reply, Answer, Actors, history, NoLocals, NoSession, Entry, Blank, AtMost, Collect, Local
<1>3. cookie' \in [Ips -> Session]
  BY DEF TypeOK, Command, Goto, Reply, Answer, Actors, history, NoLocals, NoSession, Session, Local, AtMost
<1>4. pc' \in [Actors -> Phases]
  BY DEF TypeOK, Command, Goto, Reply, Answer, Actors, history, NoLocals, NoSession, Phases
<1>5. local' \in [Actors -> Local]
  <2>1. PICK u \in Users, g \in States, k \in {"create", "toggle", "delete"} :
           local' = [local EXCEPT !["bot"].user = u, !["bot"].goal = g, !["bot"].kind = k]
    BY DEF Command
  <2>2. local["bot"] \in Local
    BY LocalFields DEF Actors
  <2>3. [local["bot"] EXCEPT !.user = u, !.goal = g, !.kind = k] \in Local
    BY <2>2 DEF Local, Kinds
  <2>4. local' = [local EXCEPT !["bot"] = [local["bot"] EXCEPT !.user = u, !.goal = g, !.kind = k]]
    BY <2>1 DEF TypeOK, Actors
  <2>. QED
    BY <2>3, <2>4 DEF TypeOK
<1>6. /\ tries' \in [Ips -> Nat] /\ fails' \in [Ips -> 0 .. MaxAttempts]
      /\ told' \in [Users -> [state : States, age : 0 .. 1]]
  BY DEF TypeOK, Command, Goto, Reply, Answer, Actors, history, NoLocals, NoSession, AtMost, Local
<1>. QED
  BY <1>1, <1>2, <1>3, <1>4, <1>5, <1>6 DEF TypeOK

LEMMA LoadTypes ==
  ASSUME TypeOK, Shape, NEW a \in Actors, Load(a)
  PROVE  TypeOK'
<1>. USE Numbers
<1>1. setting' \in Setting /\ accounts' \in [Users -> States] /\ upset' \subseteq {"login", "accounts"}
  BY DEF TypeOK, Shape, Changing, Setting, Load, Goto, Reply, Answer, Actors, history, NoLocals, NoSession, Local, States
<1>2. heap' \in [Dicts -> Entry] /\ attempts' \in [Ips -> Dicts \cup {None}]
  BY DEF TypeOK, Shape, Holding, Load, Goto, Reply, Answer, Actors, history, NoLocals, NoSession, Entry, Blank, AtMost, Collect, Local
<1>3. cookie' \in [Ips -> Session]
  BY DEF TypeOK, Load, Goto, Reply, Answer, Actors, history, NoLocals, NoSession, Session, Local, AtMost
<1>4. pc' \in [Actors -> Phases]
  BY DEF TypeOK, Load, Answer, Goto, Phases
<1>5. local' \in [Actors -> Local]
  <2>1. CASE Answer(a)
    BY <2>1, AnswerTypes
  <2>2. CASE ~Answer(a)
    <3>1. PICK f \in [Users -> States] : local' = [local EXCEPT ![a] = [local[a] EXCEPT !.copy = f]]
      <4>1. local' = [local EXCEPT ![a] = [local[a] EXCEPT
                          !.copy = [accounts EXCEPT ![local[a].user] = local[a].goal]]]
        BY <2>2 DEF Load
      <4>2. [accounts EXCEPT ![local[a].user] = local[a].goal] \in [Users -> States]
        BY LocalFields DEF TypeOK
      <4>. QED
        BY <4>1, <4>2
    <3>2. [local[a] EXCEPT !.copy = f] \in Local
      BY LocalFields DEF Local
    <3>. QED
      BY <3>1, <3>2 DEF TypeOK
  <2>. QED
    BY <2>1, <2>2
<1>6. /\ tries' \in [Ips -> Nat] /\ fails' \in [Ips -> 0 .. MaxAttempts]
      /\ told' \in [Users -> [state : States, age : 0 .. 1]]
  BY DEF TypeOK, Load, Goto, Reply, Answer, Actors, history, NoLocals, NoSession, AtMost, Local
<1>. QED
  BY <1>1, <1>2, <1>3, <1>4, <1>5, <1>6 DEF TypeOK

LEMMA SaveTypes ==
  ASSUME TypeOK, Shape, NEW a \in Actors, Save(a)
  PROVE  TypeOK'
<1>. USE Numbers
<1>1. setting' \in Setting /\ accounts' \in [Users -> States] /\ upset' \subseteq {"login", "accounts"}
  BY DEF TypeOK, Shape, Changing, Setting, Save, Goto, Reply, Answer, Actors, history, NoLocals, NoSession, Local, States
<1>2. heap' \in [Dicts -> Entry] /\ attempts' \in [Ips -> Dicts \cup {None}]
  BY DEF TypeOK, Shape, Holding, Save, Goto, Reply, Answer, Actors, history, NoLocals, NoSession, Entry, Blank, AtMost, Collect, Local
<1>3. cookie' \in [Ips -> Session]
  BY DEF TypeOK, Save, Goto, Reply, Answer, Actors, history, NoLocals, NoSession, Session, Local, AtMost
<1>4. pc' \in [Actors -> Phases]
  BY DEF TypeOK, Save, Goto, Reply, Answer, Actors, history, NoLocals, NoSession, Phases
<1>5. local' \in [Actors -> Local]
  BY DEF TypeOK, Save, Goto, Reply, Answer, Actors, history, NoLocals, NoSession, Local, Session, Kinds, States, Renewed
<1>6. /\ tries' \in [Ips -> Nat] /\ fails' \in [Ips -> 0 .. MaxAttempts]
      /\ told' \in [Users -> [state : States, age : 0 .. 1]]
  <2>1. [state |-> local[a].goal, age |-> 0] \in [state : States, age : 0 .. 1]
    BY LocalFields
  <2>. QED
    BY <2>1 DEF TypeOK, Save
<1>. QED
  BY <1>1, <1>2, <1>3, <1>4, <1>5, <1>6 DEF TypeOK

LEMMA EvictLoginsTypes ==
  ASSUME TypeOK, Shape, EvictLogins
  PROVE  TypeOK'
<1>. USE Numbers
<1>1. setting' \in Setting /\ accounts' \in [Users -> States] /\ upset' \subseteq {"login", "accounts"}
  BY DEF TypeOK, Shape, Changing, Setting, EvictLogins, Goto, Reply, Answer, Actors, history, NoLocals, NoSession, Local, States
<1>2. heap' \in [Dicts -> Entry] /\ attempts' \in [Ips -> Dicts \cup {None}]
  BY DEF TypeOK, Shape, Holding, EvictLogins, Goto, Reply, Answer, Actors, history, NoLocals, NoSession, Entry, Blank, AtMost, Collect, Local
<1>3. cookie' \in [Ips -> Session]
  BY DEF TypeOK, EvictLogins, Goto, Reply, Answer, Actors, history, NoLocals, NoSession, Session, Local, AtMost
<1>4. pc' \in [Actors -> Phases]
  BY DEF TypeOK, EvictLogins, Goto, Reply, Answer, Actors, history, NoLocals, NoSession, Phases
<1>5. local' \in [Actors -> Local]
  BY DEF TypeOK, EvictLogins, Goto, Reply, Answer, Actors, history, NoLocals, NoSession, Local, Session, Kinds, States, Renewed
<1>6. /\ tries' \in [Ips -> Nat] /\ fails' \in [Ips -> 0 .. MaxAttempts]
      /\ told' \in [Users -> [state : States, age : 0 .. 1]]
  BY DEF TypeOK, EvictLogins, Goto, Reply, Answer, Actors, history, NoLocals, NoSession, AtMost, Local
<1>. QED
  BY <1>1, <1>2, <1>3, <1>4, <1>5, <1>6 DEF TypeOK

LEMMA TickTypes ==
  ASSUME TypeOK, Shape, Tick
  PROVE  TypeOK'
<1>. USE Numbers
<1>1. setting' \in Setting /\ accounts' \in [Users -> States] /\ upset' \subseteq {"login", "accounts"}
  BY DEF TypeOK, Shape, Changing, Setting, Tick, Goto, Reply, Answer, Actors, history, NoLocals, NoSession, Local, States
<1>2. heap' \in [Dicts -> Entry] /\ attempts' \in [Ips -> Dicts \cup {None}]
  BY DEF TypeOK, Shape, Holding, Tick, Goto, Reply, Answer, Actors, history, NoLocals, NoSession, Entry, Blank, AtMost, Collect, Local
<1>3. cookie' \in [Ips -> Session]
  <2>1. ASSUME NEW ip \in Ips PROVE cookie'[ip] \in Session
    <3>1. cookie[ip] \in Session /\ AtMost(cookie[ip].idle + 1, Timeout + 1) \in 0 .. Timeout + 1
      BY DEF TypeOK, Session, AtMost
    <3>2. [cookie[ip] EXCEPT !.idle = AtMost(cookie[ip].idle + 1, Timeout + 1)] \in Session
      BY <3>1 DEF Session
    <3>. QED
      BY <3>2, SessionTypes DEF Tick
  <2>. QED
    BY <2>1 DEF Tick
<1>4. pc' \in [Actors -> Phases]
  BY DEF TypeOK, Tick, Goto, Reply, Answer, Actors, history, NoLocals, NoSession, Phases
<1>5. local' \in [Actors -> Local]
  BY DEF TypeOK, Tick, Goto, Reply, Answer, Actors, history, NoLocals, NoSession, Local, Session, Kinds, States, Renewed
<1>6. /\ tries' \in [Ips -> Nat] /\ fails' \in [Ips -> 0 .. MaxAttempts]
      /\ told' \in [Users -> [state : States, age : 0 .. 1]]
  <2>1. ASSUME NEW user \in Users PROVE told'[user] \in [state : States, age : 0 .. 1]
    <3>1. told[user] \in [state : States, age : 0 .. 1]
      BY DEF TypeOK
    <3>2. told'[user] = [told[user] EXCEPT !.age = 1]
      BY DEF Tick
    <3>. QED
      BY <3>1, <3>2
  <2>2. told' \in [Users -> [state : States, age : 0 .. 1]]
    BY <2>1 DEF Tick
  <2>. QED
    BY <2>2 DEF TypeOK, Tick
<1>. QED
  BY <1>1, <1>2, <1>3, <1>4, <1>5, <1>6 DEF TypeOK

LEMMA RestartTypes ==
  ASSUME TypeOK, Shape, Restart
  PROVE  TypeOK'
<1>. USE Numbers
<1>1. setting' \in Setting /\ accounts' \in [Users -> States] /\ upset' \subseteq {"login", "accounts"}
  <2>1. setting.restarts - 1 \in Nat
    BY DEF TypeOK, Setting, Restart
  <2>2. setting' \in Setting
    BY <2>1 DEF TypeOK, Setting, Restart
  <2>. QED
    BY <2>2 DEF TypeOK, Restart
<1>2. heap' \in [Dicts -> Entry] /\ attempts' \in [Ips -> Dicts \cup {None}]
  BY DEF TypeOK, Shape, Holding, Restart, Goto, Reply, Answer, Actors, history, NoLocals, NoSession, Entry, Blank, AtMost, Collect, Local
<1>3. cookie' \in [Ips -> Session]
  BY DEF TypeOK, Restart, Goto, Reply, Answer, Actors, history, NoLocals, NoSession, Session, Local, AtMost
<1>4. pc' \in [Actors -> Phases]
  BY DEF TypeOK, Restart, Goto, Reply, Answer, Actors, history, NoLocals, NoSession, Phases
<1>5. local' \in [Actors -> Local]
  BY DEF TypeOK, Restart, Goto, Reply, Answer, Actors, history, NoLocals, NoSession, Local, Session, Kinds, States, Renewed
<1>6. /\ tries' \in [Ips -> Nat] /\ fails' \in [Ips -> 0 .. MaxAttempts]
      /\ told' \in [Users -> [state : States, age : 0 .. 1]]
  BY DEF TypeOK, Restart, Goto, Reply, Answer, Actors, history, NoLocals, NoSession, AtMost, Local
<1>. QED
  BY <1>1, <1>2, <1>3, <1>4, <1>5, <1>6 DEF TypeOK

-----------------------------------------------------------------------------
(* Every step keeps the shape, and what nothing overlapping has upset *)

LEMMA ActorSets == ASSUME TypeOK PROVE IsFiniteSet(Threads) /\ Threads \subseteq Actors /\ "bot" \in Actors \ Threads
BY PanelAssumption DEF Actors

LEMMA ReplyFrame ==
  ASSUME TypeOK, NEW t \in Threads, NEW session, Reply(t, session)
  PROVE  /\ local'[t] = NoLocals
         /\ pc'[t] = "idle"
         /\ \A a \in Actors \ {t} : local'[a] = local[a] /\ pc'[a] = pc[a]
BY DEF TypeOK, Reply, Goto, Actors

LEMMA AnswerFrame ==
  ASSUME TypeOK, NEW a \in Actors, Answer(a)
  PROVE  /\ local'[a] = NoLocals
         /\ pc'[a] = "idle"
         /\ \A b \in Actors \ {a} : local'[b] = local[b] /\ pc'[b] = pc[b]
BY DEF TypeOK, Answer, Goto, Actors

\* Where an actor that is done leaves the others.
LEMMA DoneShape ==
  ASSUME TypeOK, Shape, NEW a \in Actors,
         local'[a] = NoLocals, pc'[a] = "idle",
         \A b \in Actors \ {a} : local'[b] = local[b] /\ pc'[b] = pc[b]
  PROVE  /\ Holding' /\ Changing'
         /\ \A d \in Dicts, ip \in Ips, t \in Threads :
               local'[t].entry = d => t # a /\ local'[t] = local[t]
<1>1. Holding'
  BY NoLocalsTyped, ActorSets DEF Shape, Holding
<1>2. Changing'
  BY DEF Shape, Changing
<1>. QED
  BY <1>1, <1>2, NoLocalsTyped, ActorSets, Numbers

\* A dictionary never gets a second owner by being let go.
LEMMA StillApart ==
  ASSUME Apart, \A d \in Dicts, ip \in Ips : Owned(d, ip)' => Owned(d, ip)
  PROVE  Apart'
BY DEF Apart

LEMMA StillEarned ==
  ASSUME Earned, "login" \in upset => "login" \in upset', UNCHANGED fails,
         TypeOK, \A d \in Dicts, ip \in Ips : Owned(d, ip)' => Owned(d, ip),
         \A d \in Dicts : heap'[d] \in {heap[d], Blank}
  PROVE  Earned'
<1>. SUFFICES ASSUME "login" \notin upset', NEW d \in Dicts, NEW ip \in Ips, Owned(d, ip)'
              PROVE  /\ heap'[d].count <= fails'[ip]
                     /\ heap'[d].left > 0 => fails'[ip] >= MaxAttempts
  BY DEF Earned
<1>1. CASE heap'[d] = heap[d]
  BY <1>1 DEF Earned
<1>2. CASE heap'[d] = Blank
  BY <1>2 DEF Blank, TypeOK
<1>. QED
  BY <1>1, <1>2

LEMMA StillAgreed ==
  ASSUME Agreed, UNCHANGED <<accounts, told>>, TypeOK,
         "accounts" \in upset => "accounts" \in upset',
         \A a \in Actors : pc'[a] \in {"save", "make"} => pc'[a] = pc[a] /\ local'[a] = local[a]
  PROVE  Agreed'
<1>. SUFFICES ASSUME "accounts" \notin upset' PROVE ToldTrue' /\ CopyTrue' /\ MakerActive'
  BY DEF Agreed
<1>1. ToldTrue'
  BY DEF Agreed, ToldTrue
<1>2. CopyTrue'
  BY DEF Agreed, CopyTrue
<1>3. MakerActive'
  BY ActorSets DEF Agreed, MakerActive
<1>. QED
  BY <1>1, <1>2, <1>3

\* A request that ends and counts nothing.
LEMMA RequestEnds ==
  ASSUME IInv, NEW t \in Threads, NEW session, Reply(t, session),
         UNCHANGED <<attempts, accounts, fails, told, upset>>,
         \A d \in Dicts : heap'[d] \in {heap[d], Blank}
  PROVE  Shape' /\ Earned' /\ Agreed'
<1>. USE DEF IInv
<1>1. Holding' /\ Changing'
  BY DoneShape, ReplyFrame, ActorSets
<1>2. \A d \in Dicts, ip \in Ips : Owned(d, ip)' => Owned(d, ip)
  BY DoneShape, ReplyFrame, ActorSets DEF Owned
<1>3. Apart'
  BY <1>2, StillApart DEF Shape
<1>4. Earned'
  BY <1>2, StillEarned
<1>5. \A a \in Actors : pc'[a] \in {"save", "make"} => pc'[a] = pc[a] /\ local'[a] = local[a]
  BY ReplyFrame
<1>6. Agreed'
  BY <1>5, StillAgreed
<1>. QED
  BY <1>1, <1>3, <1>4, <1>6 DEF Shape

\* What a thread or the bot works on changes; those that hold an entry or save do not.
LEMMA CarriesOn ==
  ASSUME IInv, NEW a \in Actors, pc[a] # "check", pc[a] # "save",
         pc'[a] \notin {"check", "make", "save"},
         a \in Threads => local'[a].entry = None /\ (pc'[a] # "idle" => local'[a].ip \in Ips),
         pc'[a] \in {"serve", "load"} => local'[a].user \in Users,
         \A b \in Actors \ {a} : local'[b] = local[b] /\ pc'[b] = pc[b],
         UNCHANGED <<heap, attempts, accounts, history>>
  PROVE  Shape' /\ Earned' /\ Agreed'
<1>. USE ActorSets DEF IInv, history
<1>1. Holding'
  BY DEF Shape, Holding
<1>2. Changing'
  BY DEF Shape, Changing
<1>3. \A d \in Dicts, ip \in Ips : Owned(d, ip)' => Owned(d, ip)
  BY Numbers DEF Owned
<1>4. Apart'
  BY <1>3, StillApart DEF Shape
<1>5. Earned'
  BY <1>3, StillEarned
<1>6. Agreed'
  BY StillAgreed
<1>. QED
  BY <1>1, <1>2, <1>4, <1>5, <1>6 DEF Shape

LEMMA ArriveInv ==
  ASSUME IInv, NEW t \in Threads, Arrive(t)
  PROVE  Shape' /\ Earned' /\ Agreed'
<1>1. CASE UNCHANGED <<pc, local>>
  <2>1. UNCHANGED <<heap, attempts, accounts, history, pc, local>>
    BY <1>1 DEF Arrive
  <2>. QED
    BY <2>1 DEF IInv, history, Shape, Holding, Changing, Apart, Owned, Earned, Agreed, ToldTrue,
                CopyTrue, MakerActive
<1>2. CASE ~(UNCHANGED <<pc, local>>)
  <2>1. PICK ip \in Ips, kind \in Kinds, user \in Users :
           /\ local' = [local EXCEPT ![t] = [NoLocals EXCEPT !.ip = ip, !.kind = kind,
                                                !.user = user, !.session = Renewed(cookie[ip])]]
           /\ pc' = [pc EXCEPT ![t] = "serve"]
    BY <1>2 DEF Arrive, Goto, IInv, TypeOK, Setting
  <2>2. local'[t].entry = None /\ local'[t].ip \in Ips /\ local'[t].user \in Users
    BY <2>1, ActorSets DEF IInv, TypeOK, NoLocals
  <2>3. pc'[t] = "serve" /\ \A b \in Actors \ {t} : local'[b] = local[b] /\ pc'[b] = pc[b]
    BY <2>1, ActorSets DEF IInv, TypeOK
  <2>. QED
    BY <2>2, <2>3, CarriesOn, ActorSets DEF Arrive, IInv
<1>. QED
  BY <1>1, <1>2

LEMMA LoginStartInv ==
  ASSUME IInv, NEW t \in Threads, LoginStart(t)
  PROVE  Shape' /\ Earned' /\ Agreed'
<1>. DEFINE ip == local[t].ip
            d == IF attempts[ip] = None THEN NewDict ELSE attempts[ip]
            entry == IF attempts[ip] = None THEN Blank ELSE heap[d]
<1>. USE ActorSets DEF IInv
<1>1. CASE entry.left > 0
  <2>1. Reply(t, local[t].session)
    BY <1>1 DEF LoginStart
  <2>. QED
    BY <1>1, <2>1, RequestEnds DEF LoginStart, history
<1>2. CASE ~(entry.left > 0)
  <2>1. /\ heap' = [heap EXCEPT ![d] = entry]
        /\ local' = [local EXCEPT ![t].entry = d]
        /\ pc' = [pc EXCEPT ![t] = "check"]
        /\ UNCHANGED <<attempts, accounts, history>>
    BY <1>2 DEF LoginStart, Goto
  <2>2. ip \in Ips /\ pc[t] = "serve"
    BY DEF LoginStart, Shape, Holding
  <2>3. d \in Dicts /\ d # None
    BY <2>2, NewDictFree, Numbers DEF TypeOK
  <2>4. /\ local'[t] = [local[t] EXCEPT !.entry = d]
        /\ pc'[t] = "check"
        /\ \A b \in Actors \ {t} : local'[b] = local[b] /\ pc'[b] = pc[b]
    BY <2>1 DEF TypeOK
  <2>5. local'[t].entry = d /\ local'[t].ip = ip
    BY <2>4, LocalFields DEF Local
  <2>6. Holding'
    BY <2>2, <2>3, <2>4, <2>5 DEF Shape, Holding
  <2>7. Changing'
    BY <2>4 DEF Shape, Changing
  <2>8. \A e \in Dicts, jp \in Ips : Owned(e, jp)' => Owned(e, jp) \/ (e = d /\ jp = ip)
    BY <2>1, <2>4, <2>5 DEF Owned
  <2>9. Agreed'
    BY <2>1, <2>2, <2>4, StillAgreed DEF history
  <2>10. CASE attempts[ip] # None
    <3>1. Owned(d, ip)
      BY <2>10 DEF Owned
    <3>2. \A e \in Dicts, jp \in Ips : Owned(e, jp)' => Owned(e, jp)
      BY <2>8, <3>1
    <3>3. heap' = heap
      BY <2>1, <2>10, <2>3 DEF TypeOK
    <3>4. Apart' /\ Earned'
      BY <2>1, <3>2, <3>3, StillApart, StillEarned DEF Shape, history
    <3>. QED
      BY <2>6, <2>7, <2>9, <3>4 DEF Shape
  <2>11. CASE attempts[ip] = None
    <3>1. d = NewDict
      BY <2>11
    <3>2. \A jp \in Ips : ~Owned(d, jp)
      BY <3>1, NewDictFree DEF Owned
    <3>3. Apart'
      BY <2>8, <3>2 DEF Shape, Apart
    <3>4. \A e \in Dicts : heap'[e] = IF e = d THEN Blank ELSE heap[e]
      BY <2>1, <2>11 DEF TypeOK
    <3>5. Earned'
      <4>1. SUFFICES ASSUME "login" \notin upset', NEW e \in Dicts, NEW jp \in Ips, Owned(e, jp)'
                     PROVE  /\ heap'[e].count <= fails'[jp]
                            /\ heap'[e].left > 0 => fails'[jp] >= MaxAttempts
        BY DEF Earned
      <4>2. CASE e = d
        BY <2>1, <3>4, <4>2 DEF Blank, TypeOK, history
      <4>3. CASE e # d
        BY <2>1, <2>8, <3>4, <4>1, <4>3 DEF Earned, history
      <4>. QED
        BY <4>2, <4>3
    <3>. QED
      BY <2>6, <2>7, <2>9, <3>3, <3>5 DEF Shape
  <2>. QED
    BY <2>10, <2>11
<1>. QED
  BY <1>1, <1>2

LEMMA LoginSucceedsInv ==
  ASSUME IInv, NEW t \in Threads, NEW u \in Users \cup {"admin"}, LoginSucceeds(t, u)
  PROVE  Shape' /\ Earned' /\ Agreed'
<1>. DEFINE ip == local[t].ip
<1>. USE ActorSets DEF IInv
<1>1. /\ Reply(t, [user |-> u, idle |-> 0])
      /\ pc[t] = "check"
      /\ attempts' = [attempts EXCEPT ![ip] = None]
      /\ Collect(t, None, heap)
      /\ fails' = [fails EXCEPT ![ip] = 0]
      /\ upset' = IF Checking(ip) = {t} THEN upset ELSE upset \cup {"login"}
      /\ UNCHANGED <<accounts, told>>
  BY DEF LoginSucceeds
<1>2. ip \in Ips
  BY <1>1 DEF Shape, Holding
<1>3. Holding' /\ Changing'
  BY <1>1, DoneShape, ReplyFrame
<1>4. \A d \in Dicts, jp \in Ips : Owned(d, jp)' => Owned(d, jp)
  <2>1. \A d \in Dicts, jp \in Ips : attempts'[jp] = d => attempts[jp] = d
    BY <1>1, Numbers DEF TypeOK
  <2>. QED
    BY <1>1, <2>1, DoneShape, ReplyFrame DEF Owned
<1>5. Apart'
  BY <1>4, StillApart DEF Shape
<1>6. Earned'
  <2>1. SUFFICES ASSUME "login" \notin upset', NEW d \in Dicts, NEW jp \in Ips, Owned(d, jp)'
                 PROVE  /\ heap'[d].count <= fails'[jp]
                        /\ heap'[d].left > 0 => fails'[jp] >= MaxAttempts
    BY DEF Earned
  <2>2. Checking(ip) = {t} /\ "login" \notin upset
    BY <1>1, <2>1
  <2>3. jp # ip
    <3>1. SUFFICES ASSUME jp = ip PROVE FALSE
      OBVIOUS
    <3>2. attempts'[ip] = None
      BY <1>1, <1>2 DEF TypeOK
    <3>3. PICK s \in Threads : local'[s].entry = d /\ local'[s].ip = ip
      BY <2>1, <3>1, <3>2, Numbers DEF Owned
    <3>4. s # t /\ local[s].entry = d /\ local[s].ip = ip
      BY <1>1, <1>2, <3>3, DoneShape, ReplyFrame
    <3>5. s \in Checking(ip)
      BY <3>4, Numbers DEF Checking, Shape, Holding
    <3>. QED
      BY <2>2, <3>4, <3>5
  <2>4. fails'[jp] = fails[jp] /\ Owned(d, jp)
    BY <1>1, <1>4, <2>1, <2>3 DEF TypeOK
  <2>5. heap'[d] \in {heap[d], Blank}
    BY <1>1 DEF Collect
  <2>. QED
    BY <2>2, <2>4, <2>5 DEF Earned, Blank, TypeOK
<1>7. \A a \in Actors : pc'[a] \in {"save", "make"} => pc'[a] = pc[a] /\ local'[a] = local[a]
  BY <1>1, ReplyFrame
<1>8. Agreed'
  BY <1>1, <1>7, StillAgreed
<1>. QED
  BY <1>3, <1>5, <1>6, <1>8 DEF Shape

LEMMA LoginFailsInv ==
  ASSUME IInv, NEW t \in Threads, LoginFails(t)
  PROVE  Shape' /\ Earned' /\ Agreed'
<1>. DEFINE ip == local[t].ip
            d == local[t].entry
            blocks == heap[d].count + 1 >= MaxAttempts
            counted == [heap EXCEPT ![d].count = AtMost(@ + 1, MaxAttempts),
                                    ![d].left = IF blocks THEN Block ELSE @]
<1>. USE ActorSets DEF IInv
<1>1. /\ Reply(t, local[t].session)
      /\ pc[t] = "check"
      /\ Collect(t, d, counted)
      /\ attempts' = [attempts EXCEPT ![ip] = d]
      /\ fails' = [fails EXCEPT ![ip] = AtMost(fails[ip] + 1, MaxAttempts)]
      /\ UNCHANGED <<accounts, told, upset>>
  BY DEF LoginFails
<1>2. ip \in Ips /\ d \in Dicts
  BY <1>1, LocalFields DEF Shape, Holding, Local
<1>3. Owned(d, ip)
  BY DEF Owned
<1>4. Holding' /\ Changing'
  BY <1>1, DoneShape, ReplyFrame
<1>5. \A e \in Dicts, jp \in Ips : Owned(e, jp)' => Owned(e, jp)
  <2>1. \A e \in Dicts, jp \in Ips : attempts'[jp] = e => attempts[jp] = e \/ (e = d /\ jp = ip)
    BY <1>1 DEF TypeOK
  <2>. QED
    BY <1>1, <1>3, <2>1, DoneShape, ReplyFrame DEF Owned
<1>6. Apart'
  BY <1>5, StillApart DEF Shape
<1>7. Earned'
  <2>1. SUFFICES ASSUME "login" \notin upset', NEW e \in Dicts, NEW jp \in Ips, Owned(e, jp)'
                 PROVE  /\ heap'[e].count <= fails'[jp]
                        /\ heap'[e].left > 0 => fails'[jp] >= MaxAttempts
    BY DEF Earned
  <2>2. /\ Owned(e, jp)
        /\ heap[e].count <= fails[jp]
        /\ heap[e].left > 0 => fails[jp] >= MaxAttempts
    BY <1>1, <1>5, <2>1 DEF Earned
  <2>3. CASE e # d
    <3>1. heap'[e] \in {heap[e], Blank}
      BY <1>1, <2>3 DEF Collect, TypeOK
    <3>2. fails[jp] \in 0 .. MaxAttempts /\ fails'[jp] >= fails[jp]
      BY <1>1, <1>2, Numbers DEF TypeOK, AtMost
    <3>3. fails'[jp] \in 0 .. MaxAttempts
      BY <1>1, <1>2, Numbers DEF TypeOK, AtMost
    <3>. QED
      BY <2>2, <3>1, <3>2, <3>3, Numbers DEF Blank, TypeOK, Entry
  <2>4. CASE e = d
    <3>1. jp = ip
      BY <1>2, <1>3, <2>2, <2>4 DEF Shape, Apart
    <3>2. /\ heap'[d].count = AtMost(heap[d].count + 1, MaxAttempts)
          /\ heap'[d].left = IF blocks THEN Block ELSE heap[d].left
      <4>1. heap'[d] = counted[d]
        BY <1>1, <1>2 DEF Collect
      <4>2. heap[d] \in Entry
        BY <1>2 DEF TypeOK
      <4>. QED
        BY <1>2, <4>1, <4>2 DEF TypeOK, Entry
    <3>3. fails'[ip] = AtMost(fails[ip] + 1, MaxAttempts)
      BY <1>1, <1>2 DEF TypeOK
    <3>4. heap[d].count \in Nat /\ fails[ip] \in 0 .. MaxAttempts
      BY <1>2 DEF TypeOK, Entry
    <3>. QED
      BY <2>2, <2>4, <3>1, <3>2, <3>3, <3>4, Numbers DEF AtMost
  <2>. QED
    BY <2>3, <2>4
<1>8. \A a \in Actors : pc'[a] \in {"save", "make"} => pc'[a] = pc[a] /\ local'[a] = local[a]
  BY <1>1, ReplyFrame
<1>9. Agreed'
  BY <1>1, <1>8, StillAgreed
<1>. QED
  BY <1>4, <1>6, <1>7, <1>9 DEF Shape

LEMMA RepliesInv ==
  ASSUME IInv, NEW t \in Threads, LoginInactive(t) \/ Logout(t) \/ Page(t) \/ UseKeys(t) \/ MakeAccountKey(t)
  PROVE  Shape' /\ Earned' /\ Agreed'
<1>1. PICK session : Reply(t, session)
  BY DEF LoginInactive, Logout, Page, UseKeys, MakeAccountKey
<1>2. UNCHANGED <<attempts, accounts, fails, told, upset>>
  BY DEF LoginInactive, Logout, Page, UseKeys, MakeAccountKey, history
<1>3. \A d \in Dicts : heap'[d] \in {heap[d], Blank}
  BY DEF LoginInactive, Logout, Page, UseKeys, MakeAccountKey, Collect
<1>. QED
  BY <1>1, <1>2, <1>3, RequestEnds

LEMMA CheckAccountInv ==
  ASSUME IInv, NEW t \in Threads, CheckAccount(t)
  PROVE  Shape' /\ Earned' /\ Agreed'
<1>. DEFINE user == local[t].session.user
<1>. USE ActorSets DEF IInv
<1>1. CASE accounts[user] # "active"
  <2>1. Reply(t, local[t].session)
    BY <1>1 DEF CheckAccount
  <2>. QED
    BY <2>1, RequestEnds DEF CheckAccount, history
<1>2. CASE accounts[user] = "active"
  <2>1. /\ pc[t] = "serve" /\ user \in Users
        /\ pc'[t] = "make"
        /\ \A b \in Actors \ {t} : pc'[b] = pc[b]
        /\ UNCHANGED <<local, heap, attempts, accounts, history>>
    BY <1>2 DEF CheckAccount, Goto, TypeOK
  <2>2. Holding' /\ Changing'
    BY <2>1 DEF Shape, Holding, Changing
  <2>3. \A d \in Dicts, ip \in Ips : Owned(d, ip)' => Owned(d, ip)
    BY <2>1 DEF Owned
  <2>4. Apart' /\ Earned'
    BY <2>1, <2>3, StillApart, StillEarned DEF Shape, history
  <2>5. Agreed'
    <3>1. SUFFICES ASSUME "accounts" \notin upset PROVE ToldTrue' /\ CopyTrue' /\ MakerActive'
      BY <2>1 DEF Agreed, history
    <3>2. ToldTrue' /\ CopyTrue'
      BY <2>1, <3>1 DEF Agreed, ToldTrue, CopyTrue, history
    <3>3. MakerActive'
      BY <1>2, <2>1, <3>1 DEF Agreed, MakerActive, history
    <3>. QED
      BY <3>2, <3>3
  <2>. QED
    BY <2>2, <2>4, <2>5 DEF Shape
<1>. QED
  BY <1>1, <1>2

LEMMA ToLoad ==
  ASSUME IInv, NEW a \in Actors, NEW mine,
         pc[a] = "serve" \/ (a = "bot" /\ pc[a] = "idle"), mine.user \in Users,
         a \in Threads => mine.ip \in Ips /\ mine.entry = None,
         pc' = [pc EXCEPT ![a] = "load"], local' = [local EXCEPT ![a] = mine],
         UNCHANGED <<heap, attempts, accounts, history>>
  PROVE  Shape' /\ Earned' /\ Agreed'
<1>1. /\ pc'[a] = "load" /\ local'[a] = mine
      /\ \A b \in Actors \ {a} : local'[b] = local[b] /\ pc'[b] = pc[b]
  BY DEF IInv, TypeOK
<1>. QED
  BY <1>1, CarriesOn

LEMMA ToggleInv ==
  ASSUME IInv, NEW t \in Threads, Toggle(t)
  PROVE  Shape' /\ Earned' /\ Agreed'
<1>. USE ActorSets DEF IInv
<1>1. CASE accounts[local[t].user] = "none"
  <2>1. Reply(t, local[t].session)
    BY <1>1 DEF Toggle
  <2>. QED
    BY <2>1, RequestEnds DEF Toggle, history
<1>2. CASE accounts[local[t].user] # "none"
  <2>1. PICK g \in States : local' = [local EXCEPT ![t] = [local[t] EXCEPT !.goal = g]]
    BY <1>2 DEF Toggle, States
  <2>2. pc[t] = "serve" /\ pc' = [pc EXCEPT ![t] = "load"]
    BY <1>2 DEF Toggle, Goto
  <2>3. /\ local[t].user \in Users /\ local[t].ip \in Ips /\ local[t].entry = None
        /\ local[t] \in Local
    BY <2>2, LocalFields DEF Shape, Holding, Changing
  <2>4. LET mine == [local[t] EXCEPT !.goal = g] IN
        mine.user \in Users /\ mine.ip \in Ips /\ mine.entry = None
    BY <2>3 DEF Local
  <2>. QED
    BY <2>1, <2>2, <2>4, ToLoad DEF Toggle
<1>. QED
  BY <1>1, <1>2

LEMMA DeleteInv ==
  ASSUME IInv, NEW t \in Threads, Delete(t)
  PROVE  Shape' /\ Earned' /\ Agreed'
<1>. DEFINE mine == [local[t] EXCEPT !.goal = "none"]
<1>. USE ActorSets DEF IInv
<1>1. /\ local' = [local EXCEPT ![t] = mine]
      /\ pc[t] = "serve" /\ pc' = [pc EXCEPT ![t] = "load"]
      /\ UNCHANGED <<heap, attempts, accounts, history>>
  BY DEF Delete, Goto
<1>2. /\ local[t].user \in Users /\ local[t].ip \in Ips /\ local[t].entry = None
      /\ local[t] \in Local
  BY <1>1, LocalFields DEF Shape, Holding, Changing
<1>3. mine.user \in Users /\ mine.ip \in Ips /\ mine.entry = None
  BY <1>2 DEF Local
<1>. QED
  BY <1>1, <1>3, ToLoad

LEMMA CommandInv ==
  ASSUME IInv, Command
  PROVE  Shape' /\ Earned' /\ Agreed'
<1>. USE ActorSets DEF IInv
<1>1. PICK u \in Users, g \in States, k \in {"create", "toggle", "delete"} :
         local' = [local EXCEPT !["bot"].user = u, !["bot"].goal = g, !["bot"].kind = k]
  BY DEF Command
<1>. DEFINE mine == [local["bot"] EXCEPT !.user = u, !.goal = g, !.kind = k]
<1>2. local' = [local EXCEPT !["bot"] = mine]
  BY <1>1 DEF TypeOK
<1>3. /\ pc["bot"] = "idle" /\ pc' = [pc EXCEPT !["bot"] = "load"]
      /\ UNCHANGED <<heap, attempts, accounts, history>>
  BY DEF Command, Goto
<1>4. mine.user \in Users
  <2>1. local["bot"] \in Local
    BY LocalFields
  <2>. QED
    BY <2>1 DEF Local
<1>. QED
  BY <1>2, <1>3, <1>4, ToLoad

LEMMA LoadInv ==
  ASSUME IInv, NEW a \in Actors, Load(a)
  PROVE  Shape' /\ Earned' /\ Agreed'
<1>. USE ActorSets DEF IInv
<1>1. CASE Answer(a) /\ UNCHANGED upset
  <2>1. UNCHANGED <<heap, attempts, accounts, history>> /\ pc[a] = "load"
    BY <1>1 DEF Load, history
  <2>2. local'[a].entry = None
    BY <1>1, AnswerFrame, NoLocalsTyped
  <2>. QED
    BY <1>1, <2>1, <2>2, AnswerFrame, CarriesOn
<1>2. CASE ~(Answer(a) /\ UNCHANGED upset)
  <2>. DEFINE f == [accounts EXCEPT ![local[a].user] = local[a].goal]
  <2>1. /\ pc[a] = "load" /\ pc' = [pc EXCEPT ![a] = "save"]
        /\ local' = [local EXCEPT ![a] = [local[a] EXCEPT !.copy = f]]
        /\ upset' = IF \E b \in Actors : pc[b] = "save" THEN upset \cup {"accounts"} ELSE upset
        /\ UNCHANGED <<heap, attempts, accounts, fails, told>>
    BY <1>2 DEF Load, Goto
  <2>2. f \in [Users -> States] /\ f # None
    BY LocalFields, Numbers DEF TypeOK
  <2>3. /\ local'[a].copy = f
        /\ local'[a].entry = local[a].entry /\ local'[a].ip = local[a].ip
        /\ local'[a].user = local[a].user /\ local'[a].goal = local[a].goal
        /\ local'[a].session = local[a].session
    BY <2>1, LocalFields DEF TypeOK, Local
  <2>4. /\ pc'[a] = "save"
        /\ \A b \in Actors \ {a} : local'[b] = local[b] /\ pc'[b] = pc[b]
    BY <2>1 DEF TypeOK
  <2>5. Holding'
    BY <2>1, <2>3, <2>4 DEF Shape, Holding
  <2>6. Changing'
    BY <2>1, <2>2, <2>3, <2>4 DEF Shape, Changing
  <2>7. \A d \in Dicts, ip \in Ips : Owned(d, ip)' => Owned(d, ip)
    BY <2>1, <2>3, <2>4 DEF Owned
  <2>8. Apart' /\ Earned'
    BY <2>1, <2>7, StillApart, StillEarned DEF Shape
  <2>9. Agreed'
    <3>1. SUFFICES ASSUME "accounts" \notin upset' PROVE ToldTrue' /\ CopyTrue' /\ MakerActive'
      BY DEF Agreed
    <3>2. "accounts" \notin upset /\ \A b \in Actors : pc[b] # "save"
      BY <2>1, <3>1
    <3>3. ToldTrue' /\ MakerActive'
      BY <2>1, <2>4, <3>2 DEF Agreed, ToldTrue, MakerActive
    <3>4. CopyTrue'
      <4>1. SUFFICES ASSUME NEW b \in Actors, pc'[b] = "save"
                     PROVE  /\ local'[b].copy = [accounts' EXCEPT ![local'[b].user] = local'[b].goal]
                            /\ \A c \in Actors : pc'[c] = "save" => c = b
        BY DEF CopyTrue
      <4>2. b = a /\ \A c \in Actors : pc'[c] = "save" => c = a
        BY <2>4, <3>2, <4>1
      <4>3. local'[a].copy = [accounts' EXCEPT ![local'[a].user] = local'[a].goal]
        BY <2>1, <2>3
      <4>. QED
        BY <4>2, <4>3
    <3>. QED
      BY <3>3, <3>4
  <2>. QED
    BY <2>5, <2>6, <2>8, <2>9 DEF Shape
<1>. QED
  BY <1>1, <1>2

LEMMA SaveInv ==
  ASSUME IInv, NEW a \in Actors, Save(a)
  PROVE  Shape' /\ Earned' /\ Agreed'
<1>. DEFINE user == local[a].user
            goal == local[a].goal
<1>. USE ActorSets DEF IInv
<1>1. /\ pc[a] = "save" /\ Answer(a)
      /\ accounts' = local[a].copy
      /\ told' = [told EXCEPT ![user] = [state |-> goal, age |-> 0]]
      /\ UNCHANGED <<heap, attempts, fails, upset>>
  BY DEF Save
<1>2. Holding' /\ Changing'
  BY <1>1, DoneShape, AnswerFrame
<1>3. \A d \in Dicts, ip \in Ips : Owned(d, ip)' => Owned(d, ip)
  BY <1>1, DoneShape, AnswerFrame DEF Owned
<1>4. Apart' /\ Earned'
  BY <1>1, <1>3, StillApart, StillEarned DEF Shape
<1>5. Agreed'
  <2>1. SUFFICES ASSUME "accounts" \notin upset' PROVE ToldTrue' /\ CopyTrue' /\ MakerActive'
    BY DEF Agreed
  <2>2. ToldTrue /\ CopyTrue /\ MakerActive
    BY <1>1, <2>1 DEF Agreed
  <2>3. accounts' = [accounts EXCEPT ![user] = goal] /\ \A b \in Actors : pc[b] = "save" => b = a
    BY <1>1, <2>2 DEF CopyTrue
  <2>4. user \in Users
    BY <1>1 DEF Shape, Changing
  <2>5. \A u \in Users : IF u = user
                         THEN accounts'[u] = goal /\ told'[u] = [state |-> goal, age |-> 0]
                         ELSE accounts'[u] = accounts[u] /\ told'[u] = told[u]
    BY <1>1, <2>3, <2>4 DEF TypeOK
  <2>6. ToldTrue'
    BY <2>2, <2>5 DEF ToldTrue
  <2>7. CopyTrue'
    BY <1>1, <2>3, AnswerFrame DEF CopyTrue
  <2>8. MakerActive'
    <3>1. SUFFICES ASSUME NEW t \in Threads, pc'[t] = "make"
                   PROVE  LET u == local'[t].session.user IN
                          accounts'[u] = "active" \/ told'[u].age = 0
      BY DEF MakerActive
    <3>2. t # a /\ pc[t] = "make" /\ local'[t] = local[t]
      BY <1>1, <3>1, AnswerFrame
    <3>3. local[t].session.user \in Users
      BY <3>2 DEF Shape, Holding
    <3>. QED
      BY <2>2, <2>5, <3>2, <3>3 DEF MakerActive
  <2>. QED
    BY <2>6, <2>7, <2>8
<1>. QED
  BY <1>2, <1>4, <1>5 DEF Shape

LEMMA EvictLoginsInv ==
  ASSUME IInv, EvictLogins
  PROVE  Shape' /\ Earned' /\ Agreed'
<1>. USE ActorSets DEF IInv
<1>1. UNCHANGED <<accounts, pc, local, fails, told, upset>>
  BY DEF EvictLogins
<1>2. \A ip \in Ips : attempts'[ip] \in {attempts[ip], None}
  BY DEF EvictLogins
<1>3. \A d \in Dicts : heap'[d] \in {heap[d], Blank}
  BY DEF EvictLogins
<1>4. Holding' /\ Changing'
  BY <1>1 DEF Shape, Holding, Changing
<1>5. \A d \in Dicts, ip \in Ips : Owned(d, ip)' => Owned(d, ip)
  BY <1>1, <1>2, Numbers DEF Owned
<1>6. Apart' /\ Earned' /\ Agreed'
  BY <1>1, <1>3, <1>5, StillApart, StillEarned, StillAgreed DEF Shape
<1>. QED
  BY <1>4, <1>6 DEF Shape

LEMMA TickInv ==
  ASSUME IInv, Tick
  PROVE  Shape' /\ Earned' /\ Agreed'
<1>. USE ActorSets DEF IInv
<1>1. UNCHANGED <<attempts, accounts, pc, local, fails, upset>> /\ \A a \in Actors : pc[a] = "idle"
  BY DEF Tick
<1>2. Shape'
  BY <1>1 DEF Shape, Holding, Changing, Apart, Owned
<1>3. \A d \in Dicts : heap'[d].count = heap[d].count /\ (heap'[d].left > 0 => heap[d].left > 0)
  <2>1. SUFFICES ASSUME NEW d \in Dicts
                 PROVE  heap'[d].count = heap[d].count /\ (heap'[d].left > 0 => heap[d].left > 0)
    OBVIOUS
  <2>2. heap'[d] = [heap[d] EXCEPT !.left = IF heap[d].left > 0 THEN heap[d].left - 1 ELSE 0]
    BY DEF Tick
  <2>3. heap[d] \in Entry
    BY DEF TypeOK
  <2>. QED
    BY <2>2, <2>3 DEF Entry
<1>4. Earned'
  BY <1>1, <1>3 DEF Earned, Owned
<1>5. \A u \in Users : told'[u].state = told[u].state
  BY DEF Tick, TypeOK
<1>6. Agreed'
  BY <1>1, <1>5 DEF Agreed, ToldTrue, CopyTrue, MakerActive
<1>. QED
  BY <1>2, <1>4, <1>6

LEMMA RestartInv ==
  ASSUME IInv, Restart
  PROVE  Shape' /\ Earned' /\ Agreed'
<1>. USE ActorSets, NoLocalsTyped DEF IInv
<1>1. /\ attempts' = [ip \in Ips |-> None]
      /\ pc' = [a \in Actors |-> "idle"]
      /\ local' = [a \in Actors |-> NoLocals]
      /\ UNCHANGED <<accounts, fails, told, upset>>
  BY DEF Restart
<1>2. \A d \in Dicts, ip \in Ips : ~Owned(d, ip)'
  BY <1>1, Numbers DEF Owned
<1>3. Shape'
  BY <1>1, <1>2 DEF Shape, Holding, Changing, Apart
<1>4. Earned'
  BY <1>2 DEF Earned
<1>5. Agreed'
  BY <1>1 DEF Agreed, ToldTrue, CopyTrue, MakerActive
<1>. QED
  BY <1>3, <1>4, <1>5

-----------------------------------------------------------------------------
(* The specification *)

LEMMA InitInv == Init => IInv
<1>. SUFFICES ASSUME Init PROVE IInv
  OBVIOUS
<1>. USE Numbers, NoLocalsTyped
<1>1. setting \in Setting
  BY PanelAssumption DEF Init
<1>2. TypeOK
  <2>1. cookie \in [Ips -> Session]
    <3>1. setting.cookie \in {None, "admin"} \cup Users
      BY <1>1 DEF Setting
    <3>2. [NoSession EXCEPT !.user = setting.cookie] \in Session
      BY <3>1 DEF NoSession, Session
    <3>. QED
      BY <3>2 DEF Init
  <2>2. accounts \in [Users -> States]
    BY <1>1 DEF Init, Setting
  <2>3. heap \in [Dicts -> Entry] /\ attempts \in [Ips -> Dicts \cup {None}]
    BY DEF Init, Entry, Blank
  <2>4. pc \in [Actors -> Phases] /\ local \in [Actors -> Local]
    BY DEF Init, Phases
  <2>5. /\ tries \in [Ips -> Nat] /\ fails \in [Ips -> 0 .. MaxAttempts]
        /\ told \in [Users -> [state : States, age : 0 .. 1]] /\ upset = {}
    BY <2>2 DEF Init
  <2>. QED
    BY <1>1, <2>1, <2>2, <2>3, <2>4, <2>5 DEF TypeOK
<1>3. \A d \in Dicts, ip \in Ips : ~Owned(d, ip)
  BY DEF Init, Owned, Actors
<1>4. Shape
  BY <1>3 DEF Init, Shape, Holding, Changing, Apart, Actors
<1>5. Earned
  BY <1>3 DEF Earned
<1>6. Agreed
  BY DEF Init, Agreed, ToldTrue, CopyTrue, MakerActive, Actors
<1>. QED
  BY <1>2, <1>4, <1>5, <1>6 DEF IInv

LEMMA ServeInv ==
  ASSUME IInv, NEW t \in Threads, Serve(t)
  PROVE  IInv'
<1>1. CASE LoginStart(t)
  BY <1>1, LoginStartTypes, LoginStartInv DEF IInv
<1>2. ASSUME NEW user \in Users \cup {"admin"}, LoginSucceeds(t, user) PROVE IInv'
  BY <1>2, LoginSucceedsTypes, LoginSucceedsInv DEF IInv
<1>3. CASE LoginInactive(t)
  BY <1>3, LoginInactiveTypes, RepliesInv DEF IInv
<1>4. CASE LoginFails(t)
  BY <1>4, LoginFailsTypes, LoginFailsInv DEF IInv
<1>5. CASE Logout(t)
  BY <1>5, LogoutTypes, RepliesInv DEF IInv
<1>6. CASE Page(t)
  BY <1>6, PageTypes, RepliesInv DEF IInv
<1>11. CASE UseKeys(t)
  BY <1>11, UseKeysTypes, RepliesInv DEF IInv
<1>7. CASE CheckAccount(t)
  BY <1>7, CheckAccountTypes, CheckAccountInv DEF IInv
<1>8. CASE MakeAccountKey(t)
  BY <1>8, MakeKeyTypes, RepliesInv DEF IInv
<1>9. CASE Toggle(t)
  BY <1>9, ToggleTypes, ToggleInv DEF IInv
<1>10. CASE Delete(t)
  BY <1>10, DeleteTypes, DeleteInv DEF IInv
<1>. QED
  BY <1>1, <1>2, <1>3, <1>4, <1>5, <1>6, <1>7, <1>8, <1>9, <1>10, <1>11 DEF Serve

LEMMA NextInv == IInv /\ [Next]_vars => IInv'
<1>. SUFFICES ASSUME IInv, [Next]_vars PROVE IInv'
  OBVIOUS
<1>1. ASSUME NEW t \in Threads, Arrive(t) PROVE IInv'
  BY <1>1, ArriveTypes, ArriveInv DEF IInv
<1>2. ASSUME NEW t \in Threads, Serve(t) PROVE IInv'
  BY <1>2, ServeInv
<1>3. CASE Command
  BY <1>3, CommandTypes, CommandInv DEF IInv
<1>4. ASSUME NEW a \in Actors, Load(a) PROVE IInv'
  BY <1>4, LoadTypes, LoadInv DEF IInv
<1>5. ASSUME NEW a \in Actors, Save(a) PROVE IInv'
  BY <1>5, SaveTypes, SaveInv DEF IInv
<1>6. CASE EvictLogins
  BY <1>6, EvictLoginsTypes, EvictLoginsInv DEF IInv
<1>7. CASE Tick
  BY <1>7, TickTypes, TickInv DEF IInv
<1>8. CASE Restart
  BY <1>8, RestartTypes, RestartInv DEF IInv
<1>9. CASE UNCHANGED vars
  BY <1>9 DEF vars, IInv, TypeOK, Shape, Holding, Changing, Apart, Owned, Earned, Agreed, ToldTrue,
              CopyTrue, MakerActive
<1>. QED
  BY <1>1, <1>2, <1>3, <1>4, <1>5, <1>6, <1>7, <1>8, <1>9 DEF Next

\* Counters, dictionaries, requests and adminx.json go together as the invariant
\* says, whatever the requests and commands and however the threads interleave.
THEOREM PanelKept == Spec => []IInv
BY InitInv, NextInv, PTL DEF Spec

\* Every variable of the panel keeps its type.
THEOREM PanelTyped == Spec => []TypeOK
<1>1. IInv => TypeOK
  BY DEF IInv
<1>. QED
  BY <1>1, PanelKept, PTL

\* An address is locked out only after MaxAttempts failures since its last success,
\* for any number of addresses, threads and attempts (app.py:358-406).
THEOREM LockoutsAreEarned == Spec => []LockoutIsEarned
<1>1. IInv => LockoutIsEarned
  <2>. SUFFICES ASSUME IInv, "login" \notin upset, NEW ip \in Ips, attempts[ip] # None,
                       heap[attempts[ip]].left > 0
                PROVE  fails[ip] >= MaxAttempts
    BY DEF LockoutIsEarned
  <2>1. attempts[ip] \in Dicts /\ Owned(attempts[ip], ip)
    BY DEF IInv, TypeOK, Owned
  <2>. QED
    BY <2>1 DEF IInv, Earned
<1>. QED
  BY <1>1, PanelKept, PTL

\* With the key of an account that was deactivated or removed nobody logs in, nor does
\* POST /api/adminx/my-keys make a key for it, while no two changes of adminx.json
\* overlap, for any number of accounts and sessions (app.py:384-400, 849-877). Nothing
\* is said of the other key routes, which do not look at the account.
THEOREM AccountsStayChecked == Spec => AccountsAreChecked
<1>. DEFINE A == \A t \in Threads, user \in Users :
                    /\ "accounts" \notin upset
                    /\ told[user].age > 0
                    /\ LoginSucceeds(t, user) \/ (MakeAccountKey(t) /\ local[t].session.user = user)
                    => told[user].state = "active"
<1>1. IInv => A
  <2>. SUFFICES ASSUME IInv, NEW t \in Threads, NEW user \in Users, "accounts" \notin upset,
                       told[user].age > 0,
                       LoginSucceeds(t, user) \/ (MakeAccountKey(t) /\ local[t].session.user = user)
                PROVE  told[user].state = "active"
    OBVIOUS
  <2>1. ToldTrue /\ MakerActive
    BY DEF IInv, Agreed
  <2>2. CASE LoginSucceeds(t, user)
    BY <2>1, <2>2, PanelAssumption DEF LoginSucceeds, ToldTrue
  <2>3. CASE MakeAccountKey(t) /\ local[t].session.user = user
    BY <2>1, <2>3 DEF MakeAccountKey, ToldTrue, MakerActive
  <2>. QED
    BY <2>2, <2>3
<1>2. IInv /\ [Next]_vars => [A]_vars
  BY <1>1
<1>. QED
  BY <1>2, PanelKept, PTL DEF Spec, AccountsAreChecked

-----------------------------------------------------------------------------
(* How many guesses a lock-out lets through.  Each dictionary of an address has room    *)
(* for MaxAttempts - 1 failures, a pair (d, n) for the n-th of d.  What was guessed and *)
(* what there is still room for never exceed the room the threads could fill together.  *)

Serving == \A t \in Threads : pc[t] # "idle" => t \in setting.threads

Room(ip) == {e \in Dicts \X (1 .. MaxAttempts - 1) : Owned(e[1], ip) /\ heap[e[1]].count < e[2]}
Budget == (MaxAttempts - 1) * Cardinality(setting.threads)
WithinBudget == \A ip \in Ips :
    IF attempts[ip] = None THEN tries[ip] = 0
    ELSE tries[ip] + Cardinality(Room(ip)) <= Budget

\* Nothing is added to what ip may still guess, and no thread gets hold of a dictionary.
Spared(ip) == \A d \in Dicts : Owned(d, ip)' => Owned(d, ip) /\ heap'[d].count >= heap[d].count
LetsGo == \A u \in Threads :
    local'[u].entry # None => local'[u].entry = local[u].entry /\ local'[u].ip = local[u].ip

LEMMA RoomFinite ==
  ASSUME TypeOK, NEW ip \in Ips
  PROVE  IsFiniteSet(Room(ip)) /\ Cardinality(Room(ip)) \in Nat
<1>1. Cardinality(Ips) + Cardinality(Threads) \in Nat
  BY PanelAssumption, FS_CardinalityType
<1>2. IsFiniteSet(Dicts) /\ IsFiniteSet(1 .. MaxAttempts - 1)
  BY <1>1, Numbers, FS_Interval DEF Dicts
<1>3. IsFiniteSet(Dicts \X (1 .. MaxAttempts - 1))
  BY <1>2, FS_Product
<1>4. Room(ip) \subseteq Dicts \X (1 .. MaxAttempts - 1)
  BY DEF Room
<1>. QED
  BY <1>3, <1>4, FS_Subset, FS_CardinalityType

LEMMA BudgetNat ==
  ASSUME TypeOK
  PROVE  IsFiniteSet(setting.threads) /\ Budget \in Nat
<1>1. setting.threads \in SUBSET Threads
  BY DEF TypeOK, Setting
<1>2. IsFiniteSet(setting.threads)
  BY <1>1, PanelAssumption, FS_Subset
<1>3. Cardinality(setting.threads) \in Nat
  BY <1>2, FS_CardinalityType
<1>. QED
  BY <1>2, <1>3, Numbers DEF Budget

\* Where nothing is stored for an address only threads hold dictionaries of it.
LEMMA RoomOfThreads ==
  ASSUME TypeOK, Holding, Serving, NEW ip \in Ips, attempts[ip] = None
  PROVE  Cardinality(Room(ip)) <= Budget
<1>. DEFINE P == setting.threads \X (1 .. MaxAttempts - 1)
            f == [p \in P |-> <<local[p[1]].entry, p[2]>>]
            T == {f[p] : p \in P}
<1>1. setting.threads \subseteq Threads
  BY DEF TypeOK, Setting
<1>2. IsFiniteSet(1 .. MaxAttempts - 1) /\ Cardinality(1 .. MaxAttempts - 1) = MaxAttempts - 1
  BY Numbers, FS_Interval
<1>3. IsFiniteSet(P) /\ Cardinality(P) = Cardinality(setting.threads) * (MaxAttempts - 1)
  BY <1>2, BudgetNat, FS_Product
<1>4. Cardinality(P) = Budget
  <2>1. Cardinality(setting.threads) \in Nat
    BY BudgetNat, FS_CardinalityType
  <2>. QED
    BY <1>3, <2>1, Numbers DEF Budget
<1>5. f \in Surjection(P, T)
  BY DEF Surjection
<1>6. IsFiniteSet(T) /\ Cardinality(T) <= Budget
  BY <1>3, <1>4, <1>5, FS_Surjection
<1>7. Room(ip) \subseteq T
  <2>1. SUFFICES ASSUME NEW e \in Room(ip) PROVE e \in T
    OBVIOUS
  <2>2. /\ e \in Dicts \X (1 .. MaxAttempts - 1)
        /\ e = <<e[1], e[2]>> /\ e[1] \in Dicts /\ e[2] \in 1 .. MaxAttempts - 1
        /\ Owned(e[1], ip)
    BY DEF Room
  <2>3. PICK t \in Threads : local[t].entry = e[1]
    BY <2>2, Numbers DEF Owned
  <2>4. t \in setting.threads
    BY <2>2, <2>3, Numbers DEF Holding, Serving
  <2>5. <<t, e[2]>> \in P
    BY <2>2, <2>4
  <2>6. f[<<t, e[2]>>] = <<local[t].entry, e[2]>>
    BY <2>5
  <2>7. e = f[<<t, e[2]>>]
    BY <2>2, <2>3, <2>6
  <2>. HIDE DEF P, f
  <2>. QED
    BY <2>5, <2>7
<1>. HIDE DEF T
<1>. QED
  BY <1>6, <1>7, FS_Subset, RoomFinite, FS_CardinalityType, BudgetNat

LEMMA BudgetHolds ==
  ASSUME IInv, Serving, WithinBudget, NEW ip \in Ips
  PROVE  tries[ip] + Cardinality(Room(ip)) <= Budget
<1>1. CASE attempts[ip] = None
  <2>1. tries[ip] = 0 /\ Cardinality(Room(ip)) \in Nat
    BY <1>1, RoomFinite DEF WithinBudget, IInv
  <2>. QED
    BY <1>1, <2>1, RoomOfThreads DEF IInv, Shape
<1>2. CASE attempts[ip] # None
  BY <1>2 DEF WithinBudget
<1>. QED
  BY <1>1, <1>2

LEMMA NothingGuessed ==
  ASSUME IInv, IInv', Serving, WithinBudget, NEW ip \in Ips, tries'[ip] <= tries[ip],
         setting'.threads = setting.threads, Spared(ip)
  PROVE  tries'[ip] + Cardinality(Room(ip)') <= Budget'
<1>1. Room(ip)' \subseteq Room(ip)
  <2>1. \A d \in Dicts : heap[d].count \in Nat /\ heap'[d].count \in Nat
    BY DEF IInv, TypeOK, Entry
  <2>. QED
    BY <2>1, Numbers DEF Room, Spared
<1>2. IsFiniteSet(Room(ip)) /\ Cardinality(Room(ip)) \in Nat
  BY RoomFinite DEF IInv
<1>3. Cardinality(Room(ip)') <= Cardinality(Room(ip)) /\ Cardinality(Room(ip)') \in Nat
  BY <1>1, <1>2, FS_Subset, FS_CardinalityType
<1>4. Budget' = Budget /\ Budget \in Nat
  BY BudgetNat DEF Budget, IInv
<1>5. tries[ip] \in Nat /\ tries'[ip] \in Nat /\ tries[ip] + Cardinality(Room(ip)) <= Budget
  BY BudgetHolds DEF IInv, TypeOK
<1>. QED
  BY <1>2, <1>3, <1>4, <1>5

\* Most steps are no guess.
LEMMA NoGuess ==
  ASSUME IInv, IInv', Serving, WithinBudget, setting'.threads = setting.threads,
         \A ip \in Ips : \/ attempts'[ip] = None /\ tries'[ip] = 0
                         \/ attempts'[ip] # None /\ tries'[ip] = tries[ip] /\ Spared(ip)
  PROVE  WithinBudget'
<1>. SUFFICES ASSUME NEW ip \in Ips, attempts'[ip] # None, tries'[ip] = tries[ip], Spared(ip)
              PROVE  tries'[ip] + Cardinality(Room(ip)') <= Budget'
  BY DEF WithinBudget
<1>1. tries'[ip] <= tries[ip]
  BY DEF IInv, TypeOK
<1>. QED
  BY <1>1, NothingGuessed

LEMMA LettingGo ==
  ASSUME IInv, IInv', Serving, WithinBudget, setting'.threads = setting.threads, LetsGo,
         UNCHANGED <<attempts, tries>>, \A d \in Dicts : heap'[d].count = heap[d].count
  PROVE  WithinBudget'
<1>1. \A d \in Dicts, ip \in Ips : Owned(d, ip)' => Owned(d, ip)
  BY Numbers DEF Owned, LetsGo
<1>2. \A d \in Dicts : heap'[d].count >= heap[d].count
  BY DEF IInv, TypeOK, Entry
<1>3. \A ip \in Ips : Spared(ip)
  BY <1>1, <1>2 DEF Spared
<1>4. \A ip \in Ips : attempts[ip] = None => tries[ip] = 0
  BY DEF WithinBudget
<1>. QED
  BY <1>3, <1>4, NoGuess

\* A dictionary that someone still refers to is not collected.
LEMMA NotCollected ==
  ASSUME TypeOK, Shape, NEW t \in Threads, NEW session, Reply(t, session), NEW stored, NEW entries,
         Collect(t, stored, entries), NEW d \in Dicts, NEW ip \in Ips, Owned(d, ip)',
         \/ attempts'[ip] = attempts[ip] /\ ip # local[t].ip
         \/ attempts'[ip] \in {stored, None}
  PROVE  heap'[d] = entries[d] /\ (d = stored \/ Owned(d, ip))
<1>1. CASE \E u \in Threads : local'[u].entry = d /\ local'[u].ip = ip
  <2>1. PICK u \in Threads : local'[u].entry = d /\ local'[u].ip = ip
    BY <1>1
  <2>2. u # t /\ local'[u] = local[u]
    BY <2>1, ReplyFrame, NoLocalsTyped, Numbers, ActorSets
  <2>. QED
    BY <2>1, <2>2 DEF Collect, Owned
<1>2. CASE attempts'[ip] = d
  BY <1>2, Numbers DEF Collect, Owned
<1>. QED
  BY <1>1, <1>2 DEF Owned

-----------------------------------------------------------------------------
(* Every step keeps within the budget *)

LEMMA StillServing ==
  ASSUME IInv, Serving, [Next]_vars
  PROVE  Serving' /\ setting'.threads = setting.threads
<1>1. setting'.threads = setting.threads
  <2>1. CASE Restart
    BY <2>1 DEF Restart, IInv, TypeOK, Setting
  <2>2. CASE ~Restart
    BY <2>2 DEF Next, Arrive, Serve, LoginStart, LoginSucceeds, LoginInactive, LoginFails, Logout, Page, UseKeys,
                CheckAccount, MakeAccountKey, Toggle, Delete, Command, Load, Save, EvictLogins, Tick, vars
  <2>. QED
    BY <2>1, <2>2
<1>2. \A t \in Threads : pc'[t] # "idle" => pc[t] # "idle" \/ t \in setting.threads
  <2>. SUFFICES ASSUME NEW t \in Threads, pc'[t] # pc[t], pc[t] = "idle"
                PROVE  pc'[t] = "idle" \/ t \in setting.threads
    OBVIOUS
  <2>. USE ActorSets DEF IInv
  <2>1. ASSUME NEW u \in Threads, Arrive(u) PROVE t \in setting.threads
    BY <2>1 DEF Arrive, Goto, TypeOK
  <2>2. ASSUME NEW u \in Threads, Serve(u) PROVE pc'[t] = "idle"
    <3>1. pc[u] # "idle" /\ \A a \in Actors \ {u} : pc'[a] = pc[a]
      BY <2>2 DEF Serve, LoginStart, LoginSucceeds, LoginInactive, LoginFails, Logout, Page, UseKeys, CheckAccount,
                  MakeAccountKey, Toggle, Delete, Goto, Reply, TypeOK
    <3>. QED
      BY <3>1
  <2>3. CASE Command
    BY <2>3 DEF Command, Goto, TypeOK
  <2>4. ASSUME NEW a \in Actors, Load(a) \/ Save(a) PROVE pc'[t] = "idle"
    BY <2>4 DEF Load, Save, Answer, Goto, TypeOK
  <2>5. CASE EvictLogins \/ Tick \/ Restart \/ UNCHANGED vars
    BY <2>5 DEF EvictLogins, Tick, Restart, vars
  <2>. QED
    BY <2>1, <2>2, <2>3, <2>4, <2>5 DEF Next
<1>. QED
  BY <1>1, <1>2 DEF Serving

LEMMA EndsWithinBudget ==
  ASSUME IInv, IInv', Serving, WithinBudget, setting'.threads = setting.threads,
         NEW t \in Threads, NEW session, Reply(t, session), UNCHANGED <<heap, attempts, tries>>
  PROVE  WithinBudget'
<1>1. LetsGo
  BY ReplyFrame, NoLocalsTyped, ActorSets DEF LetsGo, IInv
<1>. QED
  BY <1>1, LettingGo

LEMMA LoginStartWithinBudget ==
  ASSUME IInv, IInv', Serving, WithinBudget, setting'.threads = setting.threads,
         NEW t \in Threads, LoginStart(t)
  PROVE  WithinBudget'
<1>. DEFINE ip == local[t].ip
            d == IF attempts[ip] = None THEN NewDict ELSE attempts[ip]
            entry == IF attempts[ip] = None THEN Blank ELSE heap[d]
<1>. USE ActorSets DEF IInv
<1>1. CASE entry.left > 0
  <2>1. Reply(t, local[t].session) /\ UNCHANGED <<heap, attempts, tries>>
    BY <1>1 DEF LoginStart, history
  <2>. QED
    BY <2>1, EndsWithinBudget
<1>2. CASE ~(entry.left > 0)
  <2>1. /\ heap' = [heap EXCEPT ![d] = entry]
        /\ local' = [local EXCEPT ![t].entry = d]
        /\ UNCHANGED <<attempts, tries>>
    BY <1>2 DEF LoginStart, history
  <2>2. ip \in Ips
    BY DEF LoginStart, Shape, Holding
  <2>3. \A u \in Threads : IF u = t THEN local'[u].entry = d /\ local'[u].ip = ip ELSE local'[u] = local[u]
    <3>1. local'[t] = [local[t] EXCEPT !.entry = d]
      BY <2>1 DEF TypeOK
    <3>2. local'[t].entry = d /\ local'[t].ip = ip
      BY <3>1, LocalFields DEF Local
    <3>. QED
      BY <2>1, <3>2 DEF TypeOK
  <2>4. ASSUME NEW jp \in Ips, attempts[jp] # None PROVE Spared(jp)
    <3>1. SUFFICES ASSUME NEW e \in Dicts, Owned(e, jp)'
                   PROVE  Owned(e, jp) /\ heap'[e] = heap[e]
      BY <2>4 DEF Spared, TypeOK, Entry
    <3>2. Owned(e, jp)
      BY <2>1, <2>3, <2>4, <3>1 DEF Owned
    <3>3. CASE attempts[ip] = None
      <4>1. e # NewDict
        BY <3>2, NewDictFree DEF Owned
      <4>. QED
        BY <2>1, <3>2, <3>3, <4>1 DEF TypeOK
    <3>4. CASE attempts[ip] # None
      BY <2>1, <3>2, <3>4 DEF TypeOK
    <3>. QED
      BY <3>3, <3>4
  <2>5. \A jp \in Ips : attempts[jp] = None => tries[jp] = 0
    BY DEF WithinBudget
  <2>. QED
    BY <2>1, <2>4, <2>5, NoGuess
<1>. QED
  BY <1>1, <1>2

LEMMA LoginSucceedsWithinBudget ==
  ASSUME IInv, IInv', Serving, WithinBudget, setting'.threads = setting.threads,
         NEW t \in Threads, NEW u \in Users \cup {"admin"}, LoginSucceeds(t, u)
  PROVE  WithinBudget'
<1>. DEFINE ip == local[t].ip
<1>. USE ActorSets DEF IInv
<1>1. /\ Reply(t, [user |-> u, idle |-> 0])
      /\ attempts' = [attempts EXCEPT ![ip] = None]
      /\ tries' = [tries EXCEPT ![ip] = 0]
      /\ Collect(t, None, heap)
  BY DEF LoginSucceeds
<1>2. SUFFICES ASSUME NEW jp \in Ips
               PROVE  \/ attempts'[jp] = None /\ tries'[jp] = 0
                      \/ attempts'[jp] # None /\ tries'[jp] = tries[jp] /\ Spared(jp)
  BY NoGuess
<1>3. CASE jp = ip
  BY <1>1, <1>3 DEF TypeOK
<1>4. CASE jp # ip
  <2>1. attempts'[jp] = attempts[jp] /\ tries'[jp] = tries[jp]
    BY <1>1, <1>4 DEF TypeOK
  <2>2. \A d \in Dicts : Owned(d, jp)' => heap'[d] = heap[d] /\ (d = None \/ Owned(d, jp))
    BY <1>1, <1>4, <2>1, NotCollected
  <2>3. Spared(jp)
    BY <2>2, Numbers DEF Spared, TypeOK, Entry
  <2>4. attempts[jp] = None => tries[jp] = 0
    BY DEF WithinBudget
  <2>. QED
    BY <2>1, <2>3, <2>4
<1>. QED
  BY <1>3, <1>4

LEMMA LoginInactiveWithinBudget ==
  ASSUME IInv, IInv', Serving, WithinBudget, setting'.threads = setting.threads,
         NEW t \in Threads, LoginInactive(t)
  PROVE  WithinBudget'
<1>. DEFINE ip == local[t].ip
<1>. USE DEF IInv
<1>1. /\ Reply(t, local[t].session)
      /\ UNCHANGED <<attempts, tries>>
      /\ Collect(t, attempts[ip], heap)
      /\ pc[t] = "check"
  BY DEF LoginInactive, history
<1>2. SUFFICES ASSUME NEW jp \in Ips, attempts[jp] # None PROVE Spared(jp)
  <2>1. \A jp \in Ips : attempts[jp] = None => tries[jp] = 0
    BY DEF WithinBudget
  <2>. QED
    BY <1>1, <1>2, <2>1, NoGuess
<1>3. attempts'[jp] = attempts[jp] /\ (jp # ip \/ attempts'[jp] = attempts[ip])
  BY <1>1
<1>4. \A d \in Dicts : Owned(d, jp)' => heap'[d] = heap[d] /\ (d = attempts[ip] \/ Owned(d, jp))
  BY <1>1, <1>3, NotCollected
<1>5. \A d \in Dicts : Owned(d, jp)' => Owned(d, jp)
  <2>1. SUFFICES ASSUME NEW d \in Dicts, NEW u \in Threads, local'[u].entry = d, local'[u].ip = jp
                 PROVE  Owned(d, jp)
    BY <1>1 DEF Owned
  <2>2. u # t /\ local'[u] = local[u]
    BY <1>1, <2>1, ReplyFrame, NoLocalsTyped, Numbers, ActorSets
  <2>. QED
    BY <2>1, <2>2 DEF Owned
<1>. QED
  BY <1>4, <1>5 DEF Spared, TypeOK, Entry

LEMMA LoginFailsWithinBudget ==
  ASSUME IInv, IInv', Serving, WithinBudget, setting'.threads = setting.threads,
         NEW t \in Threads, LoginFails(t)
  PROVE  WithinBudget'
<1>. DEFINE ip == local[t].ip
            d == local[t].entry
            n == heap[d].count + 1
            blocks == n >= MaxAttempts
            counted == [heap EXCEPT ![d].count = AtMost(@ + 1, MaxAttempts),
                                    ![d].left = IF blocks THEN Block ELSE @]
<1>. USE ActorSets DEF IInv
<1>1. /\ Reply(t, local[t].session)
      /\ pc[t] = "check"
      /\ Collect(t, d, counted)
      /\ attempts' = [attempts EXCEPT ![ip] = d]
      /\ tries' = [tries EXCEPT ![ip] = IF blocks THEN 0 ELSE tries[ip] + 1]
  BY DEF LoginFails
<1>2. ip \in Ips /\ d \in Dicts /\ d # None
  BY <1>1, LocalFields, Numbers DEF Shape, Holding, Local
<1>3. Owned(d, ip)
  BY DEF Owned
<1>4. /\ heap[d].count \in 0 .. MaxAttempts
      /\ counted[d].count = AtMost(n, MaxAttempts)
      /\ \A e \in Dicts \ {d} : counted[e] = heap[e]
  BY <1>2 DEF TypeOK, Entry
<1>. HIDE DEF counted
<1>5. \A e \in Dicts, jp \in Ips : Owned(e, jp)' => heap'[e] = counted[e] /\ Owned(e, jp)
  <2>1. SUFFICES ASSUME NEW e \in Dicts, NEW jp \in Ips, Owned(e, jp)'
                 PROVE  heap'[e] = counted[e] /\ Owned(e, jp)
    OBVIOUS
  <2>2. IF jp = ip THEN attempts'[jp] = d ELSE attempts'[jp] = attempts[jp]
    BY <1>1 DEF TypeOK
  <2>3. heap'[e] = counted[e]
    BY <1>1, <2>1, <2>2, NotCollected
  <2>4. Owned(e, jp)
    <3>1. CASE attempts'[jp] = e
      BY <1>3, <2>2, <3>1 DEF Owned
    <3>2. CASE \E u \in Threads : local'[u].entry = e /\ local'[u].ip = jp
      BY <1>1, <3>2, ReplyFrame, NoLocalsTyped, Numbers DEF Owned
    <3>. QED
      BY <2>1, <3>1, <3>2 DEF Owned
  <2>. QED
    BY <2>3, <2>4
<1>6. SUFFICES ASSUME NEW jp \in Ips
               PROVE  IF attempts'[jp] = None THEN tries'[jp] = 0
                      ELSE tries'[jp] + Cardinality(Room(jp)') <= Budget'
  BY DEF WithinBudget
<1>7. CASE jp # ip
  <2>1. attempts'[jp] = attempts[jp] /\ tries'[jp] = tries[jp]
    BY <1>1, <1>7 DEF TypeOK
  <2>2. Spared(jp)
    <3>1. SUFFICES ASSUME NEW e \in Dicts, Owned(e, jp)' PROVE Owned(e, jp) /\ heap'[e] = heap[e]
      BY DEF Spared, TypeOK, Entry
    <3>2. Owned(e, jp) /\ heap'[e] = counted[e]
      BY <1>5, <3>1
    <3>3. e # d
      BY <1>2, <1>3, <1>7, <3>2 DEF Shape, Apart
    <3>. QED
      BY <1>4, <3>2, <3>3
  <2>3. attempts[jp] = None => tries[jp] = 0
    BY DEF WithinBudget
  <2>4. tries'[jp] <= tries[jp]
    BY <2>1 DEF TypeOK
  <2>. QED
    BY <2>1, <2>2, <2>3, <2>4, NothingGuessed
<1>8. CASE jp = ip /\ blocks
  <2>1. tries'[jp] = 0 /\ tries[jp] \in Nat
    BY <1>1, <1>2, <1>8 DEF TypeOK
  <2>2. Spared(jp)
    <3>1. SUFFICES ASSUME NEW e \in Dicts, Owned(e, jp)'
                   PROVE  Owned(e, jp) /\ heap'[e].count >= heap[e].count
      BY DEF Spared
    <3>2. Owned(e, jp) /\ heap'[e] = counted[e]
      BY <1>5, <3>1
    <3>3. CASE e = d
      BY <1>4, <3>2, <3>3, Numbers DEF AtMost
    <3>4. CASE e # d
      BY <1>4, <3>2, <3>4 DEF TypeOK, Entry
    <3>. QED
      BY <3>2, <3>3, <3>4
  <2>. QED
    BY <1>8, <2>1, <2>2, NothingGuessed
<1>9. CASE jp = ip /\ ~blocks
  <2>1. tries'[jp] = tries[jp] + 1 /\ tries[jp] \in Nat
    BY <1>1, <1>2, <1>9 DEF TypeOK
  <2>2. n \in 1 .. MaxAttempts - 1 /\ counted[d].count = n
    BY <1>4, <1>9, Numbers DEF AtMost
  <2>3. <<d, n>> \in Room(jp)
    BY <1>2, <1>3, <1>4, <1>9, <2>2 DEF Room
  <2>4. Room(jp)' \subseteq Room(jp) \ {<<d, n>>}
    <3>1. SUFFICES ASSUME NEW e \in Dicts, NEW k \in 1 .. MaxAttempts - 1, Owned(e, jp)', heap'[e].count < k
                   PROVE  Owned(e, jp) /\ heap[e].count < k /\ <<e, k>> # <<d, n>>
      BY DEF Room
    <3>2. Owned(e, jp) /\ heap'[e] = counted[e]
      BY <1>5, <3>1
    <3>3. CASE e = d
      BY <1>4, <2>2, <3>1, <3>2, <3>3, Numbers
    <3>4. CASE e # d
      BY <1>4, <3>1, <3>2, <3>4
    <3>. QED
      BY <3>2, <3>3, <3>4
  <2>5. IsFiniteSet(Room(jp)) /\ Cardinality(Room(jp)) \in Nat
    BY RoomFinite
  <2>6. /\ IsFiniteSet(Room(jp) \ {<<d, n>>})
        /\ Cardinality(Room(jp) \ {<<d, n>>}) = Cardinality(Room(jp)) - 1
    BY <2>3, <2>5, FS_RemoveElement
  <2>7. Cardinality(Room(jp)') <= Cardinality(Room(jp)) - 1 /\ Cardinality(Room(jp)') \in Nat
    BY <2>4, <2>6, FS_Subset, FS_CardinalityType
  <2>8. Budget' = Budget /\ Budget \in Nat /\ tries[jp] + Cardinality(Room(jp)) <= Budget
    BY BudgetNat, BudgetHolds DEF Budget
  <2>9. attempts'[ip] # None
    BY <1>1, <1>2 DEF TypeOK
  <2>10. tries'[jp] + Cardinality(Room(jp)') <= Budget'
    BY <2>1, <2>5, <2>7, <2>8
  <2>. QED
    BY <1>9, <2>9, <2>10
<1>. QED
  BY <1>7, <1>8, <1>9

LEMMA EvictLoginsWithinBudget ==
  ASSUME IInv, IInv', Serving, WithinBudget, setting'.threads = setting.threads, EvictLogins
  PROVE  WithinBudget'
<1>. USE DEF IInv
<1>. DEFINE held == {ip \in Ips : attempts[ip] # None}
<1>1. PICK gone \in kSubset(Cardinality(held) \div 2, held) :
         /\ attempts' = [ip \in Ips |-> IF ip \in gone THEN None ELSE attempts[ip]]
         /\ tries' = [ip \in Ips |-> IF ip \in gone THEN 0 ELSE tries[ip]]
         /\ heap' = [d \in Dicts |-> IF \/ \E u \in Threads : local[u].entry = d
                                        \/ \E ip \in Ips \ gone : attempts[ip] = d
                                     THEN heap[d] ELSE Blank]
  BY Zenon DEF EvictLogins
<1>. HIDE DEF held
<1>. local' = local
  BY DEF EvictLogins
<1>2. SUFFICES ASSUME NEW ip \in Ips
               PROVE  \/ attempts'[ip] = None /\ tries'[ip] = 0
                      \/ attempts'[ip] # None /\ tries'[ip] = tries[ip] /\ Spared(ip)
  BY NoGuess
<1>3. CASE ip \in gone
  BY <1>1, <1>3
<1>4. CASE ip \notin gone
  <2>1. attempts'[ip] = attempts[ip] /\ tries'[ip] = tries[ip]
    BY <1>1, <1>4
  <2>2. \A d \in Dicts : Owned(d, ip)' => Owned(d, ip) /\ heap'[d] = heap[d]
    BY <1>1, <1>4, <2>1 DEF Owned
  <2>3. Spared(ip)
    BY <2>2 DEF Spared, TypeOK, Entry
  <2>4. attempts[ip] = None => tries[ip] = 0
    BY DEF WithinBudget
  <2>. QED
    BY <2>1, <2>3, <2>4
<1>. QED
  BY <1>3, <1>4

LEMMA RequestWithinBudget ==
  ASSUME IInv, IInv', Serving, WithinBudget, setting'.threads = setting.threads,
         NEW t \in Threads, Arrive(t) \/ Logout(t) \/ Page(t) \/ UseKeys(t) \/ CheckAccount(t) \/ MakeAccountKey(t)
                            \/ Toggle(t) \/ Delete(t)
  PROVE  WithinBudget'
<1>. USE DEF IInv
<1>1. UNCHANGED <<heap, attempts, tries>>
  BY DEF Arrive, Logout, Page, UseKeys, CheckAccount, MakeAccountKey, Toggle, Delete, history
<1>2. CASE \E session : Reply(t, session)
  BY <1>1, <1>2, EndsWithinBudget
<1>3. CASE Arrive(t)
  <2>1. \A u \in Threads : local'[u] = local[u] \/ local'[u].entry = None
    BY <1>3, ActorSets DEF Arrive, TypeOK, NoLocals
  <2>2. LetsGo
    BY <2>1 DEF LetsGo
  <2>. QED
    BY <1>1, <2>2, LettingGo
<1>4. CASE CheckAccount(t) /\ UNCHANGED local
  <2>1. LetsGo
    BY <1>4 DEF LetsGo
  <2>. QED
    BY <1>1, <2>1, LettingGo
<1>5. ASSUME NEW g \in States, local' = [local EXCEPT ![t].goal = g] PROVE WithinBudget'
  <2>1. local' = [local EXCEPT ![t] = [local[t] EXCEPT !.goal = g]]
    BY <1>5
  <2>2. \A u \in Threads : local'[u].entry = local[u].entry /\ local'[u].ip = local[u].ip
    BY <2>1, LocalFields, ActorSets DEF TypeOK, Local
  <2>3. LetsGo
    BY <2>2 DEF LetsGo
  <2>. QED
    BY <1>1, <2>3, LettingGo
<1>6. CASE (Toggle(t) \/ Delete(t)) /\ ~\E session : Reply(t, session)
  BY <1>5, <1>6 DEF Toggle, Delete, States
<1>. QED
  BY <1>2, <1>3, <1>4, <1>6 DEF Logout, Page, UseKeys, CheckAccount, MakeAccountKey

LEMMA AccountWithinBudget ==
  ASSUME IInv, IInv', Serving, WithinBudget, setting'.threads = setting.threads,
         Command \/ \E a \in Actors : Load(a) \/ Save(a)
  PROVE  WithinBudget'
<1>. USE ActorSets DEF IInv
<1>1. UNCHANGED <<heap, attempts, tries>>
  BY DEF Command, Load, Save, history
<1>2. CASE Command
  <2>1. \A u \in Threads : local'[u] = local[u]
    BY <1>2 DEF Command, TypeOK
  <2>2. LetsGo
    BY <2>1 DEF LetsGo
  <2>. QED
    BY <1>1, <2>2, LettingGo
<1>3. ASSUME NEW a \in Actors, Load(a) \/ Save(a) PROVE WithinBudget'
  <2>1. CASE Answer(a)
    <3>1. LetsGo
      BY <2>1, AnswerFrame, NoLocalsTyped DEF LetsGo
    <3>. QED
      BY <1>1, <3>1, LettingGo
  <2>2. CASE ~Answer(a)
    <3>1. PICK f : local' = [local EXCEPT ![a] = [local[a] EXCEPT !.copy = f]]
      BY <1>3, <2>2 DEF Load, Save
    <3>2. \A u \in Threads : local'[u].entry = local[u].entry /\ local'[u].ip = local[u].ip
      BY <3>1, LocalFields DEF TypeOK, Local
    <3>3. LetsGo
      BY <3>2 DEF LetsGo
    <3>. QED
      BY <1>1, <3>3, LettingGo
  <2>. QED
    BY <2>1, <2>2
<1>. QED
  BY <1>2, <1>3

LEMMA ClockWithinBudget ==
  ASSUME IInv, IInv', Serving, WithinBudget, setting'.threads = setting.threads,
         Tick \/ Restart \/ UNCHANGED vars
  PROVE  WithinBudget'
<1>. USE DEF IInv
<1>1. CASE Restart
  <2>1. \A ip \in Ips : attempts'[ip] = None /\ tries'[ip] = 0
    BY <1>1 DEF Restart
  <2>. QED
    BY <2>1 DEF WithinBudget
<1>2. CASE ~Restart
  <2>1. UNCHANGED <<attempts, tries, local>>
    BY <1>2 DEF Tick, vars
  <2>2. \A d \in Dicts : heap'[d].count = heap[d].count
    BY <1>2 DEF Tick, vars, TypeOK, Entry
  <2>3. LetsGo
    BY <2>1 DEF LetsGo
  <2>. QED
    BY <2>1, <2>2, <2>3, LettingGo
<1>. QED
  BY <1>1, <1>2

LEMMA NextWithinBudget == IInv /\ IInv' /\ Serving /\ WithinBudget /\ [Next]_vars => Serving' /\ WithinBudget'
<1>. SUFFICES ASSUME IInv, IInv', Serving, WithinBudget, [Next]_vars PROVE Serving' /\ WithinBudget'
  OBVIOUS
<1>1. Serving' /\ setting'.threads = setting.threads
  BY StillServing
<1>2. ASSUME NEW t \in Threads, Arrive(t) PROVE WithinBudget'
  BY <1>1, <1>2, RequestWithinBudget
<1>3. ASSUME NEW t \in Threads, Serve(t) PROVE WithinBudget'
  BY <1>1, <1>3, LoginStartWithinBudget, LoginSucceedsWithinBudget, LoginInactiveWithinBudget,
     LoginFailsWithinBudget, RequestWithinBudget DEF Serve
<1>. QED
  BY <1>1, <1>2, <1>3, AccountWithinBudget, EvictLoginsWithinBudget, ClockWithinBudget DEF Next

\* Until an address is locked out, or a login from it succeeds, its threads let through
\* no more guesses than MaxAttempts - 1 each, however their requests overlap, for any
\* number of threads and addresses (app.py:358-406). An address that was let go, or that
\* a new process has never seen, has as many again.
THEOREM GuessesBounded == Spec => []GuessesAreBounded
<1>1. Init => Serving /\ WithinBudget
  BY DEF Init, Serving, WithinBudget, Actors
<1>2. IInv /\ Serving /\ WithinBudget => GuessesAreBounded
  <2>. SUFFICES ASSUME IInv, Serving, WithinBudget, NEW ip \in Ips PROVE tries[ip] <= Budget
    BY DEF GuessesAreBounded, Budget
  <2>1. tries[ip] \in Nat /\ Budget \in Nat /\ Cardinality(Room(ip)) \in Nat
    BY RoomFinite, BudgetNat DEF IInv, TypeOK
  <2>. QED
    BY <2>1, BudgetHolds
<1>3. Spec => [](Serving /\ WithinBudget)
  BY <1>1, NextWithinBudget, PanelKept, PTL DEF Spec
<1>. QED
  BY <1>2, <1>3, PanelKept, PTL
=============================================================================
