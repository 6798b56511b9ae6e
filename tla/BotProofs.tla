----------------------------- MODULE BotProofs ------------------------------
(***************************************************************************)
(* What an administrator has from the bot: commands (BotPoll, Spec) and    *)
(* alerts (Alerts, AlertsSpec).                                            *)
(*                                                                         *)
(* The server forgets nothing a poller has not dealt with, and a poller    *)
(* dispatches nothing twice between two resets of its offset, for any      *)
(* number of pollers and processes.  The invariant says what an offset     *)
(* means: everything below it is done, but for the one update whose        *)
(* dispatch is under way; everything waiting in an answer is above it,     *)
(* with no gap that is not done.                                           *)
(*                                                                         *)
(* An alert is on disk one round of the flush thread after it was          *)
(* recorded, and shown one life of the bot's cache later, for any sizes    *)
(* and times with Pause < Ttl and Gap < Ttl.  The invariant says where an  *)
(* alert is that the file does not have: in the cached list, which counts  *)
(* as dirty, is younger than the next round of the flush is far, and       *)
(* cannot expire before it; or in the copy a thread is about to move.      *)
(* Lists only ever go forward, so what a list is past, later ones are too. *)
(***************************************************************************)
EXTENDS BotPoll, Alerts, FiniteSetTheorems, WellFoundedInduction, TLAPS

-----------------------------------------------------------------------------
(* Polling *)

\* The update poller t is dispatching.
Busy(t, u) == pc[t] = "dispatch" /\ u = offset[t] - 1

BatchInPhase == \A t \in Pollers : pc[t] \notin {"batch", "dispatch"} => batch[t] = {}
OffsetInReach == \A t \in Pollers :
    /\ offset[t] <= Len(sent) + 1
    /\ pc[t] = "dispatch" => offset[t] - 1 \in 1..Len(sent)
BatchAhead == \A t \in Pollers : \A u \in batch[t] : u >= offset[t]
PastIsDone == \A t \in Pollers, u \in 1..Len(sent) :
    u < offset[t] => u \in done \/ Busy(t, u)
NoGap == \A t \in Pollers, v \in 1..Len(sent) : \A u \in batch[t] :
    v < u => v \in batch[t] \/ v \in done \/ Busy(t, v)
NotYet == \A t \in Pollers, u \in Ids : u >= offset[t] => times[t][u] = 0

Tracked == BatchInPhase /\ OffsetInReach /\ BatchAhead /\ PastIsDone /\ NoGap
           /\ NotYet /\ DispatchedOnce
IInv == TypeOK /\ NothingForgotten /\ Tracked

-----------------------------------------------------------------------------
LEMMA Numbers == Cooldown \in Nat /\ MaxErrors \in Nat /\ LastUpdate \in Nat
BY BotAssumption

LEMMA InitIInv == Init => IInv
<1> SUFFICES ASSUME Init PROVE IInv
  OBVIOUS
<1> USE Numbers
<1>1. sent \in Seq(Messages) /\ Len(sent) = 0
  BY DEF Init
<1>2. home \in [Pollers -> Processes]
  BY BotAssumption DEF Init
<1>3. TypeOK
  BY <1>1, <1>2 DEF Init, TypeOK, Calm, Never, Phases
<1>4. NothingForgotten /\ Tracked
  BY <1>1 DEF Init, NothingForgotten, Tracked, BatchInPhase, OffsetInReach, BatchAhead,
              PastIsDone, NoGap, NotYet, DispatchedOnce, Never
<1>5. QED
  BY <1>3, <1>4 DEF IInv

-----------------------------------------------------------------------------
(* Where only one poller's phase, or nothing a poller reads, changes. *)

LEMMA StartStep == ASSUME IInv, NEW t \in Pollers, Start(t) PROVE IInv'
<1>1. TypeOK'
  BY DEF IInv, TypeOK, Start, Goto, Phases, server, shared
<1>2. (NothingForgotten /\ Tracked)'
  BY DEF IInv, TypeOK, Start, Goto, server, shared, NothingForgotten, Tracked, BatchInPhase,
         OffsetInReach, BatchAhead, PastIsDone, NoGap, NotYet, DispatchedOnce, Busy
<1>3. QED
  BY <1>1, <1>2 DEF IInv

LEMMA LeaveStep == ASSUME IInv, NEW t \in Pollers, Leave(t) PROVE IInv'
<1>1. TypeOK'
  BY DEF IInv, TypeOK, Leave, Goto, Phases, server, shared
<1>2. (NothingForgotten /\ Tracked)'
  BY DEF IInv, TypeOK, Leave, Goto, server, shared, NothingForgotten, Tracked, BatchInPhase,
         OffsetInReach, BatchAhead, PastIsDone, NoGap, NotYet, DispatchedOnce, Busy
<1>3. QED
  BY <1>1, <1>2 DEF IInv

LEMMA StopStep == ASSUME IInv, NEW h \in Processes, Stop(h) PROVE IInv'
<1>1. TypeOK'
  BY DEF IInv, TypeOK, Stop, server, poller
<1>2. (NothingForgotten /\ Tracked)'
  BY DEF IInv, Stop, server, poller, NothingForgotten, Tracked, BatchInPhase,
         OffsetInReach, BatchAhead, PastIsDone, NoGap, NotYet, DispatchedOnce, Busy
<1>3. QED
  BY <1>1, <1>2 DEF IInv

LEMMA TickStep == ASSUME IInv, Tick PROVE IInv'
<1> USE Numbers
<1>1. TypeOK'
  BY DEF IInv, TypeOK, Tick, server, poller
<1>2. (NothingForgotten /\ Tracked)'
  BY DEF IInv, Tick, server, poller, NothingForgotten, Tracked, BatchInPhase,
         OffsetInReach, BatchAhead, PastIsDone, NoGap, NotYet, DispatchedOnce, Busy
<1>3. QED
  BY <1>1, <1>2 DEF IInv

\* An offset of 0 has nothing below it.
LEMMA BeginStep == ASSUME IInv, NEW t \in Pollers, Begin(t) PROVE IInv'
<1> USE Numbers
<1>1. TypeOK'
  BY DEF IInv, TypeOK, Begin, Goto, Phases, server, Never
<1>2. (NothingForgotten /\ Tracked)'
  BY DEF IInv, TypeOK, Begin, Goto, server, NothingForgotten, Tracked, BatchInPhase, Never,
         OffsetInReach, BatchAhead, PastIsDone, NoGap, NotYet, DispatchedOnce, Busy
<1>3. QED
  BY <1>1, <1>2 DEF IInv

LEMMA CrashStep == ASSUME IInv, NEW h \in Processes, Crash(h) PROVE IInv'
<1> USE Numbers
<1>1. TypeOK'
  BY DEF IInv, TypeOK, Crash, Phases, server, Never, Calm
<1>2. (NothingForgotten /\ Tracked)'
  BY DEF IInv, TypeOK, Crash, server, NothingForgotten, Tracked, BatchInPhase, Never,
         OffsetInReach, BatchAhead, PastIsDone, NoGap, NotYet, DispatchedOnce, Busy
<1>3. QED
  BY <1>1, <1>2 DEF IInv

LEMMA SendStep == ASSUME IInv, Send PROVE IInv'
<1> DEFINE n == Len(sent)
<1> USE Numbers
<1>1. /\ sent' \in Seq(Messages)
      /\ n \in Nat /\ n + 1 <= LastUpdate
      /\ Len(sent') = n + 1
      /\ held' = held \cup {n + 1}
  BY DEF IInv, TypeOK, Send
<1>2. UNCHANGED <<home, running, errors, rate, pc, offset, batch, done, times>>
  BY DEF Send, shared, poller
<1>3. (1..Len(sent))' = (1..n) \cup {n + 1}
  BY <1>1
<1>4. (1..Len(sent))' = 1..(n + 1)
  BY <1>1
<1>5. TypeOK'
  <2>1. batch \in [Pollers -> SUBSET (1..n)] /\ held \subseteq 1..n /\ done \subseteq 1..n
    BY DEF IInv, TypeOK
  <2>2. batch' \in [Pollers -> SUBSET (1..Len(sent))']
    BY <2>1, <1>2, <1>3
  <2>3. (held \subseteq 1..Len(sent))' /\ (done \subseteq 1..Len(sent))'
    BY <2>1, <1>1, <1>2, <1>3
  <2>4. QED
    BY <2>2, <2>3, <1>1, <1>2 DEF IInv, TypeOK
<1> HIDE DEF n
<1>6. /\ n = Len(sent)
      /\ \A t \in Pollers : offset[t] \in Nat /\ batch[t] \subseteq 1..n
  BY DEF IInv, TypeOK, n
<1>7. NothingForgotten'
  BY <1>1, <1>2, <1>3, <1>6 DEF IInv, NothingForgotten
<1>8. OffsetInReach'
  BY <1>1, <1>2, <1>4, <1>6 DEF IInv, Tracked, OffsetInReach
<1>9. PastIsDone'
  <2> SUFFICES ASSUME NEW t \in Pollers, NEW u \in (1..n) \cup {n + 1},
                      u < offset[t], u \notin done
               PROVE  Busy(t, u)
    BY <1>2, <1>3 DEF PastIsDone, Busy
  <2>1. u \in 1..n
    BY <1>1, <1>6 DEF IInv, Tracked, OffsetInReach
  <2>2. QED
    BY <2>1, <1>6 DEF IInv, Tracked, PastIsDone
<1>10. NoGap'
  <2> SUFFICES ASSUME NEW t \in Pollers, NEW v \in (1..n) \cup {n + 1}, NEW u \in batch[t],
                      v < u, v \notin batch[t], v \notin done
               PROVE  Busy(t, v)
    BY <1>2, <1>3 DEF NoGap, Busy
  <2>1. v \in 1..n
    BY <1>1, <1>6
  <2>2. QED
    BY <2>1, <1>6 DEF IInv, Tracked, NoGap
<1>11. (BatchInPhase /\ BatchAhead /\ NotYet /\ DispatchedOnce)'
  BY <1>2 DEF IInv, Tracked, BatchInPhase, BatchAhead, NotYet, DispatchedOnce
<1>12. QED
  BY <1>5, <1>7, <1>8, <1>9, <1>10, <1>11 DEF IInv, Tracked

-----------------------------------------------------------------------------
(* getUpdates: what the server forgets lies below the offset of a poller   *)
(* that is between two answers, and so is done.                            *)

LEMMA AskedIsDone ==
    ASSUME IInv, NEW t \in Pollers, Asks(t), held' \in {held, From(t)},
           sent' = sent, done' = done
    PROVE  NothingForgotten' /\ held' \subseteq 1..Len(sent)
<1>1. \A u \in 1..Len(sent) : u < offset[t] => u \in done
  BY DEF IInv, Tracked, PastIsDone, Busy, Asks
<1>2. /\ held \subseteq 1..Len(sent) /\ offset[t] \in Nat /\ Len(sent) \in Nat
      /\ \A u \in 1..Len(sent) : u \notin held => u \in done
  BY DEF IInv, TypeOK, NothingForgotten
<1>3. From(t) \subseteq held /\ \A u \in held : u \notin From(t) => u < offset[t]
  BY <1>2 DEF From
<1>4. \A u \in 1..Len(sent) : u \notin held' => u \in done
  BY <1>1, <1>2, <1>3
<1>5. QED
  BY <1>2, <1>3, <1>4 DEF NothingForgotten

LEMMA ReceiveStep == ASSUME IInv, NEW t \in Pollers, Receive(t) PROVE IInv'
<1> USE Numbers
<1>1. NothingForgotten' /\ held' \subseteq 1..Len(sent)
  BY AskedIsDone DEF Receive
<1>2. TypeOK'
  BY <1>1 DEF IInv, TypeOK, Receive, Asks, From, Goto, Phases
<1>3. BatchAhead'
  BY DEF IInv, TypeOK, Tracked, BatchAhead, Receive, From
<1>4. NoGap'
  <2> SUFFICES ASSUME NEW s \in Pollers, NEW v \in 1..Len(sent), NEW u \in batch'[s],
                      v < u, v \notin batch'[s], v \notin done
               PROVE  Busy(s, v)'
    BY DEF NoGap, Receive
  <2>1. CASE s = t
    <3>1. v \notin From(t) /\ pc[t] = "poll"
      BY <2>1 DEF IInv, TypeOK, Receive, Asks
    <3>2. v \in held /\ v >= offset[t]
      <4>1. v \in held
        BY DEF IInv, NothingForgotten
      <4>2. ~(v < offset[t])
        BY <3>1 DEF IInv, Tracked, PastIsDone, Busy
      <4>3. offset[t] \in Nat /\ v \in Nat
        BY DEF IInv, TypeOK
      <4>4. QED
        BY <4>1, <4>2, <4>3
    <3>3. QED
      BY <3>1, <3>2 DEF From
  <2>2. CASE s # t
    BY <2>2 DEF IInv, TypeOK, Tracked, NoGap, Busy, Receive, Goto
  <2>3. QED
    BY <2>1, <2>2
<1>5. (BatchInPhase /\ OffsetInReach /\ PastIsDone /\ NotYet /\ DispatchedOnce)'
  BY DEF IInv, TypeOK, Tracked, BatchInPhase, OffsetInReach, PastIsDone, NotYet,
         DispatchedOnce, Busy, Receive, Asks, Goto
<1>6. QED
  BY <1>1, <1>2, <1>3, <1>4, <1>5 DEF IInv, Tracked

LEMMA RefusedStep == ASSUME IInv, NEW t \in Pollers, Refused(t) PROVE IInv'
<1> USE Numbers
<1>1. NothingForgotten' /\ held' \subseteq 1..Len(sent)
  BY AskedIsDone DEF Refused
<1>2. /\ pc[t] = "poll" /\ batch[t] = {}
      /\ UNCHANGED <<sent, home, running, rate, pc, batch, done>>
  BY DEF Refused, Asks, IInv, Tracked, BatchInPhase
<1>3. \/ /\ offset' = [offset EXCEPT ![t] = 0]
         /\ times' = [times EXCEPT ![t] = Never]
      \/ UNCHANGED <<offset, times>>
  BY DEF Refused
<1>4. errors' \in [Processes -> 0..MaxErrors + 1]
  <2>1. errors[home[t]] \in Nat
    BY DEF IInv, TypeOK
  <2>2. \/ errors' = [errors EXCEPT ![home[t]] = 0]
        \/ /\ errors[home[t]] + 1 <= MaxErrors
           /\ errors' = [errors EXCEPT ![home[t]] = errors[home[t]] + 1]
    BY <2>1 DEF Refused
  <2>3. PICK n \in 0..MaxErrors + 1 : errors' = [errors EXCEPT ![home[t]] = n]
    BY <2>1, <2>2
  <2>4. QED
    BY <2>3 DEF IInv, TypeOK
<1>5. TypeOK'
  <2>1. offset' \in [Pollers -> 0..LastUpdate + 1] /\ times' \in [Pollers -> [Ids -> 0..2]]
    <3>1. Never \in [Ids -> 0..2] /\ 0 \in 0..LastUpdate + 1
      BY DEF Never
    <3>2. QED
      BY <1>3, <3>1 DEF IInv, TypeOK
  <2>2. QED
    BY <1>1, <1>2, <1>4, <2>1 DEF IInv, TypeOK
<1>6. CASE UNCHANGED <<offset, times>>
  BY <1>1, <1>2, <1>5, <1>6 DEF IInv, Tracked, BatchInPhase, OffsetInReach, BatchAhead,
     PastIsDone, NoGap, NotYet, DispatchedOnce, Busy
<1>7. CASE /\ offset' = [offset EXCEPT ![t] = 0]
           /\ times' = [times EXCEPT ![t] = Never]
  <2>1. (BatchInPhase /\ OffsetInReach)'
    BY <1>2, <1>7 DEF IInv, TypeOK, Tracked, BatchInPhase, OffsetInReach
  <2>2. (BatchAhead /\ PastIsDone /\ NoGap)'
    BY <1>2, <1>7 DEF IInv, TypeOK, Tracked, BatchAhead, PastIsDone, NoGap, Busy
  <2>3. (NotYet /\ DispatchedOnce)'
    BY <1>2, <1>7 DEF IInv, TypeOK, Tracked, NotYet, DispatchedOnce, Never
  <2>4. QED
    BY <1>1, <1>5, <2>1, <2>2, <2>3 DEF IInv, Tracked
<1>8. QED
  BY <1>3, <1>6, <1>7

LEMMA UnansweredStep == ASSUME IInv, NEW t \in Pollers, Unanswered(t) PROVE IInv'
<1> USE Numbers
<1>1. NothingForgotten' /\ held' \subseteq 1..Len(sent)
  BY AskedIsDone DEF Unanswered
<1>2. TypeOK'
  BY <1>1 DEF IInv, TypeOK, Unanswered, Asks, More, poller
<1>3. Tracked'
  BY DEF IInv, Tracked, BatchInPhase, OffsetInReach, BatchAhead, PastIsDone, NoGap,
         NotYet, DispatchedOnce, Busy, Unanswered, poller
<1>4. QED
  BY <1>1, <1>2, <1>3 DEF IInv

-----------------------------------------------------------------------------
(* The updates of an answer *)

LEMMA LookAtStep == ASSUME IInv, NEW t \in Pollers, LookAt(t) PROVE IInv'
<1> USE Numbers
<1> PICK u \in Ids :
      LET m == sent[u]
          h == home[t]
          heard == m.kind # "other" /\ rate[h][m.chat] = 0
      IN
      /\ pc[t] = "batch"
      /\ First(u, batch[t])
      /\ offset' = [offset EXCEPT ![t] = u + 1]
      /\ batch' = [batch EXCEPT ![t] = @ \ {u}]
      /\ rate' = IF heard THEN [rate EXCEPT ![h][m.chat] = Cooldown] ELSE rate
      /\ IF heard /\ m.kind = "command"
         THEN /\ Goto(t, "dispatch")
              /\ times' = [times EXCEPT ![t][u] = Once(@)]
              /\ UNCHANGED done
         ELSE /\ AfterUpdate(t, batch[t] \ {u})
              /\ done' = done \cup {u}
              /\ UNCHANGED times
      /\ UNCHANGED <<server, home, running, errors>>
  BY DEF LookAt
<1>1. /\ pc[t] = "batch" /\ u \in batch[t] /\ u \in 1..Len(sent)
      /\ u >= offset[t] /\ times[t][u] = 0
      /\ \A v \in batch[t] : u <= v
  BY DEF First, IInv, TypeOK, Tracked, BatchAhead, NotYet
<1>2. /\ offset' = [offset EXCEPT ![t] = u + 1]
      /\ batch' = [batch EXCEPT ![t] = @ \ {u}]
      /\ UNCHANGED <<sent, held, home, running, errors>>
  BY DEF server
<1>3. \/ /\ pc' = [pc EXCEPT ![t] = "dispatch"]
         /\ times' = [times EXCEPT ![t][u] = 1]
         /\ done' = done
      \/ /\ pc' = [pc EXCEPT ![t] = IF batch'[t] = {} THEN "poll" ELSE "batch"]
         /\ times' = times
         /\ done' = done \cup {u}
  BY <1>1 DEF Goto, AfterUpdate, Once, IInv, TypeOK
<1>4. rate' \in [Processes -> [Chats -> 0..Cooldown]]
  <2>1. rate' \in {rate, [rate EXCEPT ![home[t]][sent[u].chat] = Cooldown]}
    OBVIOUS
  <2>2. rate \in [Processes -> [Chats -> 0..Cooldown]] /\ Cooldown \in 0..Cooldown
    BY DEF IInv, TypeOK
  <2>3. QED
    BY <2>1, <2>2
<1>5. TypeOK'
  <2>1. (sent \in Seq(Messages) /\ Len(sent) <= LastUpdate /\ held \subseteq 1..Len(sent)
         /\ home \in [Pollers -> Processes] /\ running \in [Processes -> BOOLEAN]
         /\ errors \in [Processes -> 0..MaxErrors + 1])'
    BY <1>2 DEF IInv, TypeOK
  <2>2. offset' \in [Pollers -> 0..LastUpdate + 1]
    <3>1. u + 1 \in 0..LastUpdate + 1
      BY DEF Ids
    <3>2. QED
      BY <1>2, <3>1 DEF IInv, TypeOK
  <2>3. batch' \in [Pollers -> SUBSET (1..Len(sent))]
    BY <1>2 DEF IInv, TypeOK
  <2>4. pc' \in [Pollers -> Phases]
    BY <1>3 DEF IInv, TypeOK, Phases
  <2>5. done' \subseteq 1..Len(sent)
    BY <1>1, <1>3 DEF IInv, TypeOK
  <2>6. times' \in [Pollers -> [Ids -> 0..2]]
    <3>1. times[t] \in [Ids -> 0..2] /\ [times[t] EXCEPT ![u] = 1] \in [Ids -> 0..2]
      BY DEF IInv, TypeOK
    <3>2. \/ times' = times
          \/ times' = [times EXCEPT ![t] = [times[t] EXCEPT ![u] = 1]]
      BY <1>3
    <3>3. QED
      BY <3>1, <3>2 DEF IInv, TypeOK
  <2>7. QED
    BY <1>2, <1>4, <2>1, <2>2, <2>3, <2>4, <2>5, <2>6 DEF TypeOK
<1>6. NothingForgotten'
  BY <1>2, <1>3 DEF IInv, NothingForgotten
<1>7. (BatchInPhase /\ OffsetInReach /\ BatchAhead)'
  <2>0. \A s \in Pollers : offset[s] \in Nat /\ batch[s] \subseteq Nat
    BY DEF IInv, TypeOK
  <2>1. BatchInPhase'
    BY <1>2, <1>3 DEF IInv, TypeOK, Tracked, BatchInPhase
  <2>2. OffsetInReach'
    <3> SUFFICES ASSUME NEW s \in Pollers
                 PROVE  /\ offset'[s] <= Len(sent) + 1
                        /\ pc'[s] = "dispatch" => offset'[s] - 1 \in 1..Len(sent)
      BY <1>2 DEF OffsetInReach
    <3>1. CASE s = t
      <4>1. offset'[s] = u + 1
        BY <1>2, <3>1 DEF IInv, TypeOK
      <4>2. QED
        BY <4>1, <1>1
    <3>2. CASE s # t
      <4>1. offset'[s] = offset[s] /\ pc'[s] = pc[s]
        BY <1>2, <1>3, <3>2 DEF IInv, TypeOK
      <4>2. QED
        BY <4>1 DEF IInv, Tracked, OffsetInReach
    <3>3. QED
      BY <3>1, <3>2
  <2>3. BatchAhead'
    <3> SUFFICES ASSUME NEW s \in Pollers, NEW v \in batch'[s] PROVE v >= offset'[s]
      BY DEF BatchAhead
    <3>1. CASE s = t
      <4>1. offset'[s] = u + 1 /\ v \in batch[t] /\ v # u
        BY <1>2, <3>1 DEF IInv, TypeOK
      <4>2. v >= u + 1
        BY <4>1, <1>1, <2>0
      <4>3. QED
        BY <4>1, <4>2
    <3>2. CASE s # t
      BY <1>2, <3>2 DEF IInv, TypeOK, Tracked, BatchAhead
    <3>3. QED
      BY <3>1, <3>2
  <2>4. QED
    BY <2>1, <2>2, <2>3
<1>8. (NotYet /\ DispatchedOnce)'
  <2>1. times[t] \in [Ids -> 0..2] /\ times \in [Pollers -> [Ids -> 0..2]] /\ offset[t] \in Nat
    BY DEF IInv, TypeOK
  <2>2. DispatchedOnce'
    BY <2>1, <1>3 DEF IInv, Tracked, DispatchedOnce
  <2>3. NotYet'
    <3> SUFFICES ASSUME NEW s \in Pollers, NEW v \in Ids, v >= offset'[s]
                 PROVE  times'[s][v] = 0
      BY DEF NotYet
    <3>1. CASE s = t
      <4>1. offset'[s] = u + 1
        BY <1>2, <3>1 DEF IInv, TypeOK
      <4>2. v >= u + 1
        BY <4>1
      <4>3. v # u /\ v >= offset[t]
        BY <4>2, <2>1, <1>1 DEF Ids
      <4>4. times'[s][v] = times[t][v]
        BY <3>1, <4>3, <2>1, <1>3
      <4>5. QED
        BY <4>3, <4>4 DEF IInv, Tracked, NotYet
    <3>2. CASE s # t
      <4>1. offset'[s] = offset[s] /\ times'[s] = times[s]
        BY <1>2, <1>3, <3>2, <2>1 DEF IInv, TypeOK
      <4>2. QED
        BY <4>1 DEF IInv, Tracked, NotYet
    <3>3. QED
      BY <3>1, <3>2
  <2>4. QED
    BY <2>2, <2>3
<1>9. PastIsDone'
  <2> SUFFICES ASSUME NEW s \in Pollers, NEW v \in 1..Len(sent), v < offset'[s],
                      v \notin done'
               PROVE  pc'[s] = "dispatch" /\ v = offset'[s] - 1
    BY <1>2 DEF PastIsDone, Busy
  <2>1. CASE s # t
    BY <2>1, <1>2, <1>3 DEF IInv, TypeOK, Tracked, PastIsDone, Busy
  <2>2. CASE s = t /\ v # u
    <3>1. offset'[s] = u + 1
      BY <2>2, <1>2 DEF IInv, TypeOK
    <3>2. v < u /\ v \notin batch[t]
      BY <3>1, <2>2, <1>1
    <3>3. v \notin done /\ ~Busy(t, v)
      BY <1>1, <1>3 DEF Busy
    <3>4. QED
      BY <3>2, <3>3, <1>1 DEF IInv, Tracked, NoGap
  <2>3. CASE s = t /\ v = u
    BY <2>3, <1>1, <1>2, <1>3 DEF IInv, TypeOK
  <2>4. QED
    BY <2>1, <2>2, <2>3
<1>10. NoGap'
  <2> SUFFICES ASSUME NEW s \in Pollers, NEW v \in 1..Len(sent), NEW w \in batch'[s],
                      v < w, v \notin batch'[s], v \notin done'
               PROVE  pc'[s] = "dispatch" /\ v = offset'[s] - 1
    BY <1>2 DEF NoGap, Busy
  <2>1. CASE s # t
    BY <2>1, <1>2, <1>3 DEF IInv, TypeOK, Tracked, NoGap, Busy
  <2>2. CASE s = t /\ v # u
    BY <2>2, <1>1, <1>2, <1>3 DEF IInv, TypeOK, Tracked, NoGap, Busy
  <2>3. CASE s = t /\ v = u
    BY <2>3, <1>1, <1>2, <1>3 DEF IInv, TypeOK
  <2>4. QED
    BY <2>1, <2>2, <2>3
<1>11. QED
  BY <1>5, <1>6, <1>7, <1>8, <1>9, <1>10 DEF IInv, Tracked

\* Handled or not, the update is done.
LEMMA HandledStep == ASSUME IInv, NEW t \in Pollers, Handled(t) PROVE IInv'
<1> USE Numbers
<1>1. /\ pc[t] = "dispatch"
      /\ offset[t] - 1 \in 1..Len(sent)
      /\ done' = done \cup {offset[t] - 1}
      /\ UNCHANGED <<sent, held, home, running, errors, rate, offset, batch, times>>
  BY DEF Handled, IInv, Tracked, OffsetInReach, server, shared
<1>2. pc' = [pc EXCEPT ![t] = IF batch[t] = {} THEN "poll" ELSE "batch"]
  BY DEF Handled, AfterUpdate, Goto
<1>3. TypeOK'
  BY <1>1, <1>2 DEF IInv, TypeOK, Phases
<1>4. (NothingForgotten /\ Tracked)'
  BY <1>1, <1>2 DEF IInv, TypeOK, NothingForgotten, Tracked, BatchInPhase, OffsetInReach,
         BatchAhead, PastIsDone, NoGap, NotYet, DispatchedOnce, Busy
<1>5. QED
  BY <1>3, <1>4 DEF IInv

LEMMA HandlerRaisesStep == ASSUME IInv, NEW t \in Pollers, HandlerRaises(t) PROVE IInv'
<1> USE Numbers
<1>1. /\ pc[t] = "dispatch"
      /\ offset[t] - 1 \in 1..Len(sent)
      /\ done' = done \cup {offset[t] - 1}
      /\ batch' = [batch EXCEPT ![t] = {}]
      /\ UNCHANGED <<sent, held, home, running, rate, offset, times>>
  BY DEF HandlerRaises, IInv, Tracked, OffsetInReach, server
<1>2. pc' = [pc EXCEPT ![t] = "poll"] /\ errors' \in [Processes -> 0..MaxErrors + 1]
  BY DEF HandlerRaises, Goto, More, IInv, TypeOK
<1>3. TypeOK'
  BY <1>1, <1>2 DEF IInv, TypeOK, Phases
<1>4. (NothingForgotten /\ Tracked)'
  BY <1>1, <1>2 DEF IInv, TypeOK, NothingForgotten, Tracked, BatchInPhase, OffsetInReach,
         BatchAhead, PastIsDone, NoGap, NotYet, DispatchedOnce, Busy
<1>5. QED
  BY <1>3, <1>4 DEF IInv

-----------------------------------------------------------------------------
LEMMA NextIInv == IInv /\ [Next]_vars => IInv'
<1> SUFFICES ASSUME IInv, [Next]_vars PROVE IInv'
  OBVIOUS
<1>1. CASE UNCHANGED vars
  BY <1>1 DEF vars, IInv, TypeOK, NothingForgotten, Tracked, BatchInPhase, OffsetInReach,
              BatchAhead, PastIsDone, NoGap, NotYet, DispatchedOnce, Busy
<1>2. ASSUME NEW t \in Pollers,
             Start(t) \/ Receive(t) \/ Refused(t) \/ Unanswered(t) \/ Work(t)
      PROVE  IInv'
  BY <1>2, StartStep, ReceiveStep, RefusedStep, UnansweredStep, BeginStep, LookAtStep,
     HandledStep, HandlerRaisesStep, LeaveStep DEF Work
<1>3. ASSUME NEW h \in Processes, Stop(h) \/ Crash(h) PROVE IInv'
  BY <1>3, StopStep, CrashStep
<1>4. QED
  BY <1>1, <1>2, <1>3, SendStep, TickStep DEF Next

\* What an offset means is an invariant of every behaviour (bot_control.py:997): all
\* below it is done but for the dispatch under way, all that waits is above it.
THEOREM OffsetsAreTrue == Spec => []IInv
BY InitIInv, NextIInv, PTL DEF Spec

\* The types of the bot's variables, for any pollers, processes and messages.
THEOREM BotTyped == Spec => []TypeOK
<1>1. IInv => TypeOK
  BY DEF IInv
<1>2. QED
  BY <1>1, OffsetsAreTrue, PTL

\* The server forgets no update before some poller is through with it, however many
\* pollers share the queue and whatever fails (bot_control.py:977-978, 997).
THEOREM ServerForgetsWhatIsDone == Spec => []NothingForgotten
<1>1. IInv => NothingForgotten
  BY DEF IInv
<1>2. QED
  BY <1>1, OffsetsAreTrue, PTL

\* No poller dispatches a command twice between two resets of its offset
\* (bot_control.py:997).
THEOREM NoCommandTwice == Spec => []DispatchedOnce
<1>1. IInv => DispatchedOnce
  BY DEF IInv, Tracked
<1>2. QED
  BY <1>1, OffsetsAreTrue, PTL

-----------------------------------------------------------------------------
(* Alerts: the control of the threads *)

Writing(a) == at[a] \in {"dump", "move"}
InUse(a) ==
    \/ at[a] \in {"look", "default", "fill", "use", "posting"}
    \/ Writing(a) /\ local[a].next = "use"

UserShape == \A p \in Procs :
    /\ at[User(p)] \notin {"asleep", "dead"}
    /\ at[User(p)] = "fill" => local[User(p)].copy # None
    /\ at[User(p)] \in {"use", "posting", "dump", "move"} => cache[p].data # None
    /\ at[User(p)] \in {"look", "default", "fill"} => ~Fresh(p)
FlushShape == \A p \in Procs :
    /\ at[Flusher(p)] \in {"asleep", "dump", "move", "dead"}
    /\ local[Flusher(p)].next = "idle"
\* The bot records nothing: it writes the list only to save a default.
BotShape ==
    /\ at[User("bot")] # "posting"
    /\ Writing(User("bot")) => local[User("bot")].next = "use"
\* The proxy has a number left for the alert at hand.
Room ==
    /\ at[User("proxy")] = "posting" => local[User("proxy")].cfg # None
    /\ InUse(User("proxy")) /\ local[User("proxy")].cfg # None => Newest < MaxAlerts
AlertsShape == UserShape /\ FlushShape /\ BotShape /\ Room

-----------------------------------------------------------------------------
(* Lists: in order, past an alert or not yet, one later than another *)

List == cache["proxy"].data
Full(seq) == Len(seq) = MaxRecent
Sorted(seq, ids) ==
    /\ \A i, j \in 1 .. Len(seq) : i < j => seq[i] < seq[j]
    /\ \A i \in 1 .. Len(seq) : seq[i] \in ids
\* The list has alert n, or had it and has been filled with later ones.
Covers(seq, n) == (\E i \in 1 .. Len(seq) : seq[i] = n) \/ (Full(seq) /\ n < seq[1])
Follows(old, new) == Full(old) => new # None /\ Full(new) /\ old[1] <= new[1]

-----------------------------------------------------------------------------
(* What holds as long as nothing is upset *)

QuietBot == ~dirty["bot"] /\ at[Flusher("bot")] = "asleep" /\ at[Flusher("proxy")] # "dead"
OneMove == \A a, b \in Actors : at[a] = "move" /\ at[b] = "move" => a = b
\* A save less than Gap ago is still in the cache.
SavedInCache == \A p \in Procs :
    lastSave[p] < Gap => cache[p].data # None /\ cache[p].age <= lastSave[p]
FileMade ==
    /\ \A p \in Procs : cache[p].data # None /\ file = None =>
           Writing(User(p)) /\ local[User(p)].next = "use"
    /\ \A p \in Procs : at[User(p)] = "fill" => file # None
    /\ Known # {} => file # None
\* The flush thread comes for a dirty list before it can expire.
DirtyList ==
    LET U == User("proxy")  F == Flusher("proxy") IN
    /\ dirty["proxy"] \/ Writing(F) => List # None /\ cache["proxy"].age <= Pause
    /\ dirty["proxy"] => ~Writing(U)
    /\ dirty["proxy"] /\ at[F] = "asleep" => cache["proxy"].age + local[F].wait <= Pause
    /\ dirty["proxy"] /\ Writing(F) => cache["proxy"].age = 0
\* The file, the copy under way and the cached list, each no later than the next
InOrder ==
    LET U == User("proxy")  F == Flusher("proxy") IN
    /\ List # None => Sorted(List, Known) /\ (file # None => Follows(file, List))
    /\ file # None => Sorted(file, Known)
    /\ at[U] = "fill" => local[U].copy = file
    /\ at[U] = "move" => local[U].copy = List
    /\ at[F] = "move" => /\ local[F].copy # None
                         /\ Sorted(local[F].copy, Known)
                         /\ file # None => Follows(file, local[F].copy)
                         /\ Follows(local[F].copy, List)
\* Where each alert is, and until when it may be missing in the file
OnDisk ==
    LET U == User("proxy")  F == Flusher("proxy") IN
    \A n \in Known :
    /\ List # None => Covers(List, n)
    /\ at[F] = "move" =>
           Covers(local[F].copy, n) \/ (log[n] = 0 /\ (dirty["proxy"] \/ at[U] = "dump"))
    /\ ~Writing(U) /\ ~Writing(F) =>
           Covers(file, n) \/ (dirty["proxy"] /\ log[n] + local[F].wait <= Pause)
    /\ Writing(U) \/ Writing(F) => Covers(file, n) \/ log[n] <= Pause
\* What the bot has in its cache it has from the file, age ticks ago.
BotCopy ==
    LET B == User("bot")  data == cache["bot"].data IN
    /\ at[B] = "use" \/ Writing(B) => cache["bot"].age < Ttl
    /\ Writing(B) => data = <<>>
    /\ at[B] = "move" => local[B].copy = <<>>
    /\ at[B] = "fill" => /\ Follows(local[B].copy, file)
                         /\ \A n \in Known : log[n] > Pause => Covers(local[B].copy, n)
    /\ data # None =>
           /\ Follows(data, file)
           /\ cache["bot"].age < Ttl =>
                  \A n \in Known : log[n] > Pause + cache["bot"].age => Covers(data, n)
AlertsHeld ==
    /\ QuietBot /\ OneMove /\ SavedInCache /\ FileMade
    /\ DirtyList /\ InOrder /\ OnDisk /\ BotCopy
AlertsIInv == AlertsTypeOK /\ AlertsShape /\ (upset = {} => AlertsHeld)

-----------------------------------------------------------------------------
(* Constants, actors, sequences *)

LEMMA AlertConstants ==
    /\ MaxAlerts \in Nat /\ MaxAlerts > 0
    /\ MaxRecent \in Nat /\ MaxRecent > 0
    /\ Ttl \in Nat /\ Ttl > 0
    /\ Gap \in Nat /\ Gap > 0 /\ Gap < Ttl
    /\ Pause \in Nat /\ Pause > 0 /\ Pause < Ttl
    /\ AlertCooldown \in Nat /\ AlertCooldown > 0
    /\ Old \in Nat /\ Old = Pause + Ttl + 1
    /\ None \notin Configs /\ None \notin Recent /\ None \notin Nat
BY AlertsAssumption DEF Old

LEMMA AlertActors ==
    /\ Procs = {"proxy", "bot"}
    /\ \A p \in Procs : /\ User(p) \in Actors /\ User(p)[1] = p /\ User(p)[2] = "user"
                        /\ Flusher(p) \in Actors /\ Flusher(p)[1] = p /\ Flusher(p)[2] = "flush"
    /\ \A p \in Procs, q \in Procs : /\ User(p) # Flusher(q)
                                     /\ User(p) = User(q) => p = q
                                     /\ Flusher(p) = Flusher(q) => p = q
    /\ \A a \in Actors : \E p \in Procs : a = User(p) \/ a = Flusher(p)
BY DEF Actors, Procs, User, Flusher

LEMMA NoLocalsFacts ==
    /\ NoLocals \in Local
    /\ [NoLocals EXCEPT !.wait = Pause] \in Local
    /\ \A c \in Configs : [NoLocals EXCEPT !.cfg = c] \in Local
    /\ NoLocals.cfg = None /\ NoLocals.copy = None /\ NoLocals.wait = 0 /\ NoLocals.next = "idle"
BY AlertConstants DEF NoLocals, Local

LEMMA RecentFacts ==
    /\ <<>> \in Recent
    /\ \A seq \in Recent : /\ seq \in Seq(AlertIds) /\ Len(seq) \in Nat /\ Len(seq) <= MaxRecent
                           /\ \A i \in 1 .. Len(seq) : seq[i] \in AlertIds /\ seq[i] \in Nat
                           /\ Len(seq) = MaxRecent => 1 \in 1 .. Len(seq)
<1>1. <<>> \in Recent
  <2>1. <<>> \in [1 .. 0 -> AlertIds]
    OBVIOUS
  <2>. QED
    BY <2>1, AlertConstants DEF Recent, SeqOf
<1>2. ASSUME NEW seq \in Recent
      PROVE  /\ seq \in Seq(AlertIds) /\ Len(seq) \in Nat /\ Len(seq) <= MaxRecent
             /\ \A i \in 1 .. Len(seq) : seq[i] \in AlertIds /\ seq[i] \in Nat
             /\ Len(seq) = MaxRecent => 1 \in 1 .. Len(seq)
  <2>1. PICK m \in 0 .. MaxRecent : seq \in [1 .. m -> AlertIds]
    BY DEF Recent, SeqOf
  <2>2. seq \in Seq(AlertIds) /\ Len(seq) = m
    BY <2>1, AlertConstants
  <2>3. \A i \in 1 .. m : seq[i] \in AlertIds /\ seq[i] \in Nat
    BY <2>1 DEF AlertIds
  <2>. QED
    BY <2>2, <2>3, AlertConstants
<1>. QED
  BY <1>1, <1>2

LEMMA SeqIsRecent ==
    ASSUME NEW seq \in Seq(AlertIds), Len(seq) <= MaxRecent
    PROVE  seq \in Recent
<1>1. Len(seq) \in 0 .. MaxRecent /\ seq \in [1 .. Len(seq) -> AlertIds]
  BY AlertConstants
<1>. QED
  BY <1>1 DEF Recent, SeqOf

\* The list with one more alert at its end
LEMMA LastOfFacts ==
    ASSUME NEW seq \in Recent, NEW n \in AlertIds, NEW new, new = LastOf(Append(seq, n))
    PROVE  /\ new \in Recent
           /\ ~Full(seq) => Len(new) = Len(seq) + 1 /\ \A i \in 1 .. Len(seq) : new[i] = seq[i]
           /\ Full(seq) => Full(new) /\ \A i \in 1 .. MaxRecent - 1 : new[i] = seq[i + 1]
           /\ new[Len(new)] = n /\ Len(new) > 0
<1> DEFINE long == Append(seq, n)
<1>1. /\ seq \in Seq(AlertIds) /\ Len(seq) \in Nat /\ Len(seq) <= MaxRecent
  BY RecentFacts
<1>2. /\ long \in Seq(AlertIds) /\ Len(long) = Len(seq) + 1
      /\ \A i \in 1 .. Len(seq) : long[i] = seq[i]
      /\ long[Len(seq) + 1] = n
  BY <1>1
<1>3. CASE ~Full(seq)
  <2>1. new = long
    BY <1>1, <1>2, <1>3, AlertConstants DEF LastOf, Full
  <2>2. new \in Seq(AlertIds) /\ Len(new) = Len(seq) + 1 /\ new[Len(seq) + 1] = n
      /\ \A i \in 1 .. Len(seq) : new[i] = seq[i]
    BY <2>1, <1>2
  <2>3. Len(new) <= MaxRecent
    BY <2>2, <1>1, <1>3, AlertConstants DEF Full
  <2>. QED
    BY <1>1, <1>3, <2>2, <2>3, SeqIsRecent
<1>4. CASE Full(seq)
  <2>1. Len(seq) = MaxRecent
    BY <1>4 DEF Full
  <2>2. new = SubSeq(long, 2, MaxRecent + 1)
    BY <1>2, <2>1, AlertConstants DEF LastOf
  <2> HIDE DEF long
  <2>3. new \in Seq(AlertIds) /\ Len(new) = MaxRecent
      /\ \A i \in 1 .. MaxRecent : new[i] = long[i + 1]
    BY <2>2, <2>1, <1>2, AlertConstants
  <2>4. \A i \in 1 .. MaxRecent - 1 : new[i] = seq[i + 1]
    <3>1. \A i \in 1 .. MaxRecent - 1 : i + 1 \in 1 .. Len(seq) /\ i \in 1 .. MaxRecent
      BY <2>1, AlertConstants
    <3>. QED
      BY <3>1, <2>3, <1>2
  <2>5. new[MaxRecent] = n
    BY <2>3, <2>1, <1>2, AlertConstants
  <2>. QED
    BY <1>4, <2>3, <2>4, <2>5, SeqIsRecent, AlertConstants DEF Full
<1>. QED
  BY <1>3, <1>4

LEMMA MaxFacts ==
    ASSUME NEW S \in SUBSET AlertIds
    PROVE  Max(S \cup {0}) \in S \cup {0} /\ \A n \in S \cup {0} : n <= Max(S \cup {0})
<1> DEFINE gaps == {k \in Nat : \E n \in S \cup {0} : n + k = MaxAlerts}
<1>1. \A n \in S \cup {0} : n \in Nat /\ n <= MaxAlerts
  BY AlertConstants DEF AlertIds
<1>2. MaxAlerts \in gaps /\ gaps \subseteq Nat
  BY AlertConstants
<1>3. PICK k \in gaps : \A other \in gaps : ~(<<other, k>> \in OpToRel(<, Nat))
  <2> HIDE DEF gaps
  <2>. QED
    BY <1>2, NatLessThanWellFounded, WFMin
<1>4. \A other \in gaps : k <= other
  <2>1. TAKE other \in gaps
  <2>2. k \in Nat /\ other \in Nat /\ ~(other < k)
    BY <1>2, <1>3 DEF OpToRel
  <2>. QED
    BY <2>2
<1>5. PICK top \in S \cup {0} : top + k = MaxAlerts
  BY DEF gaps
<1>6. \A n \in S \cup {0} : n <= top
  <2>1. TAKE n \in S \cup {0}
  <2>2. MaxAlerts - n \in gaps
    BY <1>1, AlertConstants
  <2>. QED
    BY <2>2, <1>1, <1>4, <1>5, <1>2, AlertConstants
<1>7. \E x \in S \cup {0} : \A y \in S \cup {0} : x >= y
  BY <1>1, <1>5, <1>6
<1>. QED
  BY <1>7, <1>1 DEF Max

LEMMA NewestFacts ==
    /\ Newest \in Nat /\ Newest <= MaxAlerts
    /\ \A n \in Known : n <= Newest /\ n \in AlertIds /\ n \in Nat
    /\ Newest + 1 \notin Known
<1>1. Known \subseteq AlertIds
  BY DEF Known
<1>2. Newest \in Known \cup {0} /\ \A n \in Known \cup {0} : n <= Newest
  BY <1>1, MaxFacts DEF Newest
<1>3. \A n \in Known \cup {0} : n \in Nat /\ n <= MaxAlerts
  BY <1>1, AlertConstants DEF AlertIds
<1>4. Newest + 1 \notin Known
  <2>1. Newest \in Nat
    BY <1>2, <1>3
  <2>2. ~(Newest + 1 <= Newest)
    BY <2>1
  <2>. QED
    BY <1>2, <2>2
<1>. QED
  BY <1>1, <1>2, <1>3, <1>4

-----------------------------------------------------------------------------
(* What each action does, thread by thread; and every step keeps the types *)

Others(a) == \A b \in Actors : b # a => at'[b] = at[b] /\ local'[b] = local[b]
SameLocals(a) == local'[a].cfg = local[a].cfg /\ local'[a].wait = local[a].wait

LEMMA TypeFacts ==
    ASSUME AlertsTypeOK
    PROVE  /\ \A p \in Procs : /\ cache[p].data \in Recent \cup {None}
                               /\ cache[p].age \in Nat /\ cache[p].age <= Ttl
                               /\ lastSave[p] \in Nat /\ lastSave[p] <= Gap
                               /\ dirty[p] \in BOOLEAN
           /\ file \in Recent \cup {None}
           /\ \A a \in Actors : /\ local[a] \in Local /\ at[a] \in Stages
                                /\ local[a].copy \in Recent \cup {None}
                                /\ local[a].wait \in Nat /\ local[a].wait <= Pause
                                /\ local[a].next \in {"use", "idle"}
           /\ \A n \in Known : log[n] \in Nat /\ log[n] <= Old /\ log[n] # None
           /\ \A n \in AlertIds : n \in Known <=> log[n] # None
BY AlertConstants DEF AlertsTypeOK, Local, Known

LEMMA LoadFacts ==
    ASSUME AlertsTypeOK, NEW p \in Procs, NEW mine \in Local, Load(p, mine)
    PROVE  /\ AlertsTypeOK'
           /\ at'[User(p)] = IF Fresh(p) THEN "use" ELSE "look"
           /\ local'[User(p)] = mine
           /\ Others(User(p))
           /\ UNCHANGED <<file, cache, dirty, lastSave, log, upset>>
BY AlertActors DEF Load, Reach, AlertsTypeOK, Others, Stages, history

LEMMA LookFacts ==
    ASSUME AlertsTypeOK, NEW p \in Procs, Look(p)
    PROVE  /\ AlertsTypeOK'
           /\ at[User(p)] = "look"
           /\ file = None => at'[User(p)] = "default" /\ local' = local
           /\ file # None => at'[User(p)] = "fill" /\ local'[User(p)].copy = file
           /\ SameLocals(User(p)) /\ Others(User(p))
           /\ UNCHANGED <<file, cache, dirty, lastSave, log, upset>>
<1>1. at[User(p)] = "look" /\ UNCHANGED <<file, cache, dirty, lastSave, cooling, setting, log, upset>>
  BY DEF Look, history
<1>2. User(p) \in Actors /\ local[User(p)] \in Local
  BY AlertActors, TypeFacts
<1>3. CASE file = None
  <2>1. Reach(User(p), "default") /\ local' = local
    BY <1>3 DEF Look
  <2>2. at' \in [Actors -> Stages] /\ at'[User(p)] = "default"
        /\ \A b \in Actors : b # User(p) => at'[b] = at[b]
    BY <1>2, <2>1 DEF Reach, AlertsTypeOK, Stages
  <2>. QED
    BY <1>1, <1>3, <2>1, <2>2 DEF AlertsTypeOK, SameLocals, Others
<1>4. CASE file # None
  <2>1. Reach(User(p), "fill") /\ local' = [local EXCEPT ![User(p)] = [local[User(p)] EXCEPT !.copy = file]]
    BY <1>4 DEF Look
  <2>2. at' \in [Actors -> Stages] /\ at'[User(p)] = "fill"
        /\ \A b \in Actors : b # User(p) => at'[b] = at[b]
    BY <1>2, <2>1 DEF Reach, AlertsTypeOK, Stages
  <2>3. [local[User(p)] EXCEPT !.copy = file] \in Local
    BY <1>2, TypeFacts DEF Local
  <2>4. local' \in [Actors -> Local] /\ local'[User(p)].copy = file /\ SameLocals(User(p))
        /\ \A b \in Actors : b # User(p) => local'[b] = local[b]
    BY <1>2, <2>1, <2>3 DEF AlertsTypeOK, SameLocals, Local
  <2>. QED
    BY <1>1, <1>4, <2>2, <2>4 DEF AlertsTypeOK, Others
<1>. QED
  BY <1>3, <1>4

LEMMA FillFacts ==
    ASSUME AlertsTypeOK, AlertsShape, NEW p \in Procs, Fill(p)
    PROVE  /\ AlertsTypeOK'
           /\ at[User(p)] = "fill" /\ at'[User(p)] = "use"
           /\ cache'[p].data = local[User(p)].copy /\ cache'[p].age = 0
           /\ \A q \in Procs : q # p => cache'[q] = cache[q]
           /\ SameLocals(User(p)) /\ Others(User(p))
           /\ UNCHANGED <<file, dirty, lastSave, log, upset>>
<1>1. local[User(p)].copy \in Recent
  BY AlertActors, TypeFacts DEF Fill, AlertsShape, UserShape
<1>2. local[User(p)] \in Local
  BY AlertActors, TypeFacts
<1>3. [local[User(p)] EXCEPT !.copy = None] \in Local
  BY <1>2 DEF Local
<1>4. local' = [local EXCEPT ![User(p)] = [local[User(p)] EXCEPT !.copy = None]]
  BY DEF Fill
<1>5. local' \in [Actors -> Local] /\ SameLocals(User(p))
      /\ \A b \in Actors : b # User(p) => local'[b] = local[b]
  BY <1>2, <1>3, <1>4, AlertActors DEF AlertsTypeOK, SameLocals, Local
<1>6. at' \in [Actors -> Stages] /\ at[User(p)] = "fill" /\ at'[User(p)] = "use"
      /\ \A b \in Actors : b # User(p) => at'[b] = at[b]
  BY AlertActors DEF AlertsTypeOK, Fill, Reach, Stages
<1>7. cache' \in [Procs -> [data : Recent \cup {None}, age : 0 .. Ttl]]
      /\ cache'[p].data = local[User(p)].copy /\ cache'[p].age = 0
      /\ \A q \in Procs : q # p => cache'[q] = cache[q]
  BY <1>1, AlertConstants DEF AlertsTypeOK, Fill
<1>. QED
  BY <1>5, <1>6, <1>7 DEF AlertsTypeOK, Fill, Others, history

LEMMA SaveFacts ==
    ASSUME AlertsTypeOK, NEW p \in Procs, NEW data \in Recent, NEW after \in {"use", "idle"},
           Save(p, data, after)
    PROVE  /\ cache' \in [Procs -> [data : Recent \cup {None}, age : 0 .. Ttl]]
           /\ dirty' \in [Procs -> BOOLEAN] /\ lastSave' \in [Procs -> 0 .. Gap]
           /\ at' \in [Actors -> Stages] /\ local' \in [Actors -> Local]
           /\ cache'[p].data = data /\ cache'[p].age = 0
           /\ \A q \in Procs : q # p => /\ cache'[q] = cache[q] /\ dirty'[q] = dirty[q]
                                        /\ lastSave'[q] = lastSave[q]
           /\ lastSave[p] < Gap => dirty'[p] /\ lastSave'[p] = lastSave[p] /\ at'[User(p)] = after
           /\ ~(lastSave[p] < Gap) => ~dirty'[p] /\ lastSave'[p] = 0 /\ at'[User(p)] = "dump"
           /\ local'[User(p)].next = after
           /\ SameLocals(User(p)) /\ Others(User(p))
<1>1. cache' \in [Procs -> [data : Recent \cup {None}, age : 0 .. Ttl]]
      /\ cache'[p].data = data /\ cache'[p].age = 0
      /\ \A q \in Procs : q # p => cache'[q] = cache[q]
  BY AlertConstants DEF AlertsTypeOK, Save
<1>2. dirty' \in [Procs -> BOOLEAN] /\ \A q \in Procs : q # p => dirty'[q] = dirty[q]
  BY DEF AlertsTypeOK, Save
<1>3. lastSave' \in [Procs -> 0 .. Gap] /\ \A q \in Procs : q # p => lastSave'[q] = lastSave[q]
  BY AlertConstants DEF AlertsTypeOK, Save
<1>4. at' \in [Actors -> Stages] /\ \A b \in Actors : b # User(p) => at'[b] = at[b]
  BY AlertActors DEF AlertsTypeOK, Save, Reach, Stages
<1>5. [local[User(p)] EXCEPT !.next = after] \in Local
  BY AlertActors, TypeFacts DEF Local
<1>6. local' = [local EXCEPT ![User(p)] = [local[User(p)] EXCEPT !.next = after]]
  BY DEF Save
<1>7. local' \in [Actors -> Local] /\ local'[User(p)].next = after /\ SameLocals(User(p))
      /\ \A b \in Actors : b # User(p) => local'[b] = local[b]
  <2>1. local[User(p)] \in Local /\ local \in [Actors -> Local] /\ User(p) \in Actors
    BY AlertActors, TypeFacts DEF AlertsTypeOK
  <2>. QED
    BY <2>1, <1>5, <1>6 DEF SameLocals, Local
<1>8. lastSave[p] < Gap => dirty'[p] /\ lastSave'[p] = lastSave[p] /\ at'[User(p)] = after
  BY AlertActors DEF AlertsTypeOK, Save, Reach
<1>9. ~(lastSave[p] < Gap) => ~dirty'[p] /\ lastSave'[p] = 0 /\ at'[User(p)] = "dump"
  BY AlertActors DEF AlertsTypeOK, Save, Reach
<1>. QED
  BY <1>1, <1>2, <1>3, <1>4, <1>7, <1>8, <1>9 DEF Others

LEMMA SaveDefaultFacts ==
    ASSUME AlertsTypeOK, NEW p \in Procs, SaveDefault(p)
    PROVE  /\ AlertsTypeOK'
           /\ at[User(p)] = "default"
           /\ Save(p, <<>>, "use")
           /\ upset' = {} => upset = {} /\ file = None
           /\ UNCHANGED <<file, log>>
BY SaveFacts, RecentFacts DEF SaveDefault, AlertsTypeOK

LEMMA DumpFacts ==
    ASSUME AlertsTypeOK, NEW a \in Actors, Dump(a)
    PROVE  /\ AlertsTypeOK'
           /\ at[a] = "dump" /\ at'[a] = "move"
           /\ local'[a].copy = cache[a[1]].data /\ local'[a].next = local[a].next
           /\ SameLocals(a) /\ Others(a)
           /\ upset' = {} => upset = {} /\ \A b \in Actors \ {a} : at[b] # "move"
           /\ UNCHANGED <<file, cache, dirty, lastSave, log>>
<1>1. a[1] \in Procs
  BY AlertActors
<1>2. cache[a[1]].data \in Recent \cup {None} /\ local[a] \in Local
  BY <1>1, TypeFacts
<1>3. [local[a] EXCEPT !.copy = cache[a[1]].data] \in Local
  BY <1>2 DEF Local
<1>4. local' = [local EXCEPT ![a] = [local[a] EXCEPT !.copy = cache[a[1]].data]]
  BY DEF Dump
<1>5. local' \in [Actors -> Local] /\ local'[a].copy = cache[a[1]].data
      /\ local'[a].next = local[a].next /\ SameLocals(a)
      /\ \A b \in Actors : b # a => local'[b] = local[b]
  BY <1>2, <1>3, <1>4 DEF AlertsTypeOK, SameLocals, Local
<1>6. at' \in [Actors -> Stages] /\ at[a] = "dump" /\ at'[a] = "move"
      /\ \A b \in Actors : b # a => at'[b] = at[b]
  BY DEF AlertsTypeOK, Dump, Reach, Stages
<1>. QED
  BY <1>5, <1>6 DEF AlertsTypeOK, Dump, Others

LEMMA SleepFacts ==
    ASSUME AlertsTypeOK, NEW a \in Actors, Sleep(a)
    PROVE  /\ at' \in [Actors -> Stages] /\ local' \in [Actors -> Local]
           /\ at'[a] = "asleep" /\ local'[a].wait = Pause /\ local'[a].next = "idle"
           /\ Others(a)
<1>1. /\ [NoLocals EXCEPT !.wait = Pause] \in Local
      /\ [NoLocals EXCEPT !.wait = Pause].wait = Pause
      /\ [NoLocals EXCEPT !.wait = Pause].next = "idle"
  BY NoLocalsFacts DEF NoLocals
<1>. QED
  BY <1>1 DEF AlertsTypeOK, Sleep, Reach, Others, Stages

LEMMA MoveFacts ==
    ASSUME AlertsTypeOK, NEW a \in Actors, Move(a)
    PROVE  /\ AlertsTypeOK'
           /\ at[a] = "move" /\ file' = local[a].copy
           /\ \A p \in Procs :
               /\ a = Flusher(p) => /\ at'[a] = "asleep" /\ local'[a].wait = Pause
                                    /\ local'[a].next = "idle"
               /\ a = User(p) => at'[a] = local[a].next /\ local'[a].next = local[a].next /\ SameLocals(a)
           /\ Others(a)
           /\ upset' = {} => upset = {} /\ (local[a].next = "use" => file = None)
           /\ UNCHANGED <<cache, dirty, lastSave, log>>
<1>1. local[a].copy \in Recent \cup {None} /\ local[a] \in Local /\ local[a].next \in {"use", "idle"}
  BY TypeFacts
<1>2. CASE a[2] = "flush"
  <2>1. Sleep(a)
    BY <1>2 DEF Move
  <2>2. \A p \in Procs : a # User(p)
    BY <1>2, AlertActors
  <2>. QED
    BY <1>1, <2>1, <2>2, SleepFacts DEF Move, AlertsTypeOK
<1>3. CASE a[2] # "flush"
  <2>1. \A p \in Procs : a # Flusher(p)
    BY <1>3, AlertActors
  <2>2. local' = [local EXCEPT ![a] = [local[a] EXCEPT !.copy = None]]
    BY <1>3 DEF Move
  <2>3. [local[a] EXCEPT !.copy = None] \in Local
    BY <1>1 DEF Local
  <2>4. local' \in [Actors -> Local] /\ local'[a].next = local[a].next /\ SameLocals(a)
        /\ \A b \in Actors : b # a => local'[b] = local[b]
    BY <1>1, <2>2, <2>3 DEF AlertsTypeOK, SameLocals, Local
  <2>5. at' \in [Actors -> Stages] /\ at'[a] = local[a].next
        /\ \A b \in Actors : b # a => at'[b] = at[b]
    BY <1>1, <1>3 DEF Move, Reach, AlertsTypeOK, Stages
  <2>. QED
    BY <1>1, <2>1, <2>4, <2>5 DEF Move, AlertsTypeOK, Others
<1>. QED
  BY <1>2, <1>3

LEMMA DoneFacts ==
    ASSUME AlertsTypeOK, NEW a \in Actors, Done(a)
    PROVE  /\ at' \in [Actors -> Stages] /\ local' \in [Actors -> Local]
           /\ at'[a] = "idle" /\ local'[a] = NoLocals
           /\ Others(a)
BY NoLocalsFacts DEF AlertsTypeOK, Done, Reach, Others, Stages

LEMMA WriteFailsFacts ==
    ASSUME AlertsTypeOK, NEW a \in Actors, WriteFails(a)
    PROVE  /\ AlertsTypeOK'
           /\ at[a] = "dump"
           /\ \A p \in Procs : /\ a = Flusher(p) => at'[a] = "dead" /\ local'[a] = local[a]
                               /\ a = User(p) => at'[a] = "idle" /\ local'[a] = NoLocals
           /\ Others(a)
           /\ upset' # {}
           /\ UNCHANGED <<file, cache, dirty, lastSave, log>>
<1>1. setting' \in Setting
  BY DEF WriteFails, AlertsTypeOK, Setting
<1>2. upset' \subseteq {"default", "crossed", "failed"} /\ upset' # {}
  BY DEF WriteFails, AlertsTypeOK
<1>3. CASE a[2] = "flush"
  <2>1. \A p \in Procs : a # User(p)
    BY <1>3, AlertActors
  <2>2. at' \in [Actors -> Stages] /\ at'[a] = "dead" /\ local' = local
        /\ \A b \in Actors : b # a => at'[b] = at[b]
    BY <1>3 DEF WriteFails, Reach, AlertsTypeOK, Stages
  <2>. QED
    BY <1>1, <1>2, <2>1, <2>2 DEF WriteFails, AlertsTypeOK, Others
<1>4. CASE a[2] # "flush"
  <2>1. \A p \in Procs : a # Flusher(p)
    BY <1>4, AlertActors
  <2>2. Done(a)
    BY <1>4 DEF WriteFails
  <2>. QED
    BY <1>1, <1>2, <2>1, <2>2, DoneFacts DEF WriteFails, AlertsTypeOK
<1>. QED
  BY <1>3, <1>4

LEMMA FlushFacts ==
    ASSUME AlertsTypeOK, NEW p \in Procs, Flush(p)
    PROVE  /\ AlertsTypeOK'
           /\ at[Flusher(p)] = "asleep" /\ local[Flusher(p)].wait = 0
           /\ ~dirty'[p] /\ \A q \in Procs : q # p => dirty'[q] = dirty[q]
           /\ dirty[p] => at'[Flusher(p)] = "dump" /\ local'[Flusher(p)] = local[Flusher(p)]
           /\ ~dirty[p] => /\ at'[Flusher(p)] = "asleep" /\ local'[Flusher(p)].wait = Pause
                           /\ local'[Flusher(p)].next = "idle"
           /\ Others(Flusher(p))
           /\ UNCHANGED <<file, cache, lastSave, log, upset>>
<1>1. dirty' \in [Procs -> BOOLEAN] /\ ~dirty'[p] /\ \A q \in Procs : q # p => dirty'[q] = dirty[q]
  BY DEF Flush, AlertsTypeOK
<1>2. CASE dirty[p]
  <2>1. at' \in [Actors -> Stages] /\ at'[Flusher(p)] = "dump" /\ local' = local
        /\ \A b \in Actors : b # Flusher(p) => at'[b] = at[b]
    BY <1>2, AlertActors DEF Flush, Reach, AlertsTypeOK, Stages
  <2>2. AlertsTypeOK' /\ UNCHANGED <<file, cache, lastSave, log, upset>>
    BY <1>1, <2>1 DEF Flush, AlertsTypeOK, history
  <2>3. at[Flusher(p)] = "asleep" /\ local[Flusher(p)].wait = 0
    BY DEF Flush
  <2>. QED
    BY <1>1, <1>2, <2>1, <2>2, <2>3 DEF Others
<1>3. CASE ~dirty[p]
  <2>1. Sleep(Flusher(p))
    BY <1>3 DEF Flush
  <2>. QED
    BY <1>1, <1>3, <2>1, SleepFacts, AlertActors DEF Flush, AlertsTypeOK, history
<1>. QED
  BY <1>2, <1>3

LEMMA TriggerFacts ==
    ASSUME AlertsTypeOK, Trigger
    PROVE  /\ AlertsTypeOK'
           /\ at[User("proxy")] = "idle" /\ Newest < MaxAlerts
           /\ at'[User("proxy")] = IF Fresh("proxy") THEN "use" ELSE "look"
           /\ local'[User("proxy")].next = "idle"
           /\ Others(User("proxy"))
           /\ UNCHANGED <<file, cache, dirty, lastSave, log, upset>>
<1>1. PICK c \in Configs : Load("proxy", [NoLocals EXCEPT !.cfg = c])
  BY DEF Trigger
<1>2. [NoLocals EXCEPT !.cfg = c] \in Local /\ [NoLocals EXCEPT !.cfg = c].next = "idle"
  BY NoLocalsFacts DEF NoLocals
<1>3. "proxy" \in Procs
  BY DEF Procs
<1>. QED
  BY <1>1, <1>2, <1>3, LoadFacts DEF Trigger

LEMMA ShowFacts ==
    ASSUME AlertsTypeOK, Show
    PROVE  /\ AlertsTypeOK'
           /\ at[User("bot")] = "idle"
           /\ at'[User("bot")] = IF Fresh("bot") THEN "use" ELSE "look"
           /\ local'[User("bot")] = NoLocals
           /\ Others(User("bot"))
           /\ UNCHANGED <<file, cache, dirty, lastSave, log, upset>>
<1>1. "bot" \in Procs
  BY DEF Procs
<1>. QED
  BY <1>1, NoLocalsFacts, LoadFacts DEF Show

LEMMA ShownFacts ==
    ASSUME AlertsTypeOK, NEW p \in Procs, Shown(p)
    PROVE  /\ AlertsTypeOK'
           /\ at[User(p)] = "use" /\ at'[User(p)] = "idle" /\ local'[User(p)] = NoLocals
           /\ Others(User(p))
           /\ UNCHANGED <<file, cache, dirty, lastSave, log, upset>>
BY AlertActors, DoneFacts DEF Shown, AlertsTypeOK, history

LEMMA NotifyFacts ==
    ASSUME AlertsTypeOK, Notify
    PROVE  /\ AlertsTypeOK'
           /\ at[User("proxy")] = "use" /\ local[User("proxy")].cfg # None
           /\ \/ at'[User("proxy")] = "idle" /\ local'[User("proxy")] = NoLocals
              \/ at'[User("proxy")] = "posting" /\ local'[User("proxy")] = local[User("proxy")]
           /\ Others(User("proxy"))
           /\ UNCHANGED <<file, cache, dirty, lastSave, log, upset>>
<1> DEFINE a == User("proxy")  c == local[a].cfg
<1>1. a \in Actors /\ c \in Configs
  BY AlertActors, TypeFacts DEF Notify, Local
<1>2. CASE cooling[c] > 0
  <2>1. Done(a) /\ cooling' = cooling
    BY <1>2 DEF Notify
  <2>. QED
    BY <1>1, <2>1, DoneFacts DEF Notify, AlertsTypeOK, history
<1>3. CASE ~(cooling[c] > 0)
  <2>1. Reach(a, "posting") /\ cooling' = [cooling EXCEPT ![c] = AlertCooldown] /\ local' = local
    BY <1>3 DEF Notify
  <2>2. cooling' \in [Configs -> 0 .. AlertCooldown]
    BY <1>1, <2>1, AlertConstants DEF AlertsTypeOK
  <2>3. at' \in [Actors -> Stages] /\ at'[a] = "posting" /\ Others(a)
    BY <1>1, <2>1 DEF AlertsTypeOK, Reach, Others, Stages
  <2>. QED
    BY <1>1, <2>1, <2>2, <2>3 DEF Notify, AlertsTypeOK, history
<1>. QED
  BY <1>2, <1>3

LEMMA RecordFacts ==
    ASSUME AlertsTypeOK, AlertsShape, Record
    PROVE  /\ AlertsTypeOK'
           /\ at[User("proxy")] = "posting"
           /\ List \in Recent /\ Newest + 1 \in AlertIds
           /\ LastOf(Append(List, Newest + 1)) \in Recent
           /\ Save("proxy", LastOf(Append(List, Newest + 1)), "idle")
           /\ log'[Newest + 1] = 0 /\ \A n \in AlertIds : n # Newest + 1 => log'[n] = log[n]
           /\ Known' = Known \cup {Newest + 1}
           /\ UNCHANGED <<file, upset>>
<1>1. "proxy" \in Procs /\ at[User("proxy")] = "posting"
  BY DEF Procs, Record
<1>2. List \in Recent
  BY <1>1, TypeFacts DEF AlertsShape, UserShape, List
<1>3. Newest + 1 \in AlertIds
  BY <1>1, NewestFacts, AlertConstants DEF AlertsShape, Room, InUse, AlertIds
<1>4. LastOf(Append(List, Newest + 1)) \in Recent
  BY <1>2, <1>3, LastOfFacts
<1>5. Save("proxy", LastOf(Append(List, Newest + 1)), "idle")
  BY DEF Record, List
<1>6. log' = [log EXCEPT ![Newest + 1] = 0]
  BY DEF Record
<1>7. log' \in [AlertIds -> (0 .. Old) \cup {None}]
      /\ log'[Newest + 1] = 0 /\ \A n \in AlertIds : n # Newest + 1 => log'[n] = log[n]
  BY <1>3, <1>6, AlertConstants DEF AlertsTypeOK
<1>8. Known' = Known \cup {Newest + 1}
  BY <1>3, <1>7, AlertConstants DEF Known
<1>9. AlertsTypeOK'
  BY <1>1, <1>4, <1>5, <1>7, SaveFacts DEF AlertsTypeOK, Record
<1>. QED
  BY <1>1, <1>2, <1>3, <1>4, <1>5, <1>7, <1>8, <1>9 DEF Record

LEMMA OlderFacts ==
    ASSUME NEW age \in Nat, NEW limit \in Nat, age <= limit
    PROVE  /\ Older(age, limit) \in Nat /\ Older(age, limit) <= limit
           /\ age < limit => Older(age, limit) = age + 1
           /\ age = limit => Older(age, limit) = limit
BY DEF Older

LEMMA TickFacts ==
    ASSUME AlertsTypeOK, AlertsShape, AlertsTick
    PROVE  /\ AlertsTypeOK'
           /\ \A p \in Procs : /\ at[User(p)] \in {"idle", "posting"}
                               /\ at[Flusher(p)] \in {"asleep", "dead"}
                               /\ at[Flusher(p)] = "asleep" =>
                                      local[Flusher(p)].wait > 0 /\ local'[Flusher(p)].wait = local[Flusher(p)].wait - 1
                               /\ local'[User(p)] = local[User(p)]
                               /\ local'[Flusher(p)].next = local[Flusher(p)].next
                               /\ cache'[p].data = cache[p].data
                               /\ cache'[p].age = Older(cache[p].age, Ttl)
                               /\ lastSave'[p] = Older(lastSave[p], Gap)
           /\ \A n \in Known : log'[n] = Older(log[n], Old)
           /\ Known' = Known
           /\ UNCHANGED <<file, dirty, at, upset>>
<1>1. \A p \in Procs : /\ at[User(p)] \in {"idle", "posting"}
                       /\ at[Flusher(p)] \in {"asleep", "dead"}
                       /\ at[Flusher(p)] = "asleep" => local[Flusher(p)].wait > 0
  BY DEF AlertsTick
<1>2. cache' \in [Procs -> [data : Recent \cup {None}, age : 0 .. Ttl]]
      /\ \A p \in Procs : cache'[p].data = cache[p].data /\ cache'[p].age = Older(cache[p].age, Ttl)
  <2>1. \A p \in Procs : cache[p] \in [data : Recent \cup {None}, age : 0 .. Ttl]
    BY DEF AlertsTypeOK
  <2>2. \A p \in Procs : Older(cache[p].age, Ttl) \in 0 .. Ttl
    BY TypeFacts, OlderFacts, AlertConstants
  <2>3. cache' = [p \in Procs |-> [cache[p] EXCEPT !.age = Older(cache[p].age, Ttl)]]
    BY DEF AlertsTick
  <2>. QED
    BY <2>1, <2>2, <2>3
<1>3. lastSave' \in [Procs -> 0 .. Gap] /\ \A p \in Procs : lastSave'[p] = Older(lastSave[p], Gap)
  BY TypeFacts, OlderFacts, AlertConstants DEF AlertsTick
<1>4. cooling' \in [Configs -> 0 .. AlertCooldown]
  BY AlertConstants DEF AlertsTick, AlertsTypeOK
<1>5. \A n \in AlertIds : /\ log[n] = None => log'[n] = None
                          /\ log[n] # None => log'[n] = Older(log[n], Old)
  BY DEF AlertsTick
<1>6. log' \in [AlertIds -> (0 .. Old) \cup {None}]
  <2>1. \A n \in AlertIds : log'[n] \in (0 .. Old) \cup {None}
    BY <1>5, TypeFacts, OlderFacts, AlertConstants DEF Known
  <2>. QED
    BY <2>1 DEF AlertsTick
<1>7. \A n \in Known : Older(log[n], Old) # None
  BY TypeFacts, OlderFacts, AlertConstants
<1>8. Known' = Known
  BY <1>5, <1>7 DEF Known
<1>9. local' \in [Actors -> Local]
      /\ \A a \in Actors : /\ at[a] = "asleep" => local'[a].wait = local[a].wait - 1
                           /\ at[a] # "asleep" => local'[a] = local[a]
                           /\ local'[a].next = local[a].next
  <2>1. \A a \in Actors : local[a] \in Local
    BY DEF AlertsTypeOK
  <2>2. \A a \in Actors : at[a] = "asleep" => local[a].wait > 0
    BY <1>1, AlertActors DEF AlertsShape, UserShape
  <2>3. \A a \in Actors : at[a] = "asleep" => [local[a] EXCEPT !.wait = local[a].wait - 1] \in Local
    BY <2>1, <2>2, AlertConstants DEF Local
  <2>4. local' = [a \in Actors |-> IF at[a] = "asleep" THEN [local[a] EXCEPT !.wait = local[a].wait - 1] ELSE local[a]]
    BY DEF AlertsTick
  <2>5. \A a \in Actors : local'[a] = IF at[a] = "asleep" THEN [local[a] EXCEPT !.wait = local[a].wait - 1] ELSE local[a]
    BY <2>4
  <2>6. local' \in [Actors -> Local]
    BY <2>1, <2>3, <2>4
  <2>. QED
    BY <2>1, <2>5, <2>6 DEF Local
<1>10. AlertsTypeOK'
  BY <1>2, <1>3, <1>4, <1>6, <1>9 DEF AlertsTypeOK, AlertsTick
<1>11. UNCHANGED <<file, dirty, at, upset>>
  BY DEF AlertsTick
<1>12. \A p \in Procs : /\ at[Flusher(p)] = "asleep" => local'[Flusher(p)].wait = local[Flusher(p)].wait - 1
                        /\ local'[User(p)] = local[User(p)]
                        /\ local'[Flusher(p)].next = local[Flusher(p)].next
  BY <1>1, <1>9, AlertActors
<1>13. \A n \in Known : log'[n] = Older(log[n], Old)
  BY <1>5 DEF Known
<1>. QED
  BY <1>1, <1>2, <1>3, <1>8, <1>10, <1>11, <1>12, <1>13

LEMMA RestartFacts ==
    ASSUME AlertsTypeOK, NEW p \in Procs, Restart(p)
    PROVE  /\ AlertsTypeOK'
           /\ at'[User(p)] = "idle" /\ local'[User(p)] = NoLocals
           /\ at'[Flusher(p)] = "asleep" /\ local'[Flusher(p)].wait = Pause
           /\ local'[Flusher(p)].next = "idle"
           /\ cache'[p].data = None /\ ~dirty'[p] /\ lastSave'[p] = Gap
           /\ \A q \in Procs : q # p =>
                  /\ at'[User(q)] = at[User(q)] /\ at'[Flusher(q)] = at[Flusher(q)]
                  /\ local'[User(q)] = local[User(q)] /\ local'[Flusher(q)] = local[Flusher(q)]
                  /\ cache'[q] = cache[q] /\ dirty'[q] = dirty[q] /\ lastSave'[q] = lastSave[q]
           /\ p = "bot" => Known' = Known
           /\ Known' \subseteq Known
           /\ \A n \in Known' : /\ log'[n] = log[n]
                                /\ p = "proxy" => log[n] > Pause \/ (file # None /\ n \in ToSet(file))
           /\ \A n \in Known : file # None /\ n \in ToSet(file) => n \in Known'
           /\ UNCHANGED <<file, upset>>
<1>1. setting' \in Setting
  BY DEF Restart, AlertsTypeOK, Setting
<1>2. cache' \in [Procs -> [data : Recent \cup {None}, age : 0 .. Ttl]]
      /\ cache'[p].data = None /\ \A q \in Procs : q # p => cache'[q] = cache[q]
  BY AlertConstants DEF Restart, AlertsTypeOK
<1>3. dirty' \in [Procs -> BOOLEAN] /\ ~dirty'[p] /\ \A q \in Procs : q # p => dirty'[q] = dirty[q]
  BY DEF Restart, AlertsTypeOK
<1>4. lastSave' \in [Procs -> 0 .. Gap] /\ lastSave'[p] = Gap
      /\ \A q \in Procs : q # p => lastSave'[q] = lastSave[q]
  BY AlertConstants DEF Restart, AlertsTypeOK
<1>5. cooling' \in [Configs -> 0 .. AlertCooldown]
  BY AlertConstants DEF Restart, AlertsTypeOK
<1>6. \A a \in Actors : FirstStage(a) \in Stages /\ FirstLocals(a) \in Local
  BY NoLocalsFacts DEF FirstStage, FirstLocals, Stages
<1>7. at' \in [Actors -> Stages]
  BY <1>6 DEF Restart, AlertsTypeOK
<1>8. local' \in [Actors -> Local]
  BY <1>6 DEF Restart, AlertsTypeOK
<1>9. at'[User(p)] = "idle" /\ at'[Flusher(p)] = "asleep"
      /\ \A q \in Procs : q # p => at'[User(q)] = at[User(q)] /\ at'[Flusher(q)] = at[Flusher(q)]
  BY AlertActors DEF Restart, FirstStage
<1>10. local'[User(p)] = NoLocals /\ local'[Flusher(p)] = [NoLocals EXCEPT !.wait = Pause]
      /\ \A q \in Procs : q # p => local'[User(q)] = local[User(q)] /\ local'[Flusher(q)] = local[Flusher(q)]
  BY AlertActors DEF Restart, FirstLocals
<1>11. local'[Flusher(p)].wait = Pause /\ local'[Flusher(p)].next = "idle"
  BY <1>10 DEF NoLocals
<1> DEFINE gone(n) == p = "proxy" /\ n \in Known /\ log[n] <= Pause /\ (file = None \/ n \notin ToSet(file))
<1>12. \A n \in AlertIds : (gone(n) => log'[n] = None) /\ (~gone(n) => log'[n] = log[n])
  BY DEF Restart
<1>13. log' \in [AlertIds -> (0 .. Old) \cup {None}]
  BY DEF Restart, AlertsTypeOK
<1>14. \A n \in Known : n \in Known' <=> ~gone(n)
  BY <1>12 DEF Known
<1>15. Known' \subseteq Known
  BY <1>12 DEF Known
<1>16. \A n \in Known' : log'[n] = log[n]
  BY <1>12, <1>14, <1>15 DEF Known
<1>17. p = "bot" => Known' = Known
  BY <1>14, <1>15
<1>18. \A n \in Known' : p = "proxy" => log[n] > Pause \/ (file # None /\ n \in ToSet(file))
  BY <1>14, <1>15, TypeFacts, AlertConstants
<1>19. \A n \in Known : file # None /\ n \in ToSet(file) => n \in Known'
  BY <1>14
<1>20. UNCHANGED <<file, upset>>
  BY DEF Restart
<1>21. AlertsTypeOK'
  BY <1>1, <1>2, <1>3, <1>4, <1>5, <1>7, <1>8, <1>13, <1>20 DEF AlertsTypeOK
<1>. QED
  BY <1>2, <1>3, <1>4, <1>9, <1>10, <1>11, <1>15, <1>16, <1>17, <1>18, <1>19, <1>20, <1>21

-----------------------------------------------------------------------------
(* Every step keeps the shape *)

LEMMA SameNewest == Known' = Known => Newest' = Newest
BY DEF Newest

LEMMA SameKnown == log' = log => Known' = Known /\ Newest' = Newest
BY DEF Newest, Known

LEMMA LookShape ==
    ASSUME AlertsTypeOK, AlertsShape, NEW p \in Procs, Look(p)
    PROVE  AlertsShape'
<1>1. UserShape' /\ FlushShape' /\ BotShape'
  BY LookFacts, AlertActors
     DEF AlertsShape, UserShape, FlushShape, BotShape, Fresh, Others, Writing
<1>2. Room'
  BY LookFacts, AlertActors, SameKnown
     DEF AlertsShape, Room, InUse, Others, SameLocals, Writing
<1>. QED
  BY <1>1, <1>2 DEF AlertsShape

LEMMA FillShape ==
    ASSUME AlertsTypeOK, AlertsShape, NEW p \in Procs, Fill(p)
    PROVE  AlertsShape'
<1>1. UserShape' /\ FlushShape' /\ BotShape'
  BY FillFacts, AlertActors
     DEF AlertsShape, UserShape, FlushShape, BotShape, Fresh, Others, Writing
<1>2. Room'
  BY FillFacts, AlertActors, SameKnown
     DEF AlertsShape, Room, InUse, Others, SameLocals, Writing
<1>. QED
  BY <1>1, <1>2 DEF AlertsShape

LEMMA SaveDefaultShape ==
    ASSUME AlertsTypeOK, AlertsShape, NEW p \in Procs, SaveDefault(p)
    PROVE  AlertsShape'
<1>1. <<>> \in Recent /\ <<>> # None
  BY RecentFacts, AlertConstants
<1>2. UserShape' /\ FlushShape' /\ BotShape'
  BY <1>1, SaveDefaultFacts, SaveFacts, AlertActors, TypeFacts
     DEF AlertsShape, UserShape, FlushShape, BotShape, Fresh, Others, Writing
<1>3. Room'
  BY <1>1, SaveDefaultFacts, SaveFacts, AlertActors, SameKnown
     DEF AlertsShape, Room, InUse, Others, SameLocals, Writing
<1>. QED
  BY <1>2, <1>3 DEF AlertsShape

LEMMA FlushShaped ==
    ASSUME AlertsTypeOK, AlertsShape, NEW p \in Procs, Flush(p)
    PROVE  AlertsShape'
<1>1. UserShape' /\ FlushShape' /\ BotShape'
  BY FlushFacts, AlertActors
     DEF AlertsShape, UserShape, FlushShape, BotShape, Fresh, Others, Writing
<1>2. Room'
  BY FlushFacts, AlertActors, SameKnown DEF AlertsShape, Room, InUse, Others, Writing
<1>. QED
  BY <1>1, <1>2 DEF AlertsShape

LEMMA ShownShape ==
    ASSUME AlertsTypeOK, AlertsShape, NEW p \in Procs, Shown(p)
    PROVE  AlertsShape'
<1>1. UserShape' /\ FlushShape' /\ BotShape'
  BY ShownFacts, AlertActors
     DEF AlertsShape, UserShape, FlushShape, BotShape, Fresh, Others, Writing
<1>2. Room'
  BY ShownFacts, AlertActors, SameKnown DEF AlertsShape, Room, InUse, Others, Writing
<1>. QED
  BY <1>1, <1>2 DEF AlertsShape

LEMMA RestartShape ==
    ASSUME AlertsTypeOK, AlertsShape, NEW p \in Procs, Restart(p)
    PROVE  AlertsShape'
<1>1. UserShape' /\ FlushShape' /\ BotShape'
  BY RestartFacts, AlertActors DEF AlertsShape, UserShape, FlushShape, BotShape, Fresh, Writing
<1>2. Room'
  BY RestartFacts, AlertActors, SameNewest DEF AlertsShape, Room, InUse, Writing
<1>. QED
  BY <1>1, <1>2 DEF AlertsShape

LEMMA DumpShape ==
    ASSUME AlertsTypeOK, AlertsShape, NEW a \in Actors, Dump(a)
    PROVE  AlertsShape'
<1>1. UserShape' /\ FlushShape' /\ BotShape'
  BY DumpFacts, AlertActors
     DEF AlertsShape, UserShape, FlushShape, BotShape, Fresh, Others, Writing
<1>2. Room'
  BY DumpFacts, AlertActors, SameKnown
     DEF AlertsShape, Room, InUse, Others, SameLocals, Writing
<1>. QED
  BY <1>1, <1>2 DEF AlertsShape

LEMMA MoveShape ==
    ASSUME AlertsTypeOK, AlertsShape, NEW a \in Actors, Move(a)
    PROVE  AlertsShape'
<1>1. UserShape' /\ FlushShape' /\ BotShape'
  BY MoveFacts, AlertActors, TypeFacts
     DEF AlertsShape, UserShape, FlushShape, BotShape, Fresh, Others, Writing
<1>2. Room'
  BY MoveFacts, AlertActors, SameKnown, TypeFacts
     DEF AlertsShape, Room, InUse, Others, SameLocals, Writing
<1>. QED
  BY <1>1, <1>2 DEF AlertsShape

LEMMA WriteFailsShape ==
    ASSUME AlertsTypeOK, AlertsShape, NEW a \in Actors, WriteFails(a)
    PROVE  AlertsShape'
<1>1. UserShape' /\ FlushShape' /\ BotShape'
  BY WriteFailsFacts, AlertActors
     DEF AlertsShape, UserShape, FlushShape, BotShape, Fresh, Others, Writing
<1>2. Room'
  BY WriteFailsFacts, AlertActors, SameKnown DEF AlertsShape, Room, InUse, Others, Writing
<1>. QED
  BY <1>1, <1>2 DEF AlertsShape

LEMMA TriggerShape == ASSUME AlertsTypeOK, AlertsShape, Trigger PROVE AlertsShape'
<1>1. UserShape' /\ FlushShape' /\ BotShape'
  BY TriggerFacts, AlertActors
     DEF AlertsShape, UserShape, FlushShape, BotShape, Fresh, Others, Writing
<1>2. Room'
  BY TriggerFacts, SameKnown DEF Room
<1>. QED
  BY <1>1, <1>2 DEF AlertsShape

LEMMA ShowShape == ASSUME AlertsTypeOK, AlertsShape, Show PROVE AlertsShape'
<1>1. UserShape' /\ FlushShape' /\ BotShape'
  BY ShowFacts, AlertActors
     DEF AlertsShape, UserShape, FlushShape, BotShape, Fresh, Others, Writing
<1>2. Room'
  BY ShowFacts, AlertActors, SameKnown DEF AlertsShape, Room, InUse, Others, Writing
<1>. QED
  BY <1>1, <1>2 DEF AlertsShape

LEMMA NotifyShape == ASSUME AlertsTypeOK, AlertsShape, Notify PROVE AlertsShape'
<1>1. UserShape' /\ FlushShape' /\ BotShape'
  BY NotifyFacts, AlertActors
     DEF AlertsShape, UserShape, FlushShape, BotShape, Fresh, Others, Writing
<1>2. Room'
  BY NotifyFacts, SameKnown DEF AlertsShape, Room, InUse
<1>. QED
  BY <1>1, <1>2 DEF AlertsShape

LEMMA RecordShape == ASSUME AlertsTypeOK, AlertsShape, Record PROVE AlertsShape'
<1>1. LastOf(Append(List, Newest + 1)) # None
  BY RecordFacts, AlertConstants
<1>2. UserShape' /\ FlushShape' /\ BotShape'
  BY <1>1, RecordFacts, SaveFacts, AlertActors, TypeFacts
     DEF AlertsShape, UserShape, FlushShape, BotShape, Fresh, Others, Writing
<1>3. Room'
  BY RecordFacts, SaveFacts, AlertActors DEF Room, InUse
<1>. QED
  BY <1>2, <1>3 DEF AlertsShape

LEMMA TickShape == ASSUME AlertsTypeOK, AlertsShape, AlertsTick PROVE AlertsShape'
<1>1. UserShape' /\ FlushShape' /\ BotShape'
  BY TickFacts, AlertActors DEF AlertsShape, UserShape, FlushShape, BotShape, Writing
<1>2. Room'
  BY TickFacts, AlertActors, SameNewest DEF AlertsShape, Room, InUse, Writing
<1>. QED
  BY <1>1, <1>2 DEF AlertsShape

-----------------------------------------------------------------------------
(* Lists: what appending keeps, what a later list still covers *)

LEMMA FourActors ==
    /\ "proxy" \in Procs /\ "bot" \in Procs /\ "proxy" # "bot"
    /\ User("proxy") \in Actors /\ User("bot") \in Actors
    /\ Flusher("proxy") \in Actors /\ Flusher("bot") \in Actors
    /\ User("proxy") # User("bot") /\ User("proxy") # Flusher("proxy") /\ User("proxy") # Flusher("bot")
    /\ User("bot") # Flusher("proxy") /\ User("bot") # Flusher("bot") /\ Flusher("proxy") # Flusher("bot")
    /\ User("proxy")[1] = "proxy" /\ Flusher("proxy")[1] = "proxy"
    /\ User("bot")[1] = "bot" /\ Flusher("bot")[1] = "bot"
    /\ \A p \in Procs : p = "proxy" \/ p = "bot"
    /\ \A a \in Actors : \/ a = User("proxy") \/ a = User("bot")
                         \/ a = Flusher("proxy") \/ a = Flusher("bot")
BY AlertActors

LEMMA FollowsItself == ASSUME NEW seq \in Recent PROVE Follows(seq, seq)
<1>1. Full(seq) => seq[1] \in Nat
  BY RecentFacts DEF Full
<1>. QED
  BY <1>1, AlertConstants DEF Follows

LEMMA FollowsOn ==
    ASSUME NEW old \in Recent, NEW seq \in Recent, NEW new \in Recent,
           Follows(old, seq), Follows(seq, new)
    PROVE  Follows(old, new)
<1>1. CASE Full(old)
  <2>1. Full(seq) /\ Full(new) /\ old[1] <= seq[1] /\ seq[1] <= new[1] /\ new # None
    BY <1>1 DEF Follows
  <2>2. old[1] \in Nat /\ seq[1] \in Nat /\ new[1] \in Nat
    BY <1>1, <2>1, RecentFacts DEF Full
  <2>. QED
    BY <2>1, <2>2 DEF Follows
<1>. QED
  BY <1>1 DEF Follows

LEMMA ShortFollows == ASSUME NEW seq, ~Full(seq), NEW new PROVE Follows(seq, new)
BY DEF Follows

LEMMA NothingFull == ~Full(<<>>)
BY AlertConstants DEF Full

LEMMA NothingSorted == ASSUME NEW ids PROVE Sorted(<<>>, ids)
BY DEF Sorted

LEMMA AppendKeeps ==
    ASSUME NEW seq \in Recent, NEW ids \in SUBSET AlertIds, Sorted(seq, ids),
           NEW n \in AlertIds, \A m \in ids : m < n, NEW new, new = LastOf(Append(seq, n))
    PROVE  /\ new \in Recent /\ Sorted(new, ids \cup {n})
           /\ Follows(seq, new)
           /\ Covers(new, n)
           /\ \A m \in ids : Covers(seq, m) => Covers(new, m)
<1>1. /\ new \in Recent
      /\ ~Full(seq) => Len(new) = Len(seq) + 1 /\ \A i \in 1 .. Len(seq) : new[i] = seq[i]
      /\ Full(seq) => Full(new) /\ \A i \in 1 .. MaxRecent - 1 : new[i] = seq[i + 1]
      /\ new[Len(new)] = n /\ Len(new) > 0
  BY LastOfFacts
<1>2. Len(seq) \in Nat /\ Len(new) \in Nat /\ \A i \in 1 .. Len(seq) : seq[i] \in Nat /\ seq[i] \in ids
  BY <1>1, RecentFacts DEF Sorted
<1>3. n \in Nat /\ \A m \in ids : m \in Nat
  BY DEF AlertIds
<1>4. Covers(new, n)
  BY <1>1, <1>2 DEF Covers
<1>5. CASE ~Full(seq)
  <2>1. /\ Len(new) = Len(seq) + 1 /\ new[Len(seq) + 1] = n
        /\ \A i \in 1 .. Len(seq) : new[i] = seq[i]
    BY <1>1, <1>5
  <2>2. \A i, j \in 1 .. Len(new) : i < j => new[i] < new[j]
    <3>1. TAKE i, j \in 1 .. Len(new)
    <3>2. HAVE i < j
    <3>3. i \in 1 .. Len(seq)
      BY <3>2, <2>1, <1>2
    <3>4. CASE j = Len(seq) + 1
      <4>1. new[i] = seq[i] /\ new[j] = n /\ seq[i] \in ids
        BY <3>3, <3>4, <2>1, <1>2
      <4>. QED
        BY <4>1
    <3>5. CASE j # Len(seq) + 1
      <4>1. j \in 1 .. Len(seq)
        BY <3>5, <2>1, <1>2
      <4>. QED
        BY <4>1, <3>2, <3>3, <2>1 DEF Sorted
    <3>. QED
      BY <3>4, <3>5
  <2>3. \A i \in 1 .. Len(new) : new[i] \in ids \cup {n}
    <3>1. TAKE i \in 1 .. Len(new)
    <3>2. i = Len(seq) + 1 \/ i \in 1 .. Len(seq)
      BY <2>1, <1>2
    <3>. QED
      BY <3>2, <2>1, <1>2
  <2>4. \A m \in ids : Covers(seq, m) => Covers(new, m)
    <3>1. TAKE m \in ids
    <3>2. HAVE Covers(seq, m)
    <3>3. PICK i \in 1 .. Len(seq) : seq[i] = m
      BY <3>2, <1>5 DEF Covers
    <3>4. i \in 1 .. Len(new) /\ new[i] = m
      BY <3>3, <2>1, <1>2
    <3>. QED
      BY <3>4 DEF Covers
  <2>. QED
    BY <1>1, <1>4, <1>5, <2>2, <2>3, <2>4, ShortFollows DEF Sorted
<1>6. CASE Full(seq)
  <2>1. /\ Len(seq) = MaxRecent /\ Len(new) = MaxRecent /\ new[MaxRecent] = n
        /\ \A i \in 1 .. MaxRecent - 1 : new[i] = seq[i + 1]
        /\ MaxRecent \in Nat /\ MaxRecent > 0
    BY <1>1, <1>6, AlertConstants DEF Full
  <2>2. \A i \in 1 .. MaxRecent - 1 : i + 1 \in 1 .. MaxRecent /\ new[i] \in ids
    BY <2>1, <1>2
  <2>3. \A i, j \in 1 .. Len(new) : i < j => new[i] < new[j]
    <3>1. TAKE i, j \in 1 .. Len(new)
    <3>2. HAVE i < j
    <3>3. i \in 1 .. MaxRecent - 1
      BY <3>2, <2>1
    <3>4. CASE j = MaxRecent
      BY <3>3, <3>4, <2>1, <2>2
    <3>5. CASE j # MaxRecent
      <4>1. j \in 1 .. MaxRecent - 1
        BY <3>5, <2>1
      <4>2. new[i] = seq[i + 1] /\ new[j] = seq[j + 1]
            /\ i + 1 \in 1 .. Len(seq) /\ j + 1 \in 1 .. Len(seq) /\ i + 1 < j + 1
        BY <4>1, <3>2, <3>3, <2>1, <2>2
      <4>. QED
        BY <4>2 DEF Sorted
    <3>. QED
      BY <3>4, <3>5
  <2>4. \A i \in 1 .. Len(new) : new[i] \in ids \cup {n}
    <3>1. TAKE i \in 1 .. Len(new)
    <3>2. i = MaxRecent \/ i \in 1 .. MaxRecent - 1
      BY <2>1
    <3>. QED
      BY <3>2, <2>1, <2>2
  <2>5. seq[1] < new[1]
    <3>1. CASE MaxRecent = 1
      BY <3>1, <2>1, <1>2
    <3>2. CASE MaxRecent # 1
      <4>1. 1 \in 1 .. MaxRecent - 1 /\ 2 \in 1 .. Len(seq) /\ 1 \in 1 .. Len(seq)
        BY <3>2, <2>1
      <4>2. new[1] = seq[2]
        BY <4>1, <2>1
      <4>. QED
        BY <4>1, <4>2 DEF Sorted
    <3>. QED
      BY <3>1, <3>2
  <2>6. seq[1] \in Nat /\ new[1] \in Nat /\ Full(new) /\ new # None
    BY <1>1, <1>6, RecentFacts, AlertConstants DEF Full
  <2>7. Follows(seq, new)
    BY <2>5, <2>6, <1>6 DEF Follows
  <2>8. \A m \in ids : Covers(seq, m) => Covers(new, m)
    <3>1. TAKE m \in ids
    <3>2. HAVE Covers(seq, m)
    <3>3. CASE m < seq[1] \/ m = seq[1]
      <4>1. m < new[1]
        BY <3>3, <2>5, <2>6, <1>3
      <4>. QED
        BY <4>1, <2>6 DEF Covers
    <3>4. CASE \E i \in 2 .. Len(seq) : seq[i] = m
      <4>1. PICK i \in 2 .. Len(seq) : seq[i] = m
        BY <3>4
      <4>2. i - 1 \in 1 .. MaxRecent - 1 /\ (i - 1) + 1 = i /\ i - 1 \in 1 .. Len(new)
        BY <2>1
      <4>3. new[i - 1] = m
        BY <4>1, <4>2, <2>1
      <4>. QED
        BY <4>2, <4>3 DEF Covers
    <3>5. \A i \in 1 .. Len(seq) : i = 1 \/ i \in 2 .. Len(seq)
      BY <1>2
    <3>. QED
      BY <3>2, <3>3, <3>4, <3>5 DEF Covers
  <2>. QED
    BY <1>1, <1>4, <2>3, <2>4, <2>7, <2>8 DEF Sorted
<1>. QED
  BY <1>5, <1>6

\* An alert that a full list is past has been pushed out.
LEMMA CoveredIsPushed ==
    ASSUME NEW seq \in Recent, Sorted(seq, Known), Full(seq), NEW n \in AlertIds, n < seq[1]
    PROVE  PushedOut(n)
<1> DEFINE later == {m \in Known : m > n}
<1>1. seq \in [1 .. MaxRecent -> AlertIds] /\ \A i \in 1 .. MaxRecent : seq[i] \in Known /\ seq[i] \in Nat
  BY RecentFacts, AlertConstants DEF Full, Sorted
<1>2. \A i \in 1 .. MaxRecent : seq[1] <= seq[i]
  <2>1. TAKE i \in 1 .. MaxRecent
  <2>2. 1 \in 1 .. MaxRecent
    BY AlertConstants
  <2>3. CASE i = 1
    BY <2>2, <2>3, <1>1
  <2>4. CASE i # 1
    BY <2>2, <2>4, <1>1, AlertConstants DEF Sorted, Full
  <2>. QED
    BY <2>3, <2>4
<1>3. \A i \in 1 .. MaxRecent : seq[i] \in later
  <2>1. n \in Nat /\ seq[1] \in Nat
    BY <1>1, AlertConstants DEF AlertIds
  <2>. QED
    BY <2>1, <1>1, <1>2
<1>4. \A i, j \in 1 .. MaxRecent : seq[i] = seq[j] => i = j
  <2>1. TAKE i, j \in 1 .. MaxRecent
  <2>2. i < j => seq[i] < seq[j]
    BY AlertConstants DEF Sorted, Full
  <2>3. j < i => seq[j] < seq[i]
    BY AlertConstants DEF Sorted, Full
  <2>. QED
    BY <2>2, <2>3, <1>1
<1>5. IsFiniteSet(later)
  <2>1. later \subseteq 1 .. MaxAlerts
    BY DEF Known, AlertIds
  <2>2. IsFiniteSet(1 .. MaxAlerts)
    BY FS_Interval, AlertConstants
  <2> HIDE DEF later
  <2>. QED
    BY <2>1, <2>2, FS_Subset
<1> HIDE DEF later
<1>6. seq \in Injection(1 .. MaxRecent, later)
  BY <1>1, <1>3, <1>4 DEF Injection, IsInjective
<1>7. Cardinality(1 .. MaxRecent) <= Cardinality(later)
  BY <1>5, <1>6, FS_Injection
<1>8. Cardinality(1 .. MaxRecent) = MaxRecent
  BY FS_Interval, AlertConstants
<1>9. Cardinality(later) \in Nat
  BY <1>5, FS_CardinalityType
<1>. QED
  BY <1>7, <1>8, <1>9, AlertConstants DEF PushedOut, later

\* An alert that a list covers is in it, or in no later one that reached the file.
LEMMA CoveredIsShown ==
    ASSUME NEW seq \in Recent, NEW n \in Known, Covers(seq, n),
           file # None, file \in Recent, Sorted(file, Known), Follows(seq, file)
    PROVE  PushedOut(n) \/ n \in ToSet(seq)
<1>1. CASE \E i \in 1 .. Len(seq) : seq[i] = n
  BY <1>1, RecentFacts DEF ToSet
<1>2. CASE Full(seq) /\ n < seq[1]
  <2>1. Full(file) /\ seq[1] <= file[1] /\ seq[1] \in Nat /\ file[1] \in Nat /\ n \in Nat /\ n \in AlertIds
    BY <1>2, RecentFacts, NewestFacts DEF Follows, Full
  <2>2. n < file[1]
    BY <1>2, <2>1
  <2>. QED
    BY <2>1, <2>2, CoveredIsPushed
<1>. QED
  BY <1>1, <1>2 DEF Covers

LEMMA SortedInMore ==
    ASSUME NEW seq, NEW ids, NEW more, Sorted(seq, ids), ids \subseteq more PROVE Sorted(seq, more)
BY DEF Sorted

LEMMA NothingFollowed == ASSUME NEW new PROVE Follows(<<>>, new)
BY NothingFull, ShortFollows

-----------------------------------------------------------------------------
(* Every step keeps what lists and file cover *)

LEMMA LookHeld ==
    ASSUME AlertsTypeOK, AlertsShape, AlertsHeld, NEW p \in Procs, Look(p)
    PROVE  AlertsHeld'
<1>1. QuietBot'
  BY LookFacts, FourActors DEF AlertsHeld, QuietBot, Others
<1>2. OneMove'
  BY LookFacts DEF AlertsHeld, OneMove, Others
<1>3. SavedInCache'
  BY LookFacts DEF AlertsHeld, SavedInCache
<1>4. FileMade'
  BY LookFacts, FourActors, SameKnown DEF AlertsHeld, FileMade, Others, Writing
<1>5. DirtyList'
  BY LookFacts, FourActors DEF AlertsHeld, DirtyList, Others, Writing, List
<1>6. InOrder'
  BY LookFacts, FourActors, SameKnown DEF AlertsHeld, InOrder, Others, List
<1>7. OnDisk'
  BY LookFacts, FourActors, SameKnown DEF AlertsHeld, OnDisk, Others, Writing, List
<1>8. BotCopy'
  <2>1. CASE p = "bot"
    <3>1. /\ at[User("bot")] = "look" /\ cache' = cache /\ file' = file /\ Known' = Known /\ log' = log
          /\ at'[User("bot")] \in {"default", "fill"}
          /\ at'[User("bot")] = "fill" => file # None /\ local'[User("bot")].copy = file
      BY <2>1, LookFacts, SameKnown
    <3>2. file # None => file \in Recent /\ Follows(file, file)
      BY TypeFacts, FollowsItself
    <3>3. \A n \in Known : log[n] > Pause => Covers(file, n)
      BY TypeFacts, FourActors, AlertConstants DEF AlertsHeld, OnDisk
    <3>4. BotCopy
      BY DEF AlertsHeld
    <3>. QED
      BY <3>1, <3>2, <3>3, <3>4 DEF BotCopy, Writing
  <2>2. CASE p = "proxy"
    BY <2>2, LookFacts, FourActors, SameKnown DEF AlertsHeld, BotCopy, Others, Writing
  <2>. QED
    BY <2>1, <2>2, FourActors
<1>. QED
  BY <1>1, <1>2, <1>3, <1>4, <1>5, <1>6, <1>7, <1>8 DEF AlertsHeld

LEMMA FillHeld ==
    ASSUME AlertsTypeOK, AlertsShape, AlertsHeld, NEW p \in Procs, Fill(p)
    PROVE  AlertsHeld'
<1>0. /\ local[User(p)].copy # None /\ ~Fresh(p) /\ at[User(p)] = "fill" /\ file # None
      /\ p = "proxy" => /\ local[User(p)].copy = file /\ file \in Recent /\ Sorted(file, Known)
                        /\ ~dirty["proxy"] /\ ~Writing(Flusher("proxy")) /\ ~Writing(User("proxy"))
  <2>1. at[User(p)] = "fill"
    BY FillFacts
  <2>2. local[User(p)].copy # None /\ ~Fresh(p)
    BY <2>1 DEF AlertsShape, UserShape
  <2>3. file # None
    BY <2>1 DEF AlertsHeld, FileMade
  <2>4. p = "proxy" => local[User(p)].copy = file /\ file \in Recent /\ Sorted(file, Known)
    BY <2>1, <2>3, TypeFacts DEF AlertsHeld, InOrder
  <2>5. p = "proxy" => ~dirty["proxy"] /\ ~Writing(Flusher("proxy"))
    BY <2>2, TypeFacts, FourActors, AlertConstants DEF AlertsHeld, DirtyList, Fresh, List
  <2>. QED
    BY <2>1, <2>2, <2>3, <2>4, <2>5 DEF Writing
<1>1. QuietBot'
  BY FillFacts, FourActors DEF AlertsHeld, QuietBot, Others
<1>2. OneMove'
  BY FillFacts DEF AlertsHeld, OneMove, Others
<1>3. SavedInCache'
  BY <1>0, FillFacts, TypeFacts, AlertConstants DEF AlertsHeld, SavedInCache
<1>4. FileMade'
  BY FillFacts DEF AlertsHeld, FileMade
<1>5. DirtyList'
  BY FillFacts, FourActors, TypeFacts, AlertConstants
     DEF AlertsHeld, DirtyList, Others, Writing, List, AlertsShape, UserShape
<1>6. InOrder'
  <2>1. CASE p = "proxy"
    <3>1. /\ List' = file /\ file' = file /\ Known' = Known /\ at'[User("proxy")] = "use"
          /\ at'[Flusher("proxy")] # "move"
      BY <1>0, <2>1, FillFacts, FourActors, SameKnown DEF List, Others, Writing
    <3>2. Follows(file, file)
      BY <1>0, <2>1, FollowsItself
    <3>. QED
      BY <1>0, <2>1, <3>1, <3>2 DEF InOrder
  <2>2. CASE p = "bot"
    <3>1. UNCHANGED <<List, file, Known>> /\ UNCHANGED <<at[User("proxy")], at[Flusher("proxy")],
              local[User("proxy")], local[Flusher("proxy")]>>
      BY <2>2, FillFacts, FourActors, SameKnown DEF List, Others
    <3>. QED
      BY <3>1 DEF AlertsHeld, InOrder
  <2>. QED
    BY <2>1, <2>2, FourActors
<1>7. OnDisk'
  <2>1. CASE p = "proxy"
    <3>1. /\ List' = file /\ UNCHANGED <<file, dirty, log, Known>> /\ at'[User("proxy")] = "use"
          /\ UNCHANGED <<at[Flusher("proxy")], local[Flusher("proxy")]>>
      BY <1>0, <2>1, FillFacts, FourActors, SameKnown DEF List, Others
    <3>2. \A n \in Known : Covers(file, n)
      BY <1>0, <2>1 DEF AlertsHeld, OnDisk
    <3>. QED
      BY <1>0, <2>1, <3>1, <3>2 DEF OnDisk, Writing
  <2>2. CASE p = "bot"
    <3>1. UNCHANGED <<List, file, dirty, log, Known>> /\ UNCHANGED <<at[User("proxy")], at[Flusher("proxy")],
              local[User("proxy")], local[Flusher("proxy")]>>
      BY <2>2, FillFacts, FourActors, SameKnown DEF List, Others
    <3>. QED
      BY <3>1 DEF AlertsHeld, OnDisk, Writing
  <2>. QED
    BY <2>1, <2>2, FourActors
<1>8. BotCopy'
  BY FillFacts, FourActors, SameKnown, AlertConstants
     DEF AlertsHeld, BotCopy, FileMade, Others, Writing
<1>. QED
  BY <1>1, <1>2, <1>3, <1>4, <1>5, <1>6, <1>7, <1>8 DEF AlertsHeld

LEMMA SaveDefaultHeld ==
    ASSUME AlertsTypeOK, AlertsShape, AlertsHeld, NEW p \in Procs, SaveDefault(p), upset' = {}
    PROVE  AlertsHeld'
<1>0. /\ at[User(p)] = "default" /\ at'[User(p)] = "dump" /\ local'[User(p)].next = "use"
      /\ ~Fresh(p) /\ file = None /\ Known = {}
      /\ cache'[p].data = <<>> /\ cache'[p].age = 0 /\ <<>> # None /\ <<>> \in Recent
      /\ ~dirty'[p] /\ lastSave'[p] = 0
      /\ \A q \in Procs : q # p => /\ cache'[q] = cache[q] /\ dirty'[q] = dirty[q]
                                   /\ lastSave'[q] = lastSave[q]
      /\ SameLocals(User(p)) /\ Others(User(p))
      /\ UNCHANGED <<file, log, Known>>
  <2>1. at[User(p)] = "default" /\ Save(p, <<>>, "use") /\ file = None /\ UNCHANGED <<file, log, Known>>
    BY SaveDefaultFacts, SameKnown
  <2>2. ~Fresh(p)
    BY <2>1 DEF AlertsShape, UserShape
  <2>3. ~(lastSave[p] < Gap)
    BY <2>2, TypeFacts, AlertConstants DEF AlertsHeld, SavedInCache, Fresh
  <2>4. Known = {}
    BY <2>1 DEF AlertsHeld, FileMade
  <2>5. <<>> \in Recent /\ <<>> # None
    BY RecentFacts, AlertConstants
  <2>. QED
    BY <2>1, <2>2, <2>3, <2>4, <2>5, SaveFacts
<1>1. QuietBot'
  BY <1>0, FourActors DEF AlertsHeld, QuietBot, Others
<1>2. OneMove'
  BY <1>0 DEF AlertsHeld, OneMove, Others, Writing, Fresh, DirtyList
<1>3. SavedInCache'
  BY <1>0 DEF AlertsHeld, SavedInCache, DirtyList
<1>4. FileMade'
  BY <1>0, FourActors DEF AlertsHeld, FileMade, Others, Writing, List, Fresh, DirtyList
<1>5. DirtyList'
  BY <1>0, FourActors, AlertConstants DEF AlertsHeld, DirtyList, Others, Writing, List
<1>6. InOrder'
  <2>1. CASE p = "proxy"
    <3>1. at[Flusher("proxy")] # "move"
      BY <1>0, <2>1, TypeFacts, AlertConstants DEF AlertsHeld, DirtyList, Writing, List, Fresh
    <3>2. at'[Flusher("proxy")] # "move" /\ at'[User("proxy")] = "dump" /\ List' = <<>> /\ file' = None
      BY <1>0, <2>1, <3>1, FourActors DEF Others, List
    <3>. QED
      BY <3>2, NothingSorted DEF InOrder
  <2>2. CASE p = "bot"
    <3>1. UNCHANGED <<List, file, Known>> /\ UNCHANGED <<at[User("proxy")], at[Flusher("proxy")],
              local[User("proxy")], local[Flusher("proxy")]>>
      BY <1>0, <2>2, FourActors DEF List, Others
    <3>. QED
      BY <3>1 DEF AlertsHeld, InOrder
  <2>. QED
    BY <2>1, <2>2, FourActors
<1>7. OnDisk'
  BY SaveDefaultFacts, SameKnown DEF AlertsHeld, OnDisk, FileMade
<1>8. BotCopy'
  <2>1. CASE p = "bot"
    <3>1. at'[User("bot")] = "dump" /\ cache'["bot"].data = <<>> /\ cache'["bot"].age < Ttl
          /\ Known' = {} /\ file' = file
      BY <1>0, <2>1, AlertConstants
    <3>2. Follows(<<>>, file)
      BY NothingFull, ShortFollows
    <3>. QED
      BY <3>1, <3>2 DEF BotCopy
  <2>2. CASE p = "proxy"
    BY <1>0, <2>2, FourActors DEF AlertsHeld, BotCopy, Others, Writing
  <2>. QED
    BY <2>1, <2>2, FourActors
<1>. QED
  BY <1>1, <1>2, <1>3, <1>4, <1>5, <1>6, <1>7, <1>8 DEF AlertsHeld

LEMMA FlushHeld ==
    ASSUME AlertsTypeOK, AlertsShape, AlertsHeld, NEW p \in Procs, Flush(p)
    PROVE  AlertsHeld'
<1>1. QuietBot'
  BY FlushFacts, FourActors DEF AlertsHeld, QuietBot, Others
<1>2. OneMove'
  BY FlushFacts DEF AlertsHeld, OneMove, Others
<1>3. SavedInCache'
  BY FlushFacts DEF AlertsHeld, SavedInCache
<1>4. FileMade'
  BY FlushFacts, FourActors, SameKnown DEF AlertsHeld, FileMade, Others, Writing
<1>5. DirtyList'
  BY FlushFacts, FourActors DEF AlertsHeld, DirtyList, Others, Writing, List
<1>6. InOrder'
  BY FlushFacts, FourActors, SameKnown DEF AlertsHeld, InOrder, Others, List
<1>7. OnDisk'
  BY FlushFacts, FourActors, SameKnown, TypeFacts DEF AlertsHeld, OnDisk, Others, Writing, List
<1>8. BotCopy'
  BY FlushFacts, FourActors, SameKnown DEF AlertsHeld, BotCopy, Others, Writing
<1>. QED
  BY <1>1, <1>2, <1>3, <1>4, <1>5, <1>6, <1>7, <1>8 DEF AlertsHeld

LEMMA ShownHeld ==
    ASSUME AlertsTypeOK, AlertsShape, AlertsHeld, NEW p \in Procs, Shown(p)
    PROVE  AlertsHeld'
<1>1. QuietBot'
  BY ShownFacts, FourActors DEF AlertsHeld, QuietBot, Others
<1>2. OneMove'
  BY ShownFacts DEF AlertsHeld, OneMove, Others
<1>3. SavedInCache'
  BY ShownFacts DEF AlertsHeld, SavedInCache
<1>4. FileMade'
  BY ShownFacts DEF AlertsHeld, FileMade, Writing, AlertsShape, UserShape
<1>5. DirtyList'
  BY ShownFacts, FourActors DEF AlertsHeld, DirtyList, Others, Writing, List
<1>6. InOrder'
  BY ShownFacts, FourActors, SameKnown DEF AlertsHeld, InOrder, Others, List
<1>7. OnDisk'
  BY ShownFacts, FourActors, SameKnown DEF AlertsHeld, OnDisk, Others, Writing, List
<1>8. BotCopy'
  BY ShownFacts, FourActors, SameKnown DEF AlertsHeld, BotCopy, Others, Writing
<1>. QED
  BY <1>1, <1>2, <1>3, <1>4, <1>5, <1>6, <1>7, <1>8 DEF AlertsHeld

LEMMA RestartHeld ==
    ASSUME AlertsTypeOK, AlertsShape, AlertsHeld, NEW p \in Procs, Restart(p)
    PROVE  AlertsHeld'
<1>1. QuietBot'
  BY RestartFacts, FourActors DEF AlertsHeld, QuietBot
<1>2. OneMove'
  BY RestartFacts, FourActors DEF AlertsHeld, OneMove
<1>3. SavedInCache'
  BY RestartFacts, AlertConstants DEF AlertsHeld, SavedInCache
<1>4. FileMade'
  BY RestartFacts DEF AlertsHeld, FileMade, Writing
<1>5. DirtyList'
  BY RestartFacts, FourActors DEF AlertsHeld, DirtyList, Writing, List
<1>6. InOrder'
  <2>1. CASE p = "proxy"
    <3>1. file # None => Sorted(file, Known')
      <4>1. HAVE file # None
      <4>2. Sorted(file, Known)
        BY <4>1 DEF AlertsHeld, InOrder
      <4>3. \A i \in 1 .. Len(file) : file[i] \in ToSet(file) /\ file[i] \in Known
        BY <4>1, <4>2, TypeFacts, RecentFacts DEF ToSet, Sorted
      <4>4. \A i \in 1 .. Len(file) : file[i] \in Known'
        BY <4>1, <4>3, RestartFacts
      <4>. QED
        BY <4>2, <4>4 DEF Sorted
    <3>2. List' = None /\ file' = file /\ at'[User("proxy")] = "idle" /\ at'[Flusher("proxy")] = "asleep"
      BY <2>1, RestartFacts DEF List
    <3>. QED
      BY <3>1, <3>2 DEF InOrder
  <2>2. CASE p = "bot"
    <3>1. UNCHANGED <<List, file, Known>> /\ UNCHANGED <<at[User("proxy")], at[Flusher("proxy")],
              local[User("proxy")], local[Flusher("proxy")]>>
      BY <2>2, RestartFacts, FourActors DEF List
    <3>. QED
      BY <3>1 DEF AlertsHeld, InOrder
  <2>. QED
    BY <2>1, <2>2, FourActors
<1>7. OnDisk'
  <2>1. CASE p = "proxy"
    <3>1. \A n \in Known' : Covers(file, n)
      <4>1. TAKE n \in Known'
      <4>2. n \in Known /\ (log[n] > Pause \/ (file # None /\ n \in ToSet(file)))
        BY <2>1, RestartFacts
      <4>3. CASE log[n] > Pause
        BY <4>2, <4>3, TypeFacts, FourActors, AlertConstants DEF AlertsHeld, OnDisk
      <4>4. CASE file # None /\ n \in ToSet(file)
        BY <4>4, TypeFacts, RecentFacts DEF ToSet, Covers
      <4>. QED
        BY <4>2, <4>3, <4>4
    <3>2. List' = None /\ file' = file /\ at'[User("proxy")] = "idle" /\ at'[Flusher("proxy")] = "asleep"
      BY <2>1, RestartFacts DEF List
    <3>. QED
      BY <3>1, <3>2 DEF OnDisk, Writing
  <2>2. CASE p = "bot"
    <3>1. UNCHANGED <<List, file, Known, dirty["proxy"]>> /\ (\A n \in Known' : log'[n] = log[n])
          /\ UNCHANGED <<at[User("proxy")], at[Flusher("proxy")],
              local[User("proxy")], local[Flusher("proxy")]>>
      BY <2>2, RestartFacts, FourActors DEF List
    <3>. QED
      BY <3>1 DEF AlertsHeld, OnDisk, Writing
  <2>. QED
    BY <2>1, <2>2, FourActors
<1>8. BotCopy'
  BY RestartFacts, FourActors DEF AlertsHeld, BotCopy, Writing
<1>. QED
  BY <1>1, <1>2, <1>3, <1>4, <1>5, <1>6, <1>7, <1>8 DEF AlertsHeld

LEMMA DumpHeld ==
    ASSUME AlertsTypeOK, AlertsShape, AlertsHeld, NEW a \in Actors, Dump(a), upset' = {}
    PROVE  AlertsHeld'
<1>1. QuietBot'
  BY DumpFacts, FourActors DEF AlertsHeld, QuietBot, Others
<1>2. OneMove'
  BY DumpFacts DEF OneMove, Others
<1>3. SavedInCache'
  BY DumpFacts DEF AlertsHeld, SavedInCache
<1>4. FileMade'
  BY DumpFacts, FourActors, SameKnown DEF AlertsHeld, FileMade, Others, Writing
<1>5. DirtyList'
  BY DumpFacts, FourActors DEF AlertsHeld, DirtyList, Others, Writing, List
<1>6. InOrder'
  <2>1. UNCHANGED <<List, file, Known>>
    BY DumpFacts, SameKnown DEF List
  <2>2. CASE a = Flusher("proxy")
    <3>1. /\ UNCHANGED <<at[User("proxy")], local[User("proxy")]>>
          /\ local'[Flusher("proxy")].copy = List /\ List # None
      BY <2>2, DumpFacts, FourActors DEF List, Others, AlertsHeld, DirtyList, Writing
    <3>2. List \in Recent /\ Follows(List, List)
      BY <3>1, TypeFacts, FourActors, FollowsItself DEF List
    <3>. QED
      BY <2>1, <3>1, <3>2 DEF AlertsHeld, InOrder
  <2>3. CASE a = User("proxy")
    <3>1. /\ UNCHANGED <<at[Flusher("proxy")], local[Flusher("proxy")]>>
          /\ local'[User("proxy")].copy = List /\ at'[User("proxy")] = "move"
      BY <2>3, DumpFacts, FourActors DEF List, Others
    <3>. QED
      BY <2>1, <3>1 DEF AlertsHeld, InOrder
  <2>4. CASE a # Flusher("proxy") /\ a # User("proxy")
    <3>1. UNCHANGED <<at[User("proxy")], at[Flusher("proxy")],
              local[User("proxy")], local[Flusher("proxy")]>>
      BY <2>4, DumpFacts, FourActors DEF Others
    <3>. QED
      BY <2>1, <3>1 DEF AlertsHeld, InOrder
  <2>. QED
    BY <2>2, <2>3, <2>4
<1>7. OnDisk'
  BY DumpFacts, FourActors, SameKnown DEF AlertsHeld, OnDisk, DirtyList, Others, Writing, List
<1>8. BotCopy'
  BY DumpFacts, FourActors, SameKnown DEF AlertsHeld, BotCopy, Others, Writing
<1>. QED
  BY <1>1, <1>2, <1>3, <1>4, <1>5, <1>6, <1>7, <1>8 DEF AlertsHeld

LEMMA MoveHeld ==
    ASSUME AlertsTypeOK, AlertsShape, AlertsHeld, NEW a \in Actors, Move(a), upset' = {}
    PROVE  AlertsHeld'
<1>0. /\ at[a] = "move" /\ file' = local[a].copy /\ Others(a)
      /\ UNCHANGED <<cache, dirty, lastSave, log, Known, List>>
      /\ local[a].next = "use" => file = None /\ Known = {}
      /\ file' # None /\ file' \in Recent
      /\ \A b \in Actors : b # a => at[b] # "move"
      /\ a = User("proxy") \/ a = Flusher("proxy") \/ a = User("bot")
      /\ a = User("proxy") => file' = List /\ List # None /\ at'[a] \in {"use", "idle"}
      /\ a = User("bot") => /\ file' = <<>> /\ file = None /\ Known = {} /\ at'[a] = "use"
      /\ a = Flusher("proxy") => List # None /\ at'[a] = "asleep" /\ local'[a].wait = Pause
  <2>1. /\ at[a] = "move" /\ file' = local[a].copy /\ Others(a)
        /\ UNCHANGED <<cache, dirty, lastSave, log, Known, List>>
        /\ local[a].next = "use" => file = None
    BY MoveFacts, SameKnown DEF List
  <2>2. file = None => Known = {}
    BY DEF AlertsHeld, FileMade
  <2>3. \A b \in Actors : b # a => at[b] # "move"
    BY <2>1 DEF AlertsHeld, OneMove
  <2>4. a = User("proxy") \/ a = Flusher("proxy") \/ a = User("bot")
    BY <2>1, FourActors DEF AlertsHeld, QuietBot
  <2>5. a = User("proxy") => file' = List /\ List # None /\ at'[a] \in {"use", "idle"}
    BY <2>1, MoveFacts, FourActors, TypeFacts
       DEF AlertsHeld, InOrder, AlertsShape, UserShape, List
  <2>6. a = User("bot") => file' = <<>> /\ local[a].next = "use" /\ at'[a] = "use"
    BY <2>1, MoveFacts, FourActors DEF AlertsHeld, BotCopy, AlertsShape, BotShape, Writing
  <2>7. a = Flusher("proxy") => /\ List # None /\ at'[a] = "asleep" /\ local'[a].wait = Pause
                                /\ local[a].copy # None
    BY <2>1, MoveFacts, FourActors DEF AlertsHeld, DirtyList, InOrder, Writing
  <2>8. file' # None /\ file' \in Recent
    BY <2>1, <2>4, <2>5, <2>6, <2>7, TypeFacts, RecentFacts, AlertConstants
  <2>. QED
    BY <2>1, <2>2, <2>3, <2>4, <2>5, <2>6, <2>7, <2>8
<1>1. QuietBot'
  BY MoveFacts, FourActors DEF AlertsHeld, QuietBot, Others
<1>2. OneMove'
  BY MoveFacts DEF AlertsHeld, OneMove, Others
<1>3. SavedInCache'
  BY MoveFacts DEF AlertsHeld, SavedInCache
<1>4. FileMade'
  BY <1>0 DEF FileMade
<1>5. DirtyList'
  BY MoveFacts, FourActors, AlertConstants DEF AlertsHeld, DirtyList, Others, Writing, List
<1>6. InOrder'
  <2>1. at'[Flusher("proxy")] # "move" /\ at'[User("proxy")] # "move"
    BY <1>0, FourActors DEF Others
  <2>2. at'[User("proxy")] # "fill"
    <3>1. CASE a = User("proxy")
      BY <1>0, <3>1
    <3>2. CASE a = User("bot")
      BY <1>0, <3>2, FourActors DEF Others, AlertsHeld, FileMade
    <3>3. CASE a = Flusher("proxy")
      <4>1. Fresh("proxy")
        BY <1>0, <3>3, TypeFacts, FourActors, AlertConstants
           DEF AlertsHeld, DirtyList, Writing, Fresh, List
      <4>. QED
        BY <1>0, <3>3, <4>1, FourActors DEF Others, AlertsShape, UserShape
    <3>. QED
      BY <1>0, <3>1, <3>2, <3>3
  <2>3. Sorted(file', Known) /\ (List # None => Follows(file', List))
    <3>1. CASE a = User("proxy")
      BY <1>0, <3>1, FollowsItself DEF AlertsHeld, InOrder
    <3>2. CASE a = User("bot")
      BY <1>0, <3>2, NothingSorted, NothingFollowed
    <3>3. CASE a = Flusher("proxy")
      BY <1>0, <3>3 DEF AlertsHeld, InOrder
    <3>. QED
      BY <1>0, <3>1, <3>2, <3>3
  <2>. QED
    BY <1>0, <2>1, <2>2, <2>3 DEF AlertsHeld, InOrder
<1>7. OnDisk'
  <2>1. CASE a = User("proxy")
    BY <1>0, <2>1, FourActors DEF Others, AlertsHeld, OnDisk, Writing
  <2>2. CASE a = User("bot")
    BY <1>0, <2>2 DEF OnDisk
  <2>3. CASE a = Flusher("proxy")
    <3>1. /\ UNCHANGED <<List, dirty, log, Known, at[User("proxy")]>> /\ List # None
          /\ at[Flusher("proxy")] = "move" /\ at'[Flusher("proxy")] = "asleep"
          /\ local'[Flusher("proxy")].wait = Pause /\ file' = local[Flusher("proxy")].copy
          /\ at[User("proxy")] # "move"
      BY <1>0, <2>3, FourActors DEF Others
    <3>2. \A n \in Known : /\ Covers(List, n)
                           /\ Covers(file', n) \/ (log[n] = 0 /\ (dirty["proxy"] \/ at[User("proxy")] = "dump"))
      BY <3>1 DEF AlertsHeld, OnDisk
    <3>. QED
      BY <3>1, <3>2, AlertConstants DEF OnDisk, Writing
  <2>. QED
    BY <1>0, <2>1, <2>2, <2>3
<1>8. BotCopy'
  <2>1. CASE a = User("bot")
    <3>1. UNCHANGED <<cache, Known>> /\ Known = {} /\ at'[User("bot")] = "use"
          /\ cache["bot"].data = <<>> /\ cache["bot"].age < Ttl
      BY <1>0, <2>1 DEF AlertsHeld, BotCopy, Writing
    <3>. QED
      BY <3>1, NothingFollowed DEF BotCopy, Writing
  <2>2. CASE a # User("bot")
    <3>1. UNCHANGED <<cache, Known, log, at[User("bot")], local[User("bot")]>>
      BY <1>0, <2>2, FourActors DEF Others
    <3>2. file # None => file \in Recent /\ file' \in Recent /\ Follows(file, file')
      <4>1. HAVE file # None
      <4>2. CASE a = User("proxy")
        BY <1>0, <4>1, <4>2, TypeFacts DEF AlertsHeld, InOrder
      <4>3. CASE a = Flusher("proxy")
        BY <1>0, <4>1, <4>3, TypeFacts DEF AlertsHeld, InOrder
      <4>. QED
        BY <1>0, <2>2, <4>2, <4>3
    <3>3. cache["bot"].data # None => Follows(cache["bot"].data, file')
      <4>1. HAVE cache["bot"].data # None
      <4>2. Follows(cache["bot"].data, file) /\ cache["bot"].data \in Recent
        BY <4>1, TypeFacts, FourActors DEF AlertsHeld, BotCopy
      <4>3. CASE file = None
        <5>1. cache["bot"].data = <<>>
          BY <4>1, <4>3, FourActors DEF AlertsHeld, FileMade, BotCopy
        <5>. QED
          BY <5>1, NothingFollowed
      <4>4. CASE file # None
        BY <3>2, <4>2, <4>4, FollowsOn
      <4>. QED
        BY <4>3, <4>4
    <3>4. at[User("bot")] = "fill" => Follows(local[User("bot")].copy, file')
      <4>1. HAVE at[User("bot")] = "fill"
      <4>2. Follows(local[User("bot")].copy, file) /\ file # None
        BY <4>1, FourActors DEF AlertsHeld, BotCopy, FileMade
      <4>3. local[User("bot")].copy \in Recent
        BY <4>1, FourActors, TypeFacts DEF AlertsShape, UserShape
      <4>. QED
        BY <3>2, <4>2, <4>3, FollowsOn
    <3>. QED
      BY <3>1, <3>3, <3>4 DEF AlertsHeld, BotCopy, Writing
  <2>. QED
    BY <2>1, <2>2
<1>. QED
  BY <1>1, <1>2, <1>3, <1>4, <1>5, <1>6, <1>7, <1>8 DEF AlertsHeld

LEMMA TriggerHeld ==
    ASSUME AlertsTypeOK, AlertsShape, AlertsHeld, Trigger
    PROVE  AlertsHeld'
<1>1. QuietBot'
  BY TriggerFacts, FourActors DEF AlertsHeld, QuietBot, Others
<1>2. OneMove'
  BY TriggerFacts DEF AlertsHeld, OneMove, Others
<1>3. SavedInCache'
  BY TriggerFacts DEF AlertsHeld, SavedInCache
<1>4. FileMade'
  BY TriggerFacts, FourActors, SameKnown DEF AlertsHeld, FileMade, Others, Writing
<1>5. DirtyList'
  BY TriggerFacts, FourActors DEF AlertsHeld, DirtyList, Others, Writing, List
<1>6. InOrder'
  BY TriggerFacts, FourActors, SameKnown DEF AlertsHeld, InOrder, Others, List
<1>7. OnDisk'
  BY TriggerFacts, FourActors, SameKnown DEF AlertsHeld, OnDisk, Others, Writing, List
<1>8. BotCopy'
  BY TriggerFacts, FourActors, SameKnown DEF AlertsHeld, BotCopy, Others, Writing
<1>. QED
  BY <1>1, <1>2, <1>3, <1>4, <1>5, <1>6, <1>7, <1>8 DEF AlertsHeld

LEMMA ShowHeld == ASSUME AlertsTypeOK, AlertsShape, AlertsHeld, Show PROVE AlertsHeld'
<1>1. QuietBot'
  BY ShowFacts, FourActors DEF AlertsHeld, QuietBot, Others
<1>2. OneMove'
  BY ShowFacts DEF AlertsHeld, OneMove, Others
<1>3. SavedInCache'
  BY ShowFacts DEF AlertsHeld, SavedInCache
<1>4. FileMade'
  BY ShowFacts, FourActors, SameKnown DEF AlertsHeld, FileMade, Others, Writing
<1>5. DirtyList'
  BY ShowFacts, FourActors DEF AlertsHeld, DirtyList, Others, Writing, List
<1>6. InOrder'
  BY ShowFacts, FourActors, SameKnown DEF AlertsHeld, InOrder, Others, List
<1>7. OnDisk'
  BY ShowFacts, FourActors, SameKnown DEF AlertsHeld, OnDisk, Others, Writing, List
<1>8. BotCopy'
  BY ShowFacts, SameKnown DEF AlertsHeld, BotCopy, Writing, Fresh
<1>. QED
  BY <1>1, <1>2, <1>3, <1>4, <1>5, <1>6, <1>7, <1>8 DEF AlertsHeld

LEMMA NotifyHeld == ASSUME AlertsTypeOK, AlertsShape, AlertsHeld, Notify PROVE AlertsHeld'
<1>1. QuietBot'
  BY NotifyFacts, FourActors DEF AlertsHeld, QuietBot, Others
<1>2. OneMove'
  BY NotifyFacts DEF AlertsHeld, OneMove, Others
<1>3. SavedInCache'
  BY NotifyFacts DEF AlertsHeld, SavedInCache
<1>4. FileMade'
  BY NotifyFacts, FourActors DEF AlertsHeld, FileMade, Writing, AlertsShape, UserShape
<1>5. DirtyList'
  BY NotifyFacts, FourActors DEF AlertsHeld, DirtyList, Others, Writing, List
<1>6. InOrder'
  BY NotifyFacts, FourActors, SameKnown DEF AlertsHeld, InOrder, Others, List
<1>7. OnDisk'
  BY NotifyFacts, FourActors, SameKnown DEF AlertsHeld, OnDisk, Others, Writing, List
<1>8. BotCopy'
  BY NotifyFacts, FourActors, SameKnown DEF AlertsHeld, BotCopy, Others, Writing
<1>. QED
  BY <1>1, <1>2, <1>3, <1>4, <1>5, <1>6, <1>7, <1>8 DEF AlertsHeld

LEMMA RecordHeld == ASSUME AlertsTypeOK, AlertsShape, AlertsHeld, Record PROVE AlertsHeld'
<1>0. /\ at[User("proxy")] = "posting" /\ List \in Recent /\ List # None /\ file # None
      /\ Known' = Known \cup {Newest + 1} /\ Newest + 1 \notin Known
      /\ log'[Newest + 1] = 0 /\ \A n \in Known : log'[n] = log[n]
      /\ List' \in Recent /\ cache'["proxy"].age = 0 /\ cache'["bot"] = cache["bot"]
      /\ dirty'["proxy"] \/ at'[User("proxy")] = "dump"
      /\ Others(User("proxy")) /\ UNCHANGED file
      /\ Sorted(List', Known') /\ Follows(List, List') /\ Covers(List', Newest + 1)
      /\ \A n \in Known : Covers(List', n)
      /\ at'[User("proxy")] \in {"idle", "dump"} /\ (dirty'["proxy"] => at'[User("proxy")] = "idle")
  <2>1. /\ at[User("proxy")] = "posting" /\ List \in Recent /\ Newest + 1 \in AlertIds
        /\ LastOf(Append(List, Newest + 1)) \in Recent
        /\ Save("proxy", LastOf(Append(List, Newest + 1)), "idle")
        /\ log'[Newest + 1] = 0 /\ \A n \in AlertIds : n # Newest + 1 => log'[n] = log[n]
        /\ Known' = Known \cup {Newest + 1} /\ UNCHANGED file
    BY RecordFacts
  <2>2. /\ cache'["proxy"].data = LastOf(Append(List, Newest + 1)) /\ cache'["proxy"].age = 0
        /\ cache'["bot"] = cache["bot"]
        /\ dirty'["proxy"] \/ at'[User("proxy")] = "dump"
        /\ Others(User("proxy"))
        /\ at'[User("proxy")] \in {"idle", "dump"} /\ (dirty'["proxy"] => at'[User("proxy")] = "idle")
    BY <2>1, SaveFacts, FourActors
  <2>3. List' = LastOf(Append(List, Newest + 1))
    BY <2>2 DEF List
  <2>4. List # None /\ file # None
    BY <2>1, FourActors, AlertConstants DEF AlertsHeld, FileMade, Writing, List
  <2>5. Sorted(List, Known) /\ \A n \in Known : Covers(List, n)
    BY <2>4 DEF AlertsHeld, InOrder, OnDisk
  <2>6. Known \in SUBSET AlertIds /\ Newest + 1 \notin Known /\ \A n \in Known : n < Newest + 1
    BY NewestFacts
  <2>7. /\ Sorted(List', Known') /\ Follows(List, List') /\ Covers(List', Newest + 1)
        /\ \A n \in Known : Covers(List', n)
    BY <2>1, <2>3, <2>5, <2>6, AppendKeeps
  <2>8. \A n \in Known : log'[n] = log[n]
    BY <2>1, <2>6
  <2>. QED
    BY <2>1, <2>2, <2>3, <2>4, <2>6, <2>7, <2>8
<1>1. QuietBot'
  BY RecordFacts, SaveFacts, FourActors DEF AlertsHeld, QuietBot, Others
<1>2. OneMove'
  BY RecordFacts, SaveFacts, FourActors DEF AlertsHeld, OneMove, Others
<1>3. SavedInCache'
  BY RecordFacts, SaveFacts, FourActors, AlertConstants DEF AlertsHeld, SavedInCache
<1>4. FileMade'
  BY RecordFacts, FourActors DEF AlertsHeld, FileMade, Writing, AlertsShape, UserShape
<1>5. DirtyList'
  BY RecordFacts, SaveFacts, FourActors, TypeFacts, AlertConstants
     DEF DirtyList, Others, Writing, List
<1>6. InOrder'
  <2>1. at'[User("proxy")] # "fill" /\ at'[User("proxy")] # "move"
        /\ UNCHANGED <<at[Flusher("proxy")], local[Flusher("proxy")]>>
    BY <1>0, FourActors DEF Others
  <2>2. file \in Recent /\ Sorted(file, Known) /\ Follows(file, List)
    BY <1>0, TypeFacts DEF AlertsHeld, InOrder
  <2>3. Sorted(file, Known') /\ Follows(file, List')
    BY <1>0, <2>2, FollowsOn, SortedInMore
  <2>4. at[Flusher("proxy")] = "move" =>
            /\ local[Flusher("proxy")].copy # None
            /\ Sorted(local[Flusher("proxy")].copy, Known')
            /\ Follows(file, local[Flusher("proxy")].copy)
            /\ Follows(local[Flusher("proxy")].copy, List')
    <3>1. HAVE at[Flusher("proxy")] = "move"
    <3>2. /\ local[Flusher("proxy")].copy \in Recent
          /\ local[Flusher("proxy")].copy # None
          /\ Sorted(local[Flusher("proxy")].copy, Known)
          /\ Follows(file, local[Flusher("proxy")].copy)
          /\ Follows(local[Flusher("proxy")].copy, List)
      BY <1>0, <3>1, FourActors, TypeFacts DEF AlertsHeld, InOrder
    <3>. QED
      BY <1>0, <3>2, FollowsOn, SortedInMore
  <2>. QED
    BY <1>0, <2>1, <2>3, <2>4 DEF InOrder
<1>7. OnDisk'
  <2> DEFINE F == Flusher("proxy")
  <2>1. at'[F] = at[F] /\ local'[F] = local[F] /\ ~Writing(User("proxy"))
        /\ local[F].wait \in Nat /\ local[F].wait <= Pause
    BY <1>0, FourActors, TypeFacts DEF Others, Writing
  <2>2. ASSUME NEW n \in Known
        PROVE  /\ Covers(List', n) /\ log'[n] = log[n] /\ log[n] \in Nat
               /\ at[F] = "move" => Covers(local[F].copy, n) \/ log[n] = 0
               /\ ~Writing(F) => Covers(file, n) \/ log[n] + local[F].wait <= Pause
               /\ Writing(F) => Covers(file, n) \/ log[n] <= Pause
    BY <1>0, <2>1, TypeFacts DEF AlertsHeld, OnDisk
  <2>3. ASSUME NEW n \in Known'
        PROVE  /\ Covers(List', n) /\ log'[n] \in Nat
               /\ at[F] = "move" => Covers(local[F].copy, n) \/ log'[n] = 0
               /\ ~Writing(F) => Covers(file, n) \/ log'[n] + local[F].wait <= Pause
               /\ Writing(F) => Covers(file, n) \/ log'[n] <= Pause
    BY <1>0, <2>1, <2>2, AlertConstants
  <2>. QED
    BY <1>0, <2>1, <2>3, AlertConstants DEF OnDisk, Writing
<1>8. BotCopy'
  <2>1. UNCHANGED <<cache["bot"], file, at[User("bot")], local[User("bot")]>>
    BY <1>0, FourActors DEF Others
  <2>2. \A n \in Known' : log'[n] > Pause => n \in Known /\ log'[n] = log[n]
    BY <1>0, AlertConstants
  <2>3. \A n \in Known' : log'[n] > Pause + cache["bot"].age => log'[n] > Pause
    <3>1. cache["bot"].age \in Nat
      BY TypeFacts, FourActors
    <3>2. \A n \in Known' : log'[n] \in Nat
      BY <1>0, TypeFacts
    <3>. QED
      BY <3>1, <3>2, AlertConstants
  <2>. QED
    BY <2>1, <2>2, <2>3 DEF AlertsHeld, BotCopy, Writing
<1>. QED
  BY <1>1, <1>2, <1>3, <1>4, <1>5, <1>6, <1>7, <1>8 DEF AlertsHeld

LEMMA TickHeld ==
    ASSUME AlertsTypeOK, AlertsShape, AlertsHeld, AlertsTick
    PROVE  AlertsHeld'
<1>1. QuietBot'
  BY TickFacts DEF AlertsHeld, QuietBot
<1>2. OneMove'
  BY TickFacts, FourActors DEF OneMove
<1>3. SavedInCache'
  <2>1. SUFFICES ASSUME NEW p \in Procs, lastSave'[p] < Gap
                 PROVE  cache'[p].data # None /\ cache'[p].age <= lastSave'[p]
    BY DEF SavedInCache
  <2>3. lastSave[p] < Gap /\ lastSave'[p] = lastSave[p] + 1
    BY <2>1, TickFacts, TypeFacts, OlderFacts, AlertConstants
  <2>4. cache[p].data # None /\ cache[p].age <= lastSave[p]
    BY <2>3 DEF AlertsHeld, SavedInCache
  <2>5. cache'[p].data # None /\ cache'[p].age <= cache[p].age + 1 /\ cache'[p].age \in Nat
    BY <2>4, TickFacts, TypeFacts, OlderFacts, AlertConstants
  <2>. QED
    BY <2>3, <2>4, <2>5, TypeFacts
<1>4. FileMade'
  BY TickFacts DEF AlertsHeld, FileMade, Writing
<1>5. DirtyList'
  <2>1. /\ at[Flusher("proxy")] = "asleep" /\ UNCHANGED <<at, dirty, List>>
        /\ at[User("proxy")] \in {"idle", "posting"}
        /\ local[Flusher("proxy")].wait \in Nat /\ local[Flusher("proxy")].wait > 0
        /\ local'[Flusher("proxy")].wait = local[Flusher("proxy")].wait - 1
    BY TickFacts, TypeFacts, FourActors DEF AlertsHeld, QuietBot, List
  <2>2. dirty["proxy"] => /\ List # None /\ cache["proxy"].age \in Nat
                          /\ cache["proxy"].age + local[Flusher("proxy")].wait <= Pause
    BY <2>1, TypeFacts, FourActors DEF AlertsHeld, DirtyList
  <2>3. dirty["proxy"] => cache'["proxy"].age = cache["proxy"].age + 1
    BY <2>1, <2>2, TickFacts, TypeFacts, FourActors, OlderFacts, AlertConstants
  <2>. QED
    BY <2>1, <2>2, <2>3, AlertConstants DEF DirtyList, Writing
<1>6. InOrder'
  BY TickFacts, FourActors DEF AlertsHeld, InOrder, List
<1>7. OnDisk'
  <2>1. /\ at[Flusher("proxy")] = "asleep" /\ UNCHANGED <<at, dirty, List, file, Known>>
        /\ at[User("proxy")] \in {"idle", "posting"}
        /\ local[Flusher("proxy")].wait \in Nat /\ local[Flusher("proxy")].wait > 0
        /\ local'[Flusher("proxy")].wait = local[Flusher("proxy")].wait - 1
    BY TickFacts, TypeFacts, FourActors DEF AlertsHeld, QuietBot, List
  <2>2. ASSUME NEW n \in Known
        PROVE  Covers(file, n) \/ (dirty["proxy"] /\ log'[n] + local'[Flusher("proxy")].wait <= Pause)
    <3>1. Covers(file, n) \/ (dirty["proxy"] /\ log[n] + local[Flusher("proxy")].wait <= Pause)
      BY <2>1 DEF AlertsHeld, OnDisk, Writing
    <3>2. log[n] < Old => log'[n] = log[n] + 1
      BY TickFacts, TypeFacts, OlderFacts, AlertConstants
    <3>. QED
      BY <2>1, <3>1, <3>2, TypeFacts, AlertConstants
  <2>3. \A n \in Known : List # None => Covers(List, n)
    BY DEF AlertsHeld, OnDisk
  <2>. QED
    BY <2>1, <2>2, <2>3 DEF OnDisk, Writing
<1>8. BotCopy'
  <2>1. /\ at'[User("bot")] \in {"idle", "posting"} /\ UNCHANGED <<file, Known>>
        /\ cache'["bot"].data = cache["bot"].data
    BY TickFacts, FourActors
  <2>2. cache'["bot"].age < Ttl => cache["bot"].age < Ttl /\ cache'["bot"].age = cache["bot"].age + 1
    BY TickFacts, TypeFacts, FourActors, OlderFacts, AlertConstants
  <2>3. ASSUME NEW n \in Known, cache'["bot"].age < Ttl, log'[n] > Pause + cache'["bot"].age
        PROVE  log[n] > Pause + cache["bot"].age
    <3>1. /\ log[n] < Old => log'[n] = log[n] + 1
          /\ log[n] = Old \/ log[n] < Old
      BY TickFacts, TypeFacts, OlderFacts, AlertConstants
    <3>. QED
      BY <2>2, <2>3, <3>1, TypeFacts, FourActors, AlertConstants
  <2>. QED
    BY <2>1, <2>2, <2>3 DEF AlertsHeld, BotCopy, Writing
<1>. QED
  BY <1>1, <1>2, <1>3, <1>4, <1>5, <1>6, <1>7, <1>8 DEF AlertsHeld

-----------------------------------------------------------------------------
LEMMA AlertsInitIInv == AlertsInit => AlertsIInv
<1> SUFFICES ASSUME AlertsInit PROVE AlertsIInv
  OBVIOUS
<1>2. Known = {} /\ Newest = 0
  <2>1. Known = {}
    BY DEF AlertsInit, Known
  <2>. QED
    BY <2>1 DEF Newest, Max
<1>3. \A a \in Actors : FirstStage(a) \in Stages /\ FirstLocals(a) \in Local
  BY NoLocalsFacts DEF FirstStage, FirstLocals, Stages
<1>4. AlertsTypeOK
  BY <1>3, RecentFacts, AlertsAssumption DEF AlertsInit, AlertsTypeOK
<1>5. \A p \in Procs :
          /\ at[User(p)] = "idle" /\ at[Flusher(p)] = "asleep" /\ local[Flusher(p)].next = "idle"
          /\ cache[p].data = None /\ ~dirty[p] /\ lastSave[p] = Gap
  BY AlertActors, NoLocalsFacts DEF AlertsInit, FirstStage, FirstLocals, NoLocals
<1>6. AlertsShape
  BY <1>5, FourActors DEF AlertsShape, UserShape, FlushShape, BotShape, Room, InUse, Writing
<1>7. QuietBot /\ OneMove /\ SavedInCache
  BY <1>5, FourActors, AlertConstants DEF QuietBot, OneMove, SavedInCache
<1>8. FileMade /\ DirtyList
  BY <1>2, <1>5, FourActors DEF FileMade, DirtyList, Writing
<1>9. file # None => file = <<>>
  BY DEF AlertsInit
<1>10. InOrder /\ OnDisk /\ BotCopy
  BY <1>2, <1>5, <1>9, FourActors, NothingSorted DEF InOrder, OnDisk, BotCopy, Writing, List
<1>. QED
  BY <1>4, <1>6, <1>7, <1>8, <1>10 DEF AlertsIInv, AlertsHeld

LEMMA AlertsStill == AlertsIInv /\ UNCHANGED alertVars => AlertsIInv'
BY DEF AlertsIInv, alertVars, AlertsTypeOK, AlertsShape, UserShape, FlushShape, BotShape, Room, InUse,
       AlertsHeld, QuietBot, OneMove, SavedInCache, FileMade, DirtyList, InOrder, OnDisk, BotCopy,
       Writing, List, Known, Newest, Fresh

LEMMA AlertsNextIInv == AlertsIInv /\ [AlertsNext]_alertVars => AlertsIInv'
<1> SUFFICES ASSUME AlertsIInv, [AlertsNext]_alertVars PROVE AlertsIInv'
  OBVIOUS
<1> USE DEF AlertsIInv
<1>1. ASSUME NEW p \in Procs, Look(p) PROVE AlertsIInv'
  BY <1>1, LookFacts, LookShape, LookHeld
<1>2. ASSUME NEW p \in Procs, Fill(p) PROVE AlertsIInv'
  BY <1>2, FillFacts, FillShape, FillHeld
<1>3. ASSUME NEW p \in Procs, SaveDefault(p) PROVE AlertsIInv'
  BY <1>3, SaveDefaultFacts, SaveDefaultShape, SaveDefaultHeld
<1>4. ASSUME NEW p \in Procs, Flush(p) PROVE AlertsIInv'
  BY <1>4, FlushFacts, FlushShaped, FlushHeld
<1>5. ASSUME NEW p \in Procs, Shown(p) PROVE AlertsIInv'
  BY <1>5, ShownFacts, ShownShape, ShownHeld
<1>6. ASSUME NEW p \in Procs, Restart(p) PROVE AlertsIInv'
  BY <1>6, RestartFacts, RestartShape, RestartHeld
<1>7. ASSUME NEW a \in Actors, Dump(a) PROVE AlertsIInv'
  BY <1>7, DumpFacts, DumpShape, DumpHeld
<1>8. ASSUME NEW a \in Actors, Move(a) PROVE AlertsIInv'
  BY <1>8, MoveFacts, MoveShape, MoveHeld
<1>9. ASSUME NEW a \in Actors, WriteFails(a) PROVE AlertsIInv'
  BY <1>9, WriteFailsFacts, WriteFailsShape
<1>10. CASE Trigger
  BY <1>10, TriggerFacts, TriggerShape, TriggerHeld
<1>11. CASE Notify
  BY <1>11, NotifyFacts, NotifyShape, NotifyHeld
<1>12. CASE Record
  BY <1>12, RecordFacts, RecordShape, RecordHeld
<1>13. CASE Show
  BY <1>13, ShowFacts, ShowShape, ShowHeld
<1>14. CASE AlertsTick
  BY <1>14, TickFacts, TickShape, TickHeld
<1>15. CASE UNCHANGED alertVars
  BY <1>15, AlertsStill
<1>. QED
  BY <1>1, <1>2, <1>3, <1>4, <1>5, <1>6, <1>7, <1>8, <1>9, <1>10, <1>11, <1>12, <1>13, <1>14, <1>15
     DEF AlertsNext

\* The invariant: where an alert is that no file has yet, and how long it may stay there.
THEOREM AlertsKept == AlertsSpec => []AlertsIInv
BY AlertsInitIInv, AlertsNextIInv, PTL DEF AlertsSpec

\* Every variable of the alerts keeps its type; in particular the list never outgrows
\* max_recent.
THEOREM AlertsTyped == AlertsSpec => []AlertsTypeOK
<1>1. AlertsIInv => AlertsTypeOK
  BY DEF AlertsIInv
<1>. QED
  BY <1>1, AlertsKept, PTL

\* AlertsReachDisk: an alert older than one round of the flush thread is in the file, or
\* pushed out by later ones.
THEOREM AlertsAreWritten == AlertsSpec => []AlertsReachDisk
<1>1. AlertsIInv => AlertsReachDisk
  <2>1. SUFFICES ASSUME AlertsIInv, upset = {}, NEW n \in Known, log[n] > Pause
                 PROVE  PushedOut(n) \/ (file # None /\ n \in ToSet(file))
    BY DEF AlertsReachDisk
  <2>2. AlertsTypeOK /\ AlertsHeld
    BY <2>1 DEF AlertsIInv
  <2>3. file # None /\ file \in Recent /\ Sorted(file, Known)
    BY <2>2, TypeFacts DEF AlertsHeld, FileMade, InOrder
  <2>4. Covers(file, n)
    BY <2>1, <2>2, TypeFacts, FourActors, AlertConstants DEF AlertsHeld, OnDisk
  <2>5. Follows(file, file)
    BY <2>3, FollowsItself
  <2>. QED
    BY <2>3, <2>4, <2>5, CoveredIsShown
<1>. QED
  BY <1>1, AlertsKept, PTL

\* AlertsAreShown: an alert older than a round of the flush thread and a life of the
\* bot's cache is in the list the bot shows, or pushed out by later ones.
THEOREM AlertsComeUp == AlertsSpec => []AlertsAreShown
<1>1. AlertsIInv => AlertsAreShown
  <2>1. SUFFICES ASSUME AlertsIInv, upset = {}, at[User("bot")] = "use", NEW n \in Known, log[n] = Old
                 PROVE  PushedOut(n) \/ n \in ToSet(cache["bot"].data)
    BY DEF AlertsAreShown
  <2>2. AlertsTypeOK /\ AlertsShape /\ AlertsHeld
    BY <2>1 DEF AlertsIInv
  <2>3. file # None /\ file \in Recent /\ Sorted(file, Known)
    BY <2>2, TypeFacts DEF AlertsHeld, FileMade, InOrder
  <2>4. cache["bot"].data \in Recent /\ cache["bot"].data # None
    BY <2>1, <2>2, TypeFacts, FourActors DEF AlertsShape, UserShape
  <2>5. cache["bot"].age < Ttl /\ Follows(cache["bot"].data, file)
    BY <2>1, <2>2, <2>4 DEF AlertsHeld, BotCopy
  <2>6. log[n] > Pause + cache["bot"].age
    BY <2>1, <2>2, <2>5, TypeFacts, FourActors, AlertConstants
  <2>7. Covers(cache["bot"].data, n)
    BY <2>2, <2>4, <2>5, <2>6 DEF AlertsHeld, BotCopy
  <2>. QED
    BY <2>3, <2>4, <2>5, <2>7, CoveredIsShown
<1>. QED
  BY <1>1, AlertsKept, PTL
=============================================================================
