------------------------------ MODULE BotPoll -------------------------------
(***************************************************************************)
(* bot_control.py: how the Telegram bot receives its commands.  bot_poll   *)
(* asks the server for the updates from its offset on, raises the offset   *)
(* past each update before it looks at it, drops what comes too soon after *)
(* its chat's last message, and dispatches the commands.  The server       *)
(* forgets an update when it is asked for later ones.  Requests fail,      *)
(* answers are lost, handlers raise, processes die.                        *)
(*                                                                         *)
(* Both the stand-alone bot and the web process start pollers, the latter  *)
(* from two places, and start_bot's check comes before the poller has set  *)
(* BOT_RUNNING: several pollers may be at work, in one process or in two.  *)
(*                                                                         *)
(* Left out: LAST_UPDATE, which is only displayed, and _clean_rates_loop,  *)
(* which removes entries that no longer hold anything back.                *)
(***************************************************************************)
EXTENDS Integers, Sequences, FiniteSets

CONSTANTS
    Pollers, Processes,
    Homes,          \* which poller may run in which process
    Chats,
    Messages,       \* what may be sent: [chat, kind], see Kinds
    Cooldown,       \* COMMAND_COOLDOWN
    MaxErrors,      \* non-200 answers before the offset is reset (10)
    LastUpdate      \* bound on the updates sent

\* A text that starts with "/", another text, an update without a text.
Kinds == {"command", "chatter", "other"}

ASSUME BotAssumption ==
    /\ Homes \subseteq [Pollers -> Processes]
    /\ Messages \subseteq [chat : Chats, kind : Kinds]
    /\ {Cooldown, MaxErrors, LastUpdate} \subseteq Nat

VARIABLES
    sent,       \* the updates sent to the bot; its index is an update's id
    held,       \* those the server has not forgotten
    home,       \* constant in a behaviour: the process each poller runs in
    running,    \* BOT_RUNNING of each process
    errors,     \* ERROR_COUNT of each process, stops above MaxErrors
    rate,       \* CHAT_RATE of each process: what is left of each chat's cooldown
    pc, offset, \* where each poller is, and its locals
    batch,      \* updates received and not yet looked at
    done,       \* history: updates some poller is through with
    times       \* history: how often each poller dispatched each since its offset was 0,
                \* 2 for more than once

server == <<sent, held>>
shared == <<running, errors, rate>>
poller == <<pc, offset, batch>>
vars == <<sent, held, home, running, errors, rate, pc, offset, batch, done, times>>

Ids == 1..LastUpdate
Phases == {"off", "starting", "poll", "batch", "dispatch"}
Never == [u \in Ids |-> 0]
Calm == [c \in Chats |-> 0]

Once(n) == IF n = 0 THEN 1 ELSE 2
More(n) == IF n <= MaxErrors THEN n + 1 ELSE n
Goto(t, phase) == pc' = [pc EXCEPT ![t] = phase]

-----------------------------------------------------------------------------
(* start_bot *)

Start(t) ==
    /\ pc[t] = "off"
    /\ ~running[home[t]]
    /\ Goto(t, "starting")
    /\ UNCHANGED <<server, home, shared, offset, batch, done, times>>

\* The thread runs at last.
Begin(t) ==
    /\ pc[t] = "starting"
    /\ Goto(t, "poll")
    /\ running' = [running EXCEPT ![home[t]] = TRUE]
    /\ offset' = [offset EXCEPT ![t] = 0]
    /\ times' = [times EXCEPT ![t] = Never]
    /\ UNCHANGED <<server, home, errors, rate, batch, done>>

-----------------------------------------------------------------------------
(* getUpdates *)

Asks(t) == pc[t] = "poll" /\ running[home[t]]
From(t) == {u \in held : u >= offset[t]}

Receive(t) ==
    /\ Asks(t)
    /\ held' = From(t)
    /\ batch' = [batch EXCEPT ![t] = From(t)]
    /\ errors' = [errors EXCEPT ![home[t]] = 0]
    /\ Goto(t, IF From(t) = {} THEN "poll" ELSE "batch")
    /\ UNCHANGED <<sent, home, running, rate, offset, done, times>>

\* Another status than 200; whether the server took notice of the offset is unknown.
Refused(t) ==
    /\ Asks(t)
    /\ held' \in {held, From(t)}
    /\ IF errors[home[t]] + 1 > MaxErrors
       THEN /\ errors' = [errors EXCEPT ![home[t]] = 0]
            /\ offset' = [offset EXCEPT ![t] = 0]
            /\ times' = [times EXCEPT ![t] = Never]
       ELSE /\ errors' = [errors EXCEPT ![home[t]] = @ + 1]
            /\ UNCHANGED <<offset, times>>
    /\ UNCHANGED <<sent, home, running, rate, pc, batch, done>>

\* A request that raises, a 200 that can't be parsed, a 200 that is not ok.
Unanswered(t) ==
    /\ Asks(t)
    /\ held' \in {held, From(t)}
    /\ \E n \in {More(errors[home[t]]), 1, 0} : errors' = [errors EXCEPT ![home[t]] = n]
    /\ UNCHANGED <<sent, home, running, rate, poller, done, times>>

-----------------------------------------------------------------------------
(* The updates of an answer, in order *)

First(u, S) == u \in S /\ \A v \in S : u <= v
AfterUpdate(t, B) == Goto(t, IF B = {} THEN "poll" ELSE "batch")

BugSkipNext(t) ==
    \E u \in Ids :
    LET m == sent[u]
        h == home[t]
        heard == m.kind # "other" /\ rate[h][m.chat] = 0
    IN
    /\ pc[t] = "batch"
    /\ First(u, batch[t])
    /\ offset' = [offset EXCEPT ![t] = u + 2]
    /\ batch' = [batch EXCEPT ![t] = @ \ {u}]
    /\ rate' = IF heard THEN [rate EXCEPT ![h][m.chat] = Cooldown] ELSE rate
    /\ IF heard /\ m.kind = "command"
       THEN /\ Goto(t, "dispatch")
            /\ times' = [times EXCEPT ![t][u] = Once(@)]
            /\ UNCHANGED done
       ELSE /\ AfterUpdate(t, batch[t] \ {u})
            /\ done' = done \cup {u}
            /\ UNCHANGED times
    /\ UNCHANGED <<server, home, running, errors>>

LookAt(t) ==
    \E u \in Ids :
    LET m == sent[u]
        h == home[t]
        heard == m.kind # "other" /\ rate[h][m.chat] = 0
    IN
    /\ pc[t] = "batch"
    /\ First(u, batch[t])
    /\ offset' = [offset EXCEPT ![t] = u + 1]
    /\ batch' = [batch EXCEPT ![t] = @ \ {u}]
    /\ rate' = IF heard THEN [rate EXCEPT ![h][m.chat] = Cooldown] ELSE rate
    /\ IF heard /\ m.kind = "command"
       THEN /\ Goto(t, "dispatch")
            /\ times' = [times EXCEPT ![t][u] = Once(@)]
            /\ UNCHANGED done
       ELSE /\ AfterUpdate(t, batch[t] \ {u})
            /\ done' = done \cup {u}
            /\ UNCHANGED times
    /\ UNCHANGED <<server, home, running, errors>>

Handled(t) ==
    /\ pc[t] = "dispatch"
    /\ done' = done \cup {offset[t] - 1}
    /\ AfterUpdate(t, batch[t])
    /\ UNCHANGED <<server, home, shared, offset, batch, times>>

\* The rest of the answer is dropped with the exception.
BugTryAgain(t) ==
    /\ pc[t] = "dispatch"
    /\ done' = done \cup {offset[t] - 1}
    /\ batch' = [batch EXCEPT ![t] = {}]
    /\ offset' = [offset EXCEPT ![t] = @ - 1]
    /\ errors' = [errors EXCEPT ![home[t]] = More(@)]
    /\ Goto(t, "poll")
    /\ UNCHANGED <<server, home, running, rate, times>>
BugSkipBatch(t) ==
    /\ pc[t] = "dispatch"
    /\ done' = done \cup {offset[t] - 1}
    /\ batch' = [batch EXCEPT ![t] = {}]
    /\ offset' = [offset EXCEPT ![t] = Len(sent) + 1]
    /\ errors' = [errors EXCEPT ![home[t]] = More(@)]
    /\ Goto(t, "poll")
    /\ UNCHANGED <<server, home, running, rate, times>>
HandlerRaises(t) ==
    /\ pc[t] = "dispatch"
    /\ done' = done \cup {offset[t] - 1}
    /\ batch' = [batch EXCEPT ![t] = {}]
    /\ errors' = [errors EXCEPT ![home[t]] = More(@)]
    /\ Goto(t, "poll")
    /\ UNCHANGED <<server, home, running, rate, offset, times>>

-----------------------------------------------------------------------------
(* stop_bot, by SIGTERM or SIGINT, and the end of the loop *)

Stop(h) ==
    /\ running' = [running EXCEPT ![h] = FALSE]
    /\ UNCHANGED <<server, home, errors, rate, poller, done, times>>

Leave(t) ==
    /\ pc[t] = "poll"
    /\ ~running[home[t]]
    /\ Goto(t, "off")
    /\ UNCHANGED <<server, home, shared, offset, batch, done, times>>

Crash(h) ==
    LET Lost(old, new) == [t \in Pollers |-> IF home[t] = h THEN new ELSE old[t]] IN
    /\ pc' = Lost(pc, "off")
    /\ offset' = Lost(offset, 0)
    /\ batch' = Lost(batch, {})
    /\ times' = Lost(times, Never)
    /\ running' = [running EXCEPT ![h] = FALSE]
    /\ errors' = [errors EXCEPT ![h] = 0]
    /\ rate' = [rate EXCEPT ![h] = Calm]
    /\ UNCHANGED <<server, home, done>>

-----------------------------------------------------------------------------
(* The users and the clock *)

Send ==
    /\ Len(sent) < LastUpdate
    /\ \E m \in Messages : sent' = Append(sent, m)
    /\ held' = held \cup {Len(sent) + 1}
    /\ UNCHANGED <<home, shared, poller, done, times>>

Tick ==
    /\ rate' = [h \in Processes |->
                   [c \in Chats |-> IF rate[h][c] = 0 THEN 0 ELSE rate[h][c] - 1]]
    /\ UNCHANGED <<server, home, running, errors, poller, done, times>>

Init ==
    /\ sent = << >>
    /\ held = {}
    /\ home \in Homes
    /\ running = [h \in Processes |-> FALSE]
    /\ errors = [h \in Processes |-> 0]
    /\ rate = [h \in Processes |-> Calm]
    /\ pc = [t \in Pollers |-> "off"]
    /\ offset = [t \in Pollers |-> 0]
    /\ batch = [t \in Pollers |-> {}]
    /\ done = {}
    /\ times = [t \in Pollers |-> Never]

\* What a poller's thread does by itself.
Work(t) == Begin(t) \/ LookAt(t) \/ Handled(t) \/ HandlerRaises(t) \/ Leave(t)
Next ==
    \/ Send \/ Tick
    \/ \E t \in Pollers : Start(t) \/ Receive(t) \/ Refused(t) \/ Unanswered(t) \/ Work(t)
    \/ \E h \in Processes : Stop(h) \/ Crash(h)

Spec == Init /\ [][Next]_vars

\* Threads are scheduled, every request a handler makes has a timeout, and a poller
\* that keeps asking is answered now and then.
Fairness == \A t \in Pollers : WF_vars(Work(t)) /\ SF_vars(Receive(t))

FairSpec == Spec /\ Fairness

-----------------------------------------------------------------------------
TypeOK ==
    /\ sent \in Seq(Messages)
    /\ Len(sent) <= LastUpdate
    /\ held \subseteq 1..Len(sent)
    /\ home \in [Pollers -> Processes]
    /\ running \in [Processes -> BOOLEAN]
    /\ errors \in [Processes -> 0..MaxErrors + 1]
    /\ rate \in [Processes -> [Chats -> 0..Cooldown]]
    /\ pc \in [Pollers -> Phases]
    /\ offset \in [Pollers -> 0..LastUpdate + 1]
    /\ batch \in [Pollers -> SUBSET (1..Len(sent))]
    /\ done \subseteq 1..Len(sent)
    /\ times \in [Pollers -> [Ids -> 0..2]]

\* The server forgets no update before a poller is through with it, whatever fails,
\* dies or is started twice: the offset is raised one update at a time, and reaches the
\* server with the request after (bot_control.py:977-978, 997).
NothingForgotten == \A u \in 1..Len(sent) : u \notin held => u \in done

\* Between two resets of its offset a poller dispatches a command once at most, be it
\* one whose handler raises (bot_control.py:997, 1013).
DispatchedOnce == \A t \in Pollers, u \in Ids : times[t][u] <= 1

\* If some poller stays at work and, from some time on, no request is refused, every
\* update is dealt with in the end: a command whose handler always raises holds up none
\* of those behind it.
AtWork(t) == running[home[t]] /\ pc[t] \in {"poll", "batch", "dispatch"}
AllDone == done = 1..Len(sent)
QueueMovesOn ==
    \A t \in Pollers :
        <>[]AtWork(t) /\ <>[][\A s \in Pollers : ~Refused(s)]_vars => []<>AllDone
=============================================================================
