--------------------------- MODULE MCLedgerWriter ---------------------------
(***************************************************************************)
(* KeyLedger with one writer at a time, for TLC.  There are two settings.  *)
(* While no key admits more than one device, every operation runs, and a   *)
(* process may die, on two keys, a valid address and a malformed one.  The *)
(* first key may be shared by two devices instead: then it is the only one *)
(* and stays, the commands of the bot alone run on three addresses, and    *)
(* none of them is cut short.                                              *)
(***************************************************************************)
EXTENDS KeyLedger, TLC

BothWays == {-1, 1}
AllJobs == Ops \ {"none"}
\* The routes of the panel, which the bot has no command for
PanelJobs == {"revoke", "modify"}

Interchangeable == Permutations(Codes) \cup Permutations(ValidIps)

\* There is a key for several devices.
Shared == \E c \in Codes : Known(c) /\ keys[c].max_devices > 1

\* The valid addresses that something in the state tells from the others
InPlay == {ip \in ValidIps :
    \/ ips[ip] # NoEntry
    \/ promise[ip] # 0
    \/ \E c \in Codes : <<c, ip>> \in granted
    \/ \E t \in Threads : job[t].ip = ip \/ ipsSeen[t][ip] # NoEntry}

\* Only the first key may have two devices, drawn before anything else is done.
Draws(t) == job'[t].op = "generate" =>
    \/ keysSeen'[t][job'[t].code].max_devices = 1
    \/ issued \subseteq {job'[t].code} /\ ips = NoIps

\* A handler that stops has written its file.
RunsOn(t) == ~Idle(t) /\ Idle(t)' =>
    \/ pc[t] = "save_keys" /\ keys' = keysSeen[t]
    \/ ReadyToSaveIps(t) /\ ips' = ipsSeen[t]

Within == \A t \in Threads :
    IF Shared
    THEN /\ job'[t].op \notin PanelJobs \cup {"generate", "delete"}
         /\ \A ip \in Ips \ ValidIps : ipsSeen'[t][ip] = NoEntry
         /\ RunsOn(t)
    ELSE /\ Cardinality(InPlay') <= 1
         /\ Draws(t)

-----------------------------------------------------------------------------
\* Where only the bot's commands run and none is cut short, the addresses admitted
\* on a key at one time are at most its max_devices, see SimultaneousDevices.
BotKeepsDeviceLimit == [][Within /\ Shared' => SimultaneousDevices']_vars

\* There, an address whose entry names a key is on that key's list, see EntryHeldByKey.
BotKeepsFilesAgreed == [][Within /\ Shared' => EntryHeldByKey']_vars
=============================================================================
