----------------------------- MODULE MCBotPoll ------------------------------
(* Small instances of BotPoll for TLC. *)
EXTENDS BotPoll

CONSTANTS p1, p2, web, bot

\* The web process starts two pollers, or it and the stand-alone bot one each.
StartedTwice == {[t \in {p1, p2} |-> web],
                 [t \in {p1, p2} |-> IF t = p1 THEN web ELSE bot]}

OneChat == [chat : {"c1"}, kind : Kinds]
=============================================================================
