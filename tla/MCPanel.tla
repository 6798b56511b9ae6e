------------------------------- MODULE MCPanel ------------------------------
(* Instances of Panel for TLC. *)
EXTENDS Panel, TLC

CONSTANTS ip1, ip2, u1, u2, t1, t2

\* Two threads check logins of one address; a thread checks the logins of two; a
\* thread and the bot change accounts.
Guessing == [kinds |-> {"page", "login", "logout"}, commands |-> FALSE, ips |-> {ip1},
             threads |-> {t1, t2}, cookie |-> None, accounts |-> "none", restarts |-> 1]
Evicting == [Guessing EXCEPT !.kinds = {"login"}, !.ips = {ip1, ip2}, !.threads = {t1},
                             !.restarts = 0]
Managing == [Guessing EXCEPT !.kinds = Kinds \ {"page", "logout"}, !.commands = TRUE,
                             !.threads = {t1}, !.cookie = "admin", !.accounts = "active",
                             !.restarts = 0]

Interchangeable == Permutations({u1, u2})
AllSettings == {Guessing, Evicting, Managing}
=============================================================================
