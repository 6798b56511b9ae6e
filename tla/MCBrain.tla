------------------------------ MODULE MCBrain -------------------------------
(* Small instances of Brain for TLC. *)
EXTENDS Brain

\* A hit above none, one, two and three requests.
Steps == <<1, 2, 3, 4>>
=============================================================================
