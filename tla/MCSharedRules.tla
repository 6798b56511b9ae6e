--------------------------- MODULE MCSharedRules ----------------------------
(* Instances of SharedRules for TLC. *)
EXTENDS SharedRules, TLC

CONSTANTS i1, i2, d1, d2

Setups(kind, before, deliveries, failures, restarts) ==
    [kind : {kind}, before : before, deliveries : {deliveries},
     failures : failures, restarts : restarts]

AllSettings ==
    Setups("filters", {None, {i1}}, {}, {1}, {1})
    \cup Setups("webhooks", {None, {i1}}, {d1}, {1}, {0})
    \cup Setups("webhooks", {None, {i1}}, {d1}, {0}, {1})
    \cup Setups("webhooks", {{i1}}, {d1, d2}, {0}, {0})

Interchangeable == Permutations({d1, d2})
=============================================================================
