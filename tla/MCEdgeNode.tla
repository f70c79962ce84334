------------------------------ MODULE MCEdgeNode ------------------------------
(* Small instances of EdgeNode for TLC. *)
EXTENDS EdgeNode, TLC

CONSTANTS f1, f2

Perms == Permutations(Flushes)

Reported == AllOutcomes \ {"escaped"}
================================================================================
