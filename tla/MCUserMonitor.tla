--------------------------- MODULE MCUserMonitor ---------------------------
(* Small instances of UserMonitor for TLC. *)
EXTENDS UserMonitor, TLC

Symmetric == Permutations(Conns) \cup Permutations(Tags) \cup Permutations(Vers)
=============================================================================
