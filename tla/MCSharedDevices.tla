-------------------------- MODULE MCSharedDevices --------------------------
(* Small instances of SharedDevices for TLC. *)
EXTENDS SharedDevices, TLC

CONSTANTS a, b, c

\* sspanel or bunpanel; any other panel with the global limit.
SomeSetups ==
  {[counts |-> TRUE, redis |-> FALSE, dev |-> 1, ips |-> {a, b}],
   [counts |-> TRUE, redis |-> FALSE, dev |-> 2, ips |-> {a, b}],
   [counts |-> FALSE, redis |-> TRUE, dev |-> 1, ips |-> {a, b, c}]}

Symmetric == Permutations(Nodes) \cup Permutations({a, b})
=============================================================================
