----------------------------- MODULE MCLimiter -----------------------------
(* Small instances of Limiter for TLC. *)
EXTENDS Limiter, TLC

\* One device or any number; the speed limit comes and goes.
OneDevice == {[speed |-> 0, dev |-> 1], [speed |-> 2, dev |-> 0]}
OneDeviceOnly == {[speed |-> 0, dev |-> 1]}

Symmetric == Permutations(Callers) \cup Permutations(IPs)
=============================================================================
