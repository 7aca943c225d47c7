----------------------------- MODULE MCDispatch -----------------------------
(* Small instances of Dispatch for TLC. *)
EXTENDS Dispatch, TLC

CONSTANTS d1, d2, r1

PanelRule == [id |-> r1, dests |-> {d1}]
LocalRule == [id |-> Local, dests |-> {d2}]
\* The panel's rule alone, or with one of the local file beside it.
Lists == {{PanelRule}, {PanelRule, LocalRule}}
\* No rule, or the panel's.
OneList == {{}, {PanelRule}}

Symmetric == Permutations(Conns) \cup Permutations(Users)
=============================================================================
