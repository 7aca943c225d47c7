----------------------------- MODULE MCNodeSync -----------------------------
(* Small instances of NodeSync for TLC. *)
EXTENDS NodeSync

U1 == [id |-> "u1", ver |-> "v1"]
U1New == [id |-> "u1", ver |-> "v2"]
U2 == [id |-> "u2", ver |-> "v1"]

\* A user is added, removed and changed in place; the roster may be emptied.
Lists == {{U1}, {U2}, {U1New, U2}}
ListsOrNone == {{U1}, {U1New, U2}, {}}

Tcp == [tag |-> "vless", shape |-> "tcp", speed |-> 0]

\* Changes of speed only, of shape only, of tag, to and from a plugin node.
Nodes == {Tcp, [Tcp EXCEPT !.speed = 1], [Tcp EXCEPT !.shape = "ws"],
          [Tcp EXCEPT !.tag = "plugin"]}
NodesOrZero == Nodes \cup {[Tcp EXCEPT !.tag = "zero"]}
=============================================================================
