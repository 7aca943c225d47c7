----------------------------- MODULE NodeService -----------------------------
(***************************************************************************)
(* What a node controller promises to those it serves: one listener at a   *)
(* time, built for the configuration fetched last; users that come and go  *)
(* without touching it; and no user registered in two versions.  NodeSync  *)
(* implements it.                                                          *)
(*                                                                         *)
(* node, roster and kept are the controller's own, and change at any time. *)
(***************************************************************************)
CONSTANT None   \* no node: the process has just started, or is between two runs

VARIABLES
  node,        \* the node being applied
  roster,      \* the users being applied
  kept,        \* those of them that were served before
  listeners,   \* the configurations a socket is open for
  admitted     \* the users accepted there

ListenerOf(n) == [tag |-> n.tag, shape |-> n.shape]
OneVersion(us) == \A u, v \in us : u.id = v.id => u = v

Init == listeners = {} /\ admitted = {}

Open ==
  /\ node # None /\ listeners = {}
  /\ listeners' = {ListenerOf(node)} /\ UNCHANGED admitted

Admit ==
  /\ node # None /\ listeners = {ListenerOf(node)}
  /\ admitted \subseteq admitted' /\ admitted' \subseteq admitted \cup roster
  /\ OneVersion(admitted') /\ UNCHANGED listeners

\* A user that the new list keeps is not disconnected.
Evict ==
  /\ admitted' \subseteq admitted /\ (admitted \ admitted') \cap kept = {}
  /\ UNCHANGED listeners

\* Only a configuration that differs from the node's is torn down.
Close ==
  /\ node # None /\ ListenerOf(node) \notin listeners /\ UNCHANGED node
  /\ listeners' = {} /\ admitted' = {}

Crash == node' = None /\ listeners' = {} /\ admitted' = {}

Next == Open \/ Admit \/ Evict \/ Close \/ Crash
Spec == Init /\ [][Next]_<<listeners, admitted>>
=============================================================================
