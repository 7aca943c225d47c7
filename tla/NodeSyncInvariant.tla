-------------------------- MODULE NodeSyncInvariant --------------------------
(***************************************************************************)
(* The inductive invariant behind the safety properties of NodeSync: what  *)
(* is known at each program counter.  NodeSyncProofs proves it.            *)
(***************************************************************************)
EXTENDS NodeSync

\* The calls that Start makes, and those between two runs.
Shared == {"add", "users", "addusers", "addlimiter", "rules"}
Resting == {"idle", "halted"}

\* The control state: which locals are set where.
StageInv ==
  /\ pc = "start" => booting /\ k = 1
  /\ booting => pc = "start" \/ pc \in Shared
  /\ booting /\ pc \in {"start", "add", "users"} => etagUsers = None
  /\ pc # "start" => nodeInfo \in PanelNodes /\ tag = nodeInfo.tag
  /\ pc \notin {"start"} \cup Resting => newNode \in PanelNodes
  /\ pc \in {"remove", "add"} => k <= Last(tag)
  /\ pc = "remove" => oldTag = tag
  /\ pc = "dellimiter" \/ (pc = "add" /\ ~booting) => oldTag \in Tags
  /\ pc \in Resting \cup {"start", "users", "decide", "remove", "add"} => ~reloaded

\* The list in force and the list being applied name a user once.
RosterInv == UniqueIds(userList) /\ UniqueIds(newUsers)

ControlInv == StageInv /\ RosterInv

\* The n-th handler of removeOldTag and addNewTag.
At(n) == <<tag, PartOf(n)>>
Gone(n) == IF IsInbound(n) THEN inbound[At(n)] = "absent" ELSE At(n) \notin outbound
Running(n) == IF IsInbound(n) THEN inbound[At(n)] = "up" ELSE At(n) \in outbound

\* A reload is required, it has removed what it has passed, and an absent
\* inbound has no users.
HandlerInv ==
  /\ NoStrayHandler
  /\ InboundHasShape
  /\ pc = "remove" => requiresInboundReload(nodeInfo, newNode)
  /\ pc = "remove" => \A n \in 1..4 : n < k => Gone(n)
  /\ pc = "start" => \A h \in Handlers : inbound[h] = "absent" /\ h \notin outbound
  /\ \A h \in Handlers : inbound[h] = "absent" => accepts[h] = {}

\* The rest holds as long as no builder, socket or account has failed.
AllRunning == \A n \in 1..4 : n <= Last(tag) => Running(n)
Accepted == accepts[Main]
Common == userList \cap newUsers   \* what compareUserList neither adds nor deletes
Limited(us) == limiter = {tag} /\ nodeLimit[tag] = nodeInfo.speed /\ userLimits[tag] = us

Serving == AllRunning /\ Accepted = userList /\ Limited(userList)
Rebuilt == AllRunning /\ Accepted = {} /\ nodeInfo = newNode

ServingInv ==
  /\ pc = "start" => limiter = {}
  /\ pc \in Resting => Serving
  /\ pc \in {"users", "decide"} /\ ~booting =>
       Serving /\ (~nodeChanged => newNode = nodeInfo)
  /\ pc = "decide" /\ ~usersChanged => newUsers = userList
  /\ pc = "remove" =>
       /\ \A n \in 1..4 : k <= n /\ n <= Last(tag) => Running(n)
       /\ Accepted \subseteq userList /\ Limited(userList)
  /\ pc = "add" =>
       /\ \A n \in 1..4 : IF n < k THEN Running(n) ELSE Gone(n)
       /\ Accepted = {} /\ nodeInfo = newNode
       /\ limiter = IF booting THEN {} ELSE {oldTag}
  /\ pc = "users" /\ booting => Rebuilt /\ limiter = {}
  /\ pc = "dellimiter" => Rebuilt /\ limiter = {oldTag}
  /\ pc = "addusers" => Rebuilt /\ limiter = {}
  /\ pc = "addlimiter" =>
       AllRunning /\ Accepted = newUsers /\ nodeInfo = newNode /\ limiter = {}
  /\ pc \in {"addusers", "addlimiter"} /\ booting => userList = newUsers
  /\ pc = "rules" /\ booting => Serving
  /\ pc = "rules" /\ ~booting /\ reloaded => Rebuilt /\ limiter = {}
  /\ pc = "rules" /\ ~booting /\ ~reloaded =>
       Serving /\ (~usersChanged => newUsers = userList)
  /\ pc = "removeusers" => Serving
  /\ pc = "dellimusers" => AllRunning /\ Accepted = Common /\ Limited(userList)
  /\ pc = "adddiff" => AllRunning /\ Accepted = Common /\ Limited(Common)
  /\ pc = "updlimiter" => AllRunning /\ Accepted = newUsers /\ Limited(Common)

\* The node and the users that an ETag stands for at each point of a run: what
\* was fetched until it is in force, what is in force from then on.
NodeInHand == IF pc \in {"users", "decide", "remove"} THEN newNode ELSE nodeInfo
UsersInHand == IF booting \/ pc \in Resting \cup {"users"} THEN userList ELSE newUsers

EtagInv ==
  HasEtags /\ pc # "start" =>
    /\ etagNode[1].tag \in ZeroTags \/ etagNode[1] = NodeInHand
    /\ (booting => pc \notin {"add", "users"}) => etagUsers = UsersInHand

IInv ==
  /\ TypeOK
  /\ ControlInv
  /\ HandlerInv
  /\ ~damaged => ServingInv
=============================================================================
