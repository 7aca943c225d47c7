------------------------------ MODULE NodeSync ------------------------------
(***************************************************************************)
(* The node controller (service/controller): Start brings one panel node   *)
(* up on the embedded xray core, and nodeInfoMonitor, a periodic task,     *)
(* pulls the panel again and applies what changed: the inbound and the     *)
(* outbound under the node's tag, the users of the inbound, the limiter    *)
(* entry of the tag and the rule list of the tag.                          *)
(*                                                                         *)
(* Every call that leaves the controller (a panel request, a handler or    *)
(* user manager call, a limiter or rule manager call) is a step of its     *)
(* own, so the panel may publish, and the process may crash, between any   *)
(* two of them.                                                            *)
(***************************************************************************)
EXTENDS Naturals

CONSTANTS
  Tags,         \* inbound tags: node type, listen address and port
  PluginTags,   \* those of type Shadowsocks-Plugin: a second inbound in front
  ZeroTags,     \* those of a node published with port 0
  Shapes,       \* every other field requiresInboundReload compares
  Speeds,       \* node speed limits
  Ids, Vers,    \* user keys (email, uid), and everything else about a user
  PanelNodes,   \* the nodes, and
  PanelUsers,   \* the user lists, that the panel may publish
  Rules,        \* detect rules
  Kinds,        \* the panel clients considered
  Faults,       \* the kinds of call that may fail
  None,         \* Go's nil, and an ETag not received yet
  MaxChanges, MaxFaults, MaxCrashes   \* bounds for model checking

Node == [tag : Tags, shape : Shapes, speed : Speeds]
User == [id : Ids, ver : Vers]
Part == {"main", "door"}                    \* the dokodemo-door inbound of a plugin node
\* newV2board and xboard; v2raysocks; sspanel; bunpanel; and those without
\* ETags: gov2panel; pmpanel and proxypanel.
ClientKinds == {"v2board", "v2raysocks", "sspanel", "bunpanel", "gov2panel", "plain"}
FetchFaults == {"node", "users", "rules"}   \* panel requests
CoreFaults == {"build", "listen", "adduser"} \* config builders, socket, account conversion

\* A list names a user (email, uid) once.
UniqueIds(us) == \A u, v \in us : u.id = v.id => u = v

ASSUME TagsAssumption == PluginTags \subseteq Tags /\ ZeroTags \subseteq Tags
ASSUME PanelAssumption ==
  /\ PanelNodes \subseteq Node /\ PanelUsers \subseteq SUBSET User
  /\ \A us \in PanelUsers : UniqueIds(us)
  /\ Kinds \subseteq ClientKinds
ASSUME FaultsAssumption == Faults \subseteq FetchFaults \cup CoreFaults
ASSUME NoneAssumption ==
  /\ None \notin Node /\ None \notin Tags
  /\ \A v \in PanelUsers \cup SUBSET Rules : v # None
  /\ \A d \in PanelNodes \X SUBSET Rules : d # None
ASSUME BoundsAssumption == MaxChanges \in Nat /\ MaxFaults \in Nat /\ MaxCrashes \in Nat

VARIABLES
  kind,       \* the client the node is configured with
  panelNode, panelUsers, panelRules,   \* what the panel publishes now
  etagNode, etagUsers, etagRules,      \* the version each resource was last answered with
  resp,       \* the rules of the node document the client keeps, None when it has none
  pc,         \* the controller's next call
  booting,    \* Start is running, not nodeInfoMonitor
  newNode, nodeChanged, newUsers, usersChanged, oldTag, reloaded,  \* locals of the run
  k,          \* the next call of removeOldTag or addNewTag
  nodeInfo, tag, userList,      \* Controller.nodeInfo, Tag, userList
  inbound,    \* xray inbound manager: the handler of a tag and part is absent, dead or up
  shapeOf,    \* the transport a handler was built with
  accepts,    \* the users its user manager knows
  outbound,   \* xray outbound manager: registered tags and parts
  limiter,    \* Limiter.InboundInfo: the tags with an entry
  nodeLimit, userLimits,        \* the speed and the users of an entry
  ruleOf,     \* RuleManager.InboundRule per tag
  damaged,    \* history: a builder, socket or account of this process failed
  changes, faults, crashes      \* budgets spent

panel == <<kind, panelNode, panelUsers, panelRules>>
etags == <<etagNode, etagUsers, etagRules>>
client == <<etags, resp>>
locals == <<newNode, nodeChanged, newUsers, usersChanged, oldTag, reloaded, k>>
ctl == <<nodeInfo, tag, userList>>
core == <<inbound, shapeOf, accepts, outbound>>
limits == <<limiter, nodeLimit, userLimits>>
book == <<damaged, changes, faults, crashes>>
vars == <<panel, client, pc, booting, locals, ctl, core, limits, ruleOf, book>>
-----------------------------------------------------------------------------
Handlers == Tags \X Part
\* What a node request answers: the node and, for some panels, its rules.
Doc == PanelNodes \X SUBSET Rules

PanelOK ==
  /\ kind \in Kinds /\ panelNode \in PanelNodes /\ panelUsers \in PanelUsers
  /\ panelRules \in SUBSET Rules
ClientOK ==
  /\ etagNode \in {None} \cup Doc /\ etagUsers \in {None} \cup PanelUsers
  /\ etagRules \in {None} \cup SUBSET Rules /\ resp \in {None} \cup SUBSET Rules
StageOK ==
  /\ pc \in {"start", "idle", "halted", "users", "decide", "remove", "add", "dellimiter",
             "rules", "addusers", "addlimiter", "removeusers", "dellimusers",
             "adddiff", "updlimiter"}
  /\ k \in 1..4
LocalsOK ==
  /\ newNode \in {None} \cup PanelNodes /\ nodeChanged \in BOOLEAN
  /\ newUsers \in SUBSET User /\ usersChanged \in BOOLEAN
  /\ oldTag \in {None} \cup Tags /\ booting \in BOOLEAN /\ reloaded \in BOOLEAN
CtlOK ==
  /\ nodeInfo \in {None} \cup PanelNodes /\ tag \in {None} \cup Tags
  /\ userList \in SUBSET User
HandlersOK ==
  /\ inbound \in [Handlers -> {"absent", "dead", "up"}]
  /\ shapeOf \in [Handlers -> {None} \cup Shapes]
  /\ accepts \in [Handlers -> SUBSET User]
  /\ outbound \in SUBSET Handlers
LimitsOK ==
  /\ limiter \in SUBSET Tags
  /\ nodeLimit \in [Tags -> {None} \cup Speeds]
  /\ userLimits \in [Tags -> SUBSET User]
  /\ ruleOf \in [Tags -> SUBSET Rules]
BookOK == damaged \in BOOLEAN /\ changes \in Nat /\ faults \in Nat /\ crashes \in Nat

TypeOK ==
  /\ PanelOK /\ ClientOK /\ StageOK /\ LocalsOK
  /\ CtlOK /\ HandlersOK /\ LimitsOK /\ BookOK

\* A fresh process: nothing listens, no user is known, no ETag was received.
Init ==
  /\ PanelOK
  /\ etagNode = None /\ etagUsers = None /\ etagRules = None /\ resp = None
  /\ pc = "start" /\ booting = TRUE
  /\ newNode = None /\ nodeChanged = FALSE /\ newUsers = {} /\ usersChanged = FALSE
  /\ oldTag = None /\ reloaded = FALSE /\ k = 1
  /\ nodeInfo = None /\ tag = None /\ userList = {}
  /\ inbound = [h \in Handlers |-> "absent"] /\ shapeOf = [h \in Handlers |-> None]
  /\ accepts = [h \in Handlers |-> {}] /\ outbound = {}
  /\ limiter = {} /\ nodeLimit = [t \in Tags |-> None] /\ userLimits = [t \in Tags |-> {}]
  /\ ruleOf = [t \in Tags |-> {}]
  /\ damaged = FALSE /\ changes = 0 /\ faults = 0 /\ crashes = 0

\* `return` of a run: its locals are gone.
ClearLocals ==
  /\ newNode' = None /\ nodeChanged' = FALSE /\ newUsers' = {} /\ usersChanged' = FALSE
  /\ oldTag' = None /\ reloaded' = FALSE /\ k' = 1

\* The process ends (killed, or panel.Start panics because Start failed) and
\* is started again from nothing.
Restart ==
  /\ etagNode' = None /\ etagUsers' = None /\ etagRules' = None /\ resp' = None
  /\ pc' = "start" /\ booting' = TRUE /\ ClearLocals
  /\ nodeInfo' = None /\ tag' = None /\ userList' = {}
  /\ inbound' = [h \in Handlers |-> "absent"] /\ shapeOf' = [h \in Handlers |-> None]
  /\ accepts' = [h \in Handlers |-> {}] /\ outbound' = {}
  /\ limiter' = {} /\ nodeLimit' = [t \in Tags |-> None]
  /\ userLimits' = [t \in Tags |-> {}] /\ ruleOf' = [t \in Tags |-> {}]
  /\ damaged' = FALSE /\ UNCHANGED panel
-----------------------------------------------------------------------------
(* Faults, early returns and the operators of the code.                    *)

CanFail(call) == call \in Faults /\ faults < MaxFaults
Charge == faults' = faults + 1 /\ UNCHANGED <<changes, crashes>>
Free == UNCHANGED <<changes, faults, crashes>>
FetchFault == Charge /\ UNCHANGED damaged
CoreFault == Charge /\ damaged' = TRUE

\* Faulty variant: a run that returns its error, which stops the Periodic.
GoHalted == pc' = "halted" /\ ClearLocals /\ UNCHANGED booting

\* `return nil` of nodeInfoMonitor: the Periodic reschedules it.
GoIdle == pc' = "idle" /\ ClearLocals /\ UNCHANGED booting
\* A failing call of Start ends the process; of nodeInfoMonitor, only this run.
StartFails == booting /\ Restart
RunFails == ~booting /\ GoIdle /\ UNCHANGED ctl

\* Faulty variants: the transport is not compared; every difference reloads.
ReloadOnTagOnly(old, new) == old.tag # new.tag
ReloadOnAnyChange(old, new) == old # new
requiresInboundReload(old, new) == old.tag # new.tag \/ old.shape # new.shape

\* Faulty variants: users compared by key alone; the whole list deleted.
DeletedById == {u \in userList : \A v \in newUsers : v.id # u.id}
AddedById == {u \in newUsers : \A v \in userList : v.id # u.id}
DeletedAll == userList

\* compareUserList, for lists without duplicates.
Deleted == userList \ newUsers
Added == newUsers \ userList
IdsOf(us) == {u.id : u \in us}
Without(us, gone) == {u \in us : u.id \notin IdsOf(gone)}

\* The calls of removeOldTag and addNewTag in order: inbound and outbound of
\* the tag, then, for a Shadowsocks-Plugin node, of its dokodemo-door.
IsInbound(n) == n \in {1, 3}
PartOf(n) == IF n <= 2 THEN "main" ELSE "door"
LastOffByOne(t) == IF t \in PluginTags THEN 5 ELSE 2   \* faulty variant
Last(t) == IF t \in PluginTags THEN 4 ELSE 2
Main == <<tag, "main">>

RulesInNode == kind \in {"v2board", "v2raysocks"}
LocalRules == kind = "bunpanel"      \* GetNodeRule asks nobody
AsksForRules == ~RulesInNode /\ ~LocalRules
RefusesZero == kind \in {"v2board", "gov2panel"}
HasEtags == kind \notin {"gov2panel", "plain"}
NodeDoc == <<panelNode, IF RulesInNode THEN panelRules ELSE {}>>
\* The ETag of an answer, kept by the clients that use ETags.
Kept(old, version) == IF HasEtags THEN version ELSE old
-----------------------------------------------------------------------------
(* The panel.                                                              *)

Publish ==
  /\ changes < MaxChanges
  /\ changes' = changes + 1
  /\ \/ panelNode' \in PanelNodes \ {panelNode} /\ UNCHANGED <<panelUsers, panelRules>>
     \/ panelUsers' \in PanelUsers \ {panelUsers} /\ UNCHANGED <<panelNode, panelRules>>
     \/ panelRules' \in SUBSET Rules \ {panelRules} /\ UNCHANGED <<panelNode, panelUsers>>
  /\ UNCHANGED <<kind, client, pc, booting, locals, ctl, core, limits, ruleOf>>
  /\ UNCHANGED <<damaged, faults, crashes>>

Crash ==
  /\ crashes < MaxCrashes
  /\ crashes' = crashes + 1
  /\ Restart /\ UNCHANGED <<changes, faults>>
-----------------------------------------------------------------------------
(* Pulling the panel.                                                      *)

\* Start: GetNodeInfo, before anything else; the port must be positive.
StartFetchNode ==
  /\ pc = "start"
  /\ \/ CanFail("node") /\ Charge /\ Restart
     \/ panelNode.tag \in ZeroTags /\ Restart /\ Free
     \/ /\ panelNode.tag \notin ZeroTags
        /\ etagNode' = Kept(etagNode, NodeDoc)
        /\ resp' = NodeDoc[2]
        /\ nodeInfo' = panelNode /\ tag' = panelNode.tag
        /\ newNode' = panelNode /\ nodeChanged' = TRUE
        /\ pc' = "add"
        /\ UNCHANGED <<panel, etagUsers, etagRules, booting, newUsers, usersChanged, oldTag,
                       reloaded, k, userList, core, limits, ruleOf, book>>

\* nodeInfoMonitor: GetNodeInfo with If-None-Match. 304 keeps c.nodeInfo; a
\* port of 0 is refused by some clients, and by the monitor itself with an
\* error, which ends the Periodic.
FetchNode ==
  /\ pc = "idle"
  /\ UNCHANGED <<panel, etagUsers, etagRules, booting, newUsers, usersChanged, oldTag,
                 reloaded, k, ctl, core, limits, ruleOf>>
  /\ \/ /\ CanFail("node") /\ FetchFault
        /\ resp' = IF kind = "v2raysocks" THEN None ELSE resp
        /\ UNCHANGED <<etagNode, pc, newNode, nodeChanged>>
     \/ /\ etagNode = NodeDoc
        /\ newNode' = nodeInfo /\ nodeChanged' = FALSE
        /\ pc' = "users" /\ UNCHANGED <<etagNode, resp, book>>
     \/ /\ etagNode # NodeDoc /\ panelNode.tag \in ZeroTags
        /\ etagNode' = Kept(etagNode, NodeDoc)
        /\ resp' = IF RefusesZero THEN resp ELSE NodeDoc[2]
        /\ pc' = IF RefusesZero THEN "idle" ELSE "halted"
        /\ UNCHANGED <<newNode, nodeChanged, book>>
     \/ /\ etagNode # NodeDoc /\ panelNode.tag \notin ZeroTags
        /\ etagNode' = Kept(etagNode, NodeDoc)
        /\ resp' = NodeDoc[2]
        /\ newNode' = panelNode /\ nodeChanged' = TRUE
        /\ pc' = "users" /\ UNCHANGED book

\* GetUserList, in Start and in the monitor. The ETag is stored before the
\* answer is judged, so a client has it for the empty list it refuses.
EmptyRefused == kind = "v2board" /\ panelUsers = {}

UsersFail ==
  /\ pc = "users"
  /\ \/ CanFail("users") /\ Charge /\ StartFails
     \/ /\ CanFail("users") /\ FetchFault /\ RunFails
        /\ UNCHANGED <<panel, client, core, limits, ruleOf>>
     \/ etagUsers # panelUsers /\ EmptyRefused /\ StartFails /\ Free
     \/ /\ etagUsers # panelUsers /\ EmptyRefused /\ RunFails
        /\ etagUsers' = Kept(etagUsers, panelUsers)
        /\ UNCHANGED <<panel, etagNode, etagRules, resp, core, limits, ruleOf, book>>

UsersNotModified ==
  /\ pc = "users" /\ etagUsers = panelUsers
  /\ newUsers' = userList /\ usersChanged' = FALSE
  /\ pc' = "decide"
  /\ UNCHANGED <<panel, client, booting, newNode, nodeChanged, oldTag, reloaded, k, ctl,
                 core, limits, ruleOf, book>>

UsersModified ==
  /\ pc = "users" /\ etagUsers # panelUsers /\ ~EmptyRefused
  /\ etagUsers' = Kept(etagUsers, panelUsers)
  /\ newUsers' = panelUsers /\ usersChanged' = TRUE
  /\ pc' = IF booting THEN "addusers" ELSE "decide"
  /\ userList' = IF booting THEN panelUsers ELSE userList
  /\ UNCHANGED <<panel, etagNode, etagRules, resp, booting, newNode, nodeChanged, oldTag,
                 reloaded, k, nodeInfo, tag, core, limits, ruleOf, book>>

FetchUsers == UsersFail \/ UsersNotModified \/ UsersModified
-----------------------------------------------------------------------------
(* The node: reload of the inbound, or soft update.                        *)

\* Faulty variant: a change that needs no reload is taken for no change.
NodeUnchangedUnlessReload ==
  /\ pc = "decide" /\ ~requiresInboundReload(nodeInfo, newNode)
  /\ pc' = "rules"
  /\ UNCHANGED <<panel, client, booting, locals, ctl, core, limits, ruleOf, book>>

NodeUnchanged ==
  /\ pc = "decide" /\ ~nodeChanged
  /\ pc' = "rules"
  /\ UNCHANGED <<panel, client, booting, locals, ctl, core, limits, ruleOf, book>>

\* UpdateNodeSpeedLimit fails, and is only logged, when the tag has no entry.
SoftUpdate ==
  /\ pc = "decide" /\ nodeChanged /\ ~requiresInboundReload(nodeInfo, newNode)
  /\ nodeLimit' = IF nodeInfo.speed # newNode.speed /\ tag \in limiter
                    THEN [nodeLimit EXCEPT ![tag] = newNode.speed] ELSE nodeLimit
  /\ nodeInfo' = newNode
  /\ pc' = "rules"
  /\ UNCHANGED <<panel, client, booting, locals, tag, userList, core, limiter, userLimits,
                 ruleOf, book>>

BeginReload ==
  /\ pc = "decide" /\ nodeChanged /\ requiresInboundReload(nodeInfo, newNode)
  /\ oldTag' = tag /\ k' = 1
  /\ pc' = "remove"
  /\ UNCHANGED <<panel, client, booting, newNode, nodeChanged, newUsers, usersChanged,
                 reloaded, ctl, core, limits, ruleOf, book>>

\* Faulty variant: the outbound of the tag is forgotten.
RemoveInboundOnly(h) ==
  /\ IF IsInbound(k) THEN inbound' = [inbound EXCEPT ![h] = "absent"]
                          /\ accepts' = [accepts EXCEPT ![h] = {}]
                     ELSE UNCHANGED <<inbound, accepts>>
  /\ UNCHANGED <<shapeOf, outbound>>

\* removeOldTag, one manager call per step. RemoveHandler of xray: a missing
\* inbound is an error, a missing outbound is not.
RemoveHandler(h) ==
  IF IsInbound(k)
    THEN /\ inbound[h] # "absent"
         /\ inbound' = [inbound EXCEPT ![h] = "absent"]
         /\ accepts' = [accepts EXCEPT ![h] = {}]
         /\ UNCHANGED <<shapeOf, outbound>>
    ELSE outbound' = outbound \ {h} /\ UNCHANGED <<inbound, shapeOf, accepts>>

RemoveFails ==
  /\ pc = "remove" /\ IsInbound(k) /\ inbound[<<tag, PartOf(k)>>] = "absent"
  /\ RunFails
  /\ UNCHANGED <<panel, client, core, limits, ruleOf, book>>

RemoveOne ==
  /\ pc = "remove"
  /\ RemoveHandler(<<tag, PartOf(k)>>)
  /\ \/ /\ k < Last(nodeInfo.tag)
        /\ k' = k + 1
        /\ UNCHANGED <<pc, nodeInfo, tag>>
     \/ /\ k = Last(nodeInfo.tag)
        /\ nodeInfo' = newNode /\ tag' = newNode.tag
        /\ k' = 1 /\ pc' = "add"
  /\ UNCHANGED <<panel, client, booting, newNode, nodeChanged, newUsers, usersChanged,
                 oldTag, reloaded, userList, limits, ruleOf, book>>

\* A tag that is registered already is refused.
TagTaken(h) == IF IsInbound(k) THEN inbound[h] # "absent" ELSE h \in outbound

\* AddHandler of xray registers a handler, then starts it: a socket that
\* cannot be opened leaves it registered and dead.
AddHandler(h, state) ==
  /\ ~TagTaken(h)
  /\ IF IsInbound(k)
       THEN /\ inbound' = [inbound EXCEPT ![h] = state]
            /\ shapeOf' = [shapeOf EXCEPT ![h] = nodeInfo.shape]
            /\ accepts' = [accepts EXCEPT ![h] = {}]
            /\ UNCHANGED outbound
       ELSE outbound' = outbound \cup {h} /\ UNCHANGED <<inbound, shapeOf, accepts>>

\* The builder, CreateObject or the manager returns an error.
Refused(h) == IF TagTaken(h) THEN UNCHANGED book ELSE CanFail("build") /\ CoreFault

\* addNewTag, one builder and manager call per step, under c.Tag.
AddFails ==
  LET h == <<tag, PartOf(k)>> IN
  /\ pc = "add"
  /\ \/ CanFail("build") /\ Charge /\ StartFails
     \/ Refused(h) /\ RunFails /\ UNCHANGED <<panel, client, core, limits, ruleOf>>
     \/ CanFail("listen") /\ IsInbound(k) /\ Charge /\ StartFails
     \/ /\ CanFail("listen") /\ IsInbound(k) /\ CoreFault /\ AddHandler(h, "dead")
        /\ RunFails /\ UNCHANGED <<panel, client, limits, ruleOf>>

AddOne ==
  /\ pc = "add"
  /\ AddHandler(<<tag, PartOf(k)>>, "up")
  /\ \/ k < Last(nodeInfo.tag) /\ k' = k + 1 /\ UNCHANGED pc
     \/ /\ k = Last(nodeInfo.tag)
        /\ pc' = IF booting THEN "users" ELSE "dellimiter"
        /\ UNCHANGED k
  /\ UNCHANGED <<panel, client, booting, newNode, nodeChanged, newUsers, usersChanged,
                 oldTag, reloaded, ctl, limits, ruleOf, book>>

DeleteInboundLimiter ==
  /\ pc = "dellimiter"
  /\ limiter' = limiter \ {oldTag}
  /\ nodeLimit' = [nodeLimit EXCEPT ![oldTag] = None]
  /\ userLimits' = [userLimits EXCEPT ![oldTag] = {}]
  /\ reloaded' = TRUE
  /\ pc' = "rules"
  /\ UNCHANGED <<panel, client, booting, newNode, nodeChanged, newUsers, usersChanged,
                 oldTag, k, ctl, core, ruleOf, book>>
-----------------------------------------------------------------------------
(* Rules and users.                                                        *)

\* GetNodeRule and UpdateRule: no answer and an empty list leave the rules alone.
ApplyRules(list) ==
  ruleOf' = IF list = {} THEN ruleOf ELSE [ruleOf EXCEPT ![tag] = list]

AnswerRules ==
  \/ RulesInNode /\ ApplyRules(resp) /\ UNCHANGED <<etagRules, book>>
  \/ LocalRules /\ UNCHANGED <<etagRules, ruleOf, book>>
  \/ AsksForRules /\ CanFail("rules") /\ FetchFault /\ UNCHANGED <<etagRules, ruleOf>>
  \/ AsksForRules /\ etagRules = panelRules /\ UNCHANGED <<etagRules, ruleOf, book>>
  \/ /\ AsksForRules /\ etagRules # panelRules
     /\ etagRules' = Kept(etagRules, panelRules)
     /\ ApplyRules(panelRules) /\ UNCHANGED book

\* What comes after the rules: Start's end, a reload's addNewUser, the user
\* diff, or the end of the run.
AfterRules ==
  \/ booting /\ booting' = FALSE /\ pc' = "idle" /\ ClearLocals /\ UNCHANGED userList
  \/ /\ ~booting /\ reloaded /\ pc' = "addusers"
     /\ UNCHANGED <<booting, locals, userList>>
  \/ /\ ~booting /\ ~reloaded /\ usersChanged /\ pc' = "removeusers"
     /\ UNCHANGED <<booting, locals, userList>>
  \/ /\ ~booting /\ ~reloaded /\ ~usersChanged
     /\ userList' = newUsers /\ GoIdle

\* The v2raysocks client reads the rules from its ConfigResp, which a failed
\* node request left nil: the goroutine panics and the process ends.
ConfigLost == RulesInNode /\ resp = None

RulesPanic == pc = "rules" /\ ConfigLost /\ Restart /\ Free

FetchRules ==
  /\ pc = "rules" /\ ~ConfigLost
  /\ AnswerRules /\ AfterRules
  /\ UNCHANGED <<panel, etagNode, etagUsers, resp, nodeInfo, tag, core, limits>>

\* UserManager.AddUser for each of us in no particular order, stopping at the
\* first that fails: the id is registered already, or the account is refused.
Clash(us) == inbound[Main] = "absent" \/ IdsOf(us) \cap IdsOf(accepts[Main]) # {}
AllAdded(us) ==
  /\ ~Clash(us)
  /\ accepts' = [accepts EXCEPT ![Main] = @ \cup us]
  /\ UNCHANGED <<inbound, shapeOf, outbound, book>>
SomeAdded(us) ==
  /\ IF Clash(us) THEN UNCHANGED book ELSE us # {} /\ CanFail("adduser") /\ CoreFault
  /\ IF inbound[Main] = "absent" THEN UNCHANGED accepts
     ELSE \E got \in SUBSET Without(us, accepts[Main]) :
            got # us /\ accepts' = [accepts EXCEPT ![Main] = @ \cup got]
  /\ UNCHANGED <<inbound, shapeOf, outbound>>

\* addNewUser with the whole list, in Start and after a reload.
AddAllUsers ==
  /\ pc = "addusers"
  /\ AllAdded(newUsers) /\ pc' = "addlimiter"
  /\ UNCHANGED <<panel, client, booting, locals, ctl, limits, ruleOf>>

AddAllUsersFails ==
  /\ pc = "addusers"
  /\ \/ /\ newUsers # {} /\ CanFail("adduser") /\ Charge /\ StartFails
     \/ /\ SomeAdded(newUsers) /\ RunFails
        /\ UNCHANGED <<panel, client, limits, ruleOf>>

AddInboundLimiter ==
  /\ pc = "addlimiter"
  /\ limiter' = limiter \cup {tag}
  /\ nodeLimit' = [nodeLimit EXCEPT ![tag] = newNode.speed]
  /\ userLimits' = [userLimits EXCEPT ![tag] = newUsers]
  /\ \/ booting /\ pc' = "rules" /\ UNCHANGED <<booting, locals, userList>>
     \/ ~booting /\ userList' = newUsers /\ GoIdle
  /\ UNCHANGED <<panel, client, nodeInfo, tag, core, ruleOf, book>>

\* The hot path: removeUsers by email, stopping at the first that is missing.
RemoveUsers ==
  /\ pc = "removeusers"
  /\ \E gone \in SUBSET {u \in accepts[Main] : u.id \in IdsOf(Deleted)} :
       /\ IdsOf(Deleted) \subseteq IdsOf(accepts[Main]) =>
            IdsOf(gone) = IdsOf(Deleted)
       /\ accepts' = [accepts EXCEPT ![Main] = Without(@, gone)]
  /\ pc' = "dellimusers"
  /\ UNCHANGED <<panel, client, booting, locals, ctl, inbound, shapeOf, outbound, limits,
                 ruleOf, book>>

DeleteLimiterUsers ==
  /\ pc = "dellimusers"
  /\ userLimits' = [userLimits EXCEPT ![tag] = Without(@, Deleted)]
  /\ pc' = "adddiff"
  /\ UNCHANGED <<panel, client, booting, locals, ctl, core, limiter, nodeLimit, ruleOf, book>>

\* addNewUser with the added users only; its error is logged and the pass goes on.
AddDiffUsers ==
  /\ pc = "adddiff"
  /\ \/ Added = {} /\ UNCHANGED <<core, book>>
     \/ Added # {} /\ (AllAdded(Added) \/ SomeAdded(Added))
  /\ pc' = "updlimiter"
  /\ UNCHANGED <<panel, client, booting, locals, ctl, limits, ruleOf>>

UpdateInboundLimiter ==
  /\ pc = "updlimiter"
  /\ userLimits' = IF tag \in limiter
                     THEN [userLimits EXCEPT ![tag] = Without(@, Added) \cup Added]
                     ELSE userLimits
  /\ userList' = newUsers /\ GoIdle
  /\ UNCHANGED <<panel, client, nodeInfo, tag, core, limiter, nodeLimit, ruleOf, book>>
-----------------------------------------------------------------------------
Step ==
  \/ StartFetchNode \/ FetchNode \/ FetchUsers
  \/ NodeUnchanged \/ SoftUpdate \/ BeginReload
  \/ RemoveFails \/ RemoveOne \/ AddFails \/ AddOne \/ DeleteInboundLimiter
  \/ RulesPanic \/ FetchRules
  \/ AddAllUsers \/ AddAllUsersFails \/ AddInboundLimiter
  \/ RemoveUsers \/ DeleteLimiterUsers \/ AddDiffUsers \/ UpdateInboundLimiter

Next == Publish \/ Crash \/ Step
Spec == Init /\ [][Next]_vars

\* The Periodic reschedules the monitor after every run that returns nil, and
\* each call returns: a controller with a step to take takes it.
FairSpec == Spec /\ WF_vars(Step)
-----------------------------------------------------------------------------
(* What the controller promises.                                           *)

\* Everything registered with xray is under c.Tag, and only a plugin node has
\* a door: a reload (removeOldTag, addNewTag) leaves no listener of an earlier
\* configuration behind, whatever fails on the way.
NoStrayHandler ==
  \A h \in Handlers :
    inbound[h] # "absent" \/ h \in outbound =>
      h[1] = tag /\ (h[2] = "door" => tag \in PluginTags)

\* A registered inbound has the transport of c.nodeInfo: nodeInfo is never
\* replaced under a listener that requiresInboundReload would have rebuilt.
InboundHasShape ==
  \A h \in Handlers : inbound[h] # "absent" => shapeOf[h] = nodeInfo.shape

\* Between two runs of the monitor the xray users, the limiter and c.userList
\* name the same users with the same limits, no other tag has limits, and all
\* handlers are up - unless a builder, a socket or an account failed.
Settled ==
  pc = "idle" /\ ~damaged =>
    /\ \A n \in 1..Last(tag) :
         LET h == <<tag, PartOf(n)>> IN inbound[h] = "up" /\ h \in outbound
    /\ accepts[Main] = userList /\ userLimits[tag] = userList
    /\ limiter = {tag} /\ nodeLimit[tag] = nodeInfo.speed

\* A user xray accepts has the panel's limits, except between addNewUser and
\* the limiter call that follows it - unless one of those failed.
LimitedUnlessAdding ==
  pc \notin {"start", "addlimiter", "updlimiter"} /\ ~damaged =>
    accepts[Main] \subseteq userLimits[tag]

\* An ETag the client sends is the version the controller applied, so that a
\* 304 means there is nothing to do (Etag comments of the panel clients).
EtagIsApplied ==
  pc = "idle" /\ HasEtags =>
    /\ etagNode[1].tag \in ZeroTags \/ etagNode[1] = nodeInfo
    /\ etagUsers = userList

\* The rules in force for c.Tag are the last list the panel answered with (the
\* empty list apart), so that a 304 to GetNodeRule means they are in force.
RulesFollowTag ==
  pc = "idle" /\ etagRules \notin {None, {}} => ruleOf[tag] = etagRules

\* The rules are read only while the client has a configuration to read them
\* from (v2raysocks.go: "fix: reuse config response").
ConfigAtHand == pc = "rules" /\ RulesInNode => resp # None

\* A user that the old and the new list share keeps its registration through a
\* pass that does not reload the inbound (hot add and hot remove).
KeptUsersStay ==
  [][(/\ pc \in {"removeusers", "dellimusers", "adddiff", "updlimiter"}
      /\ pc' # "start")
        => (userList \cap newUsers \cap accepts[Main] \subseteq accepts'[Main])]_vars

\* A listener is torn down only by a crash or for a change of the node that
\* requires it (node_reload.go: user roster and speed limit changes must not).
NoNeedlessReload ==
  [][\A h \in Handlers :
       (inbound[h] = "up" /\ inbound'[h] # "up" /\ pc' # "start")
         => (newNode.tag # nodeInfo.tag \/ newNode.shape # nodeInfo.shape)]_vars

\* What the panel publishes is what is served. An empty user list is refused
\* by some clients and an empty rule list is never applied.
InSync ==
  /\ pc = "idle" /\ nodeInfo = panelNode /\ tag = panelNode.tag
  /\ inbound[Main] = "up" /\ accepts[Main] = panelUsers
  /\ tag \in limiter /\ nodeLimit[tag] = panelNode.speed /\ userLimits[tag] = panelUsers
  /\ panelRules # {} /\ ~LocalRules => ruleOf[tag] = panelRules

\* Whatever the panel publishes, with publications and faults finite, the node
\* ends up serving it, again and again ("UpdatePeriodic: Time to update the nodeinfo").
Converges == []<>InSync
-----------------------------------------------------------------------------
(* The controller as its clients see it.                                   *)

Listening == {t \in Tags : inbound[<<t, "main">>] = "up"}
Listeners == {[tag |-> t, shape |-> shapeOf[<<t, "main">>]] : t \in Listening}
Admitted == UNION {accepts[<<t, "main">>] : t \in Listening}

Service == INSTANCE NodeService WITH
  node <- newNode, roster <- newUsers, kept <- userList \cap newUsers,
  listeners <- Listeners, admitted <- Admitted

\* Through every failure of a pass, one listener at a time is open, it is the
\* fetched node's, users come and go without touching it, and none is accepted
\* in two versions.
ImplementsService == Service!Spec
=============================================================================
