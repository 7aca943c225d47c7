-------------------------- MODULE NodeServiceProofs --------------------------
(***************************************************************************)
(* Proof that the controller of NodeSync implements NodeService: every     *)
(* step of it opens or closes the one listener, admits or evicts users,    *)
(* ends the process, or leaves what is served alone.                       *)
(***************************************************************************)
EXTENDS NodeSyncProofs

\* Once decided, c.nodeInfo is the node that was fetched.
TargetInv ==
  /\ pc \in {"add", "dellimiter", "rules", "addusers", "addlimiter", "removeusers",
             "dellimusers", "adddiff", "updlimiter"} => newNode = nodeInfo
  /\ pc \in {"users", "decide"} /\ (booting \/ ~nodeChanged) => newNode = nodeInfo

VersionInv == \A h \in Handlers : UniqueIds(accepts[h])

ServiceInv == Typed /\ HandlerInv /\ TargetInv /\ VersionInv
-----------------------------------------------------------------------------
(* What is served, in terms of c.Tag and c.nodeInfo.                       *)

LEMMA MainTyped ==
  ASSUME Typed, pc # "start"
  PROVE  Main \in Handlers /\ HandlersOK /\ nodeInfo \in PanelNodes /\ tag = nodeInfo.tag
BY TagTyped DEF Typed, TypeOK, ControlInv, StageInv

\* A comprehension over no tag is empty.
LEMMA NothingListed ==
  ASSUME NEW f, NEW s, s = {}
  PROVE  {f[<<t, "main">>] : t \in s} = {} /\ UNION {f[<<t, "main">>] : t \in s} = {}
<1>1. {f[<<t, "main">>] : t \in s} = {}
  OBVIOUS
<1> QED BY <1>1

MainView ==
  /\ Listeners = IF inbound[Main] = "up" THEN {Service!ListenerOf(nodeInfo)} ELSE {}
  /\ Admitted = IF inbound[Main] = "up" THEN accepts[Main] ELSE {}

LEMMA OnlyMainListens == Typed /\ HandlerInv /\ pc # "start" => MainView
<1> SUFFICES ASSUME Typed, HandlerInv, pc # "start" PROVE MainView
  OBVIOUS
<1>1. tag \in Tags /\ nodeInfo.tag = tag
  BY MainTyped DEF Main, Handlers
<1>2. \A t \in Tags : inbound[<<t, "main">>] = "up" => t = tag
  BY DEF HandlerInv, NoStrayHandler, Handlers, Part
<1>3. Listening = IF inbound[Main] = "up" THEN {tag} ELSE {}
  BY <1>1, <1>2 DEF Listening, Main
<1>4. inbound[Main] = "up" => shapeOf[Main] = nodeInfo.shape
  BY <1>1 DEF HandlerInv, InboundHasShape, Handlers, Part, Main
<1>5. Listeners = IF inbound[Main] = "up" THEN {Service!ListenerOf(nodeInfo)} ELSE {}
  BY <1>1, <1>3, <1>4 DEF Listeners, Main, Service!ListenerOf
<1>6. Admitted = IF inbound[Main] = "up" THEN accepts[Main] ELSE {}
  BY <1>3, NothingListed DEF Admitted, Main
<1> QED BY <1>5, <1>6 DEF MainView

\* The same of the state a step leads to.
LEMMA OnlyMainListensNext == (Typed /\ HandlerInv /\ pc # "start" => MainView)'
BY OnlyMainListens, PTL

NoneUp == \A t \in Tags : inbound[<<t, "main">>] # "up"

LEMMA NothingServed == NoneUp => Listeners = {} /\ Admitted = {}
<1> SUFFICES ASSUME NoneUp PROVE Listeners = {} /\ Admitted = {}
  OBVIOUS
<1>1. Listening = {}
  BY DEF Listening, NoneUp
<1> QED BY <1>1, NothingListed DEF Listeners, Admitted

LEMMA NothingServedNext == (NoneUp => Listeners = {} /\ Admitted = {})'
BY NothingServed, PTL

LEMMA ViewKept ==
  ASSUME UNCHANGED <<inbound, shapeOf, accepts>>
  PROVE  UNCHANGED <<Listeners, Admitted>>
BY DEF Listeners, Admitted, Listening

View == <<Listeners, Admitted>>
Served == Service!Next \/ UNCHANGED View
-----------------------------------------------------------------------------
LEMMA RestartServed == ASSUME Restart PROVE Served
<1>1. NoneUp'
  BY DEF Restart, NoneUp, Handlers, Part
<1>2. Listeners' = {} /\ Admitted' = {}
  BY <1>1, NothingServedNext
<1> QED BY <1>2 DEF Restart, ClearLocals, Served, Service!Next, Service!Crash

\* addNewTag opens the main listener with its first call.
LEMMA AddHandlerServed ==
  ASSUME ServiceInv, pc = "add", NEW state \in {"dead", "up"},
         AddHandler(At(k), state), ServiceInv', UNCHANGED <<tag, nodeInfo>>, pc' # "start"
  PROVE  Served
<1>1. /\ newNode = nodeInfo /\ nodeInfo \in PanelNodes /\ newNode # None
      /\ Main' = Main /\ Main \in Handlers /\ HandlersOK
      /\ k \in 1..4 /\ At(k) \in Handlers
  BY MainTyped, TagTyped, PublishedNode, NoneAssumption
  DEF ServiceInv, TargetInv, Main, At, Typed, TypeOK, StageOK
<1>2. CASE k = 1
  <2>1. At(k) = Main /\ inbound[Main] = "absent" /\ inbound'[Main] = state
        /\ accepts'[Main] = {}
    BY <1>1, <1>2, HandlerOfCall DEF At, Main, AddHandler, TagTaken, HandlersOK
  <2>2. Listeners = {} /\ Admitted = {}
    BY <2>1, OnlyMainListens DEF ServiceInv, MainView
  <2>3. /\ Listeners' = IF state = "up" THEN {Service!ListenerOf(nodeInfo)} ELSE {}
        /\ Admitted' = {}
    BY <1>1, <2>1, OnlyMainListensNext DEF ServiceInv, MainView
  <2> QED BY <1>1, <2>2, <2>3 DEF Served, View, Service!Next, Service!Open
<1>3. CASE k # 1
  <2>1. inbound'[Main] = inbound[Main] /\ accepts'[Main] = accepts[Main]
    BY <1>1, <1>3, HandlerOfCall DEF At, Main, AddHandler, HandlersOK
  <2>2. UNCHANGED <<Listeners, Admitted>>
    BY <1>1, <2>1, OnlyMainListens, OnlyMainListensNext DEF ServiceInv, MainView
  <2> QED BY <2>2 DEF Served, View
<1> QED BY <1>2, <1>3

\* removeOldTag closes it with its first call, for a node that differs.
LEMMA RemoveOneServed ==
  ASSUME ServiceInv, RemoveOne, ServiceInv' PROVE Served
<1>1. /\ pc = "remove" /\ pc' # "start" /\ newNode \in PanelNodes /\ UNCHANGED newNode
      /\ newNode # None /\ nodeInfo \in PanelNodes /\ tag = nodeInfo.tag
      /\ Main \in Handlers /\ HandlersOK
      /\ k \in 1..4 /\ At(k) \in Handlers /\ RemoveHandler(At(k))
      /\ requiresInboundReload(nodeInfo, newNode)
  <2>1. /\ pc = "remove" /\ RemoveHandler(At(k)) /\ UNCHANGED newNode
        /\ pc' \in {pc, "add"}
    BY DEF RemoveOne, At
  <2>2. newNode \in PanelNodes /\ k \in 1..4 /\ requiresInboundReload(nodeInfo, newNode)
    BY <2>1 DEF ServiceInv, HandlerInv, Typed, TypeOK, StageOK, ControlInv, StageInv, Resting
  <2>3. /\ nodeInfo \in PanelNodes /\ tag = nodeInfo.tag
        /\ Main \in Handlers /\ HandlersOK /\ At(k) \in Handlers
    BY <2>1, <2>2, MainTyped, TagTyped DEF ServiceInv, At
  <2> QED BY <2>1, <2>2, <2>3, PublishedNode
<1>2. \A t \in Tags : <<t, "main">> # At(k) =>
        inbound'[<<t, "main">>] = inbound[<<t, "main">>]
        /\ accepts'[<<t, "main">>] = accepts[<<t, "main">>]
  <2>1. \A t \in Tags : <<t, "main">> \in Handlers
    BY DEF Handlers, Part
  <2>2. CASE IsInbound(k)
    BY <1>1, <2>1, <2>2 DEF RemoveHandler, HandlersOK
  <2>3. CASE ~IsInbound(k)
    BY <1>1, <2>3 DEF RemoveHandler
  <2> QED BY <2>2, <2>3
<1>3. CASE k # 1
  <2>1. \A t \in Tags : inbound'[<<t, "main">>] = inbound[<<t, "main">>]
                        /\ accepts'[<<t, "main">>] = accepts[<<t, "main">>]
    <3>1. CASE k = 3
      BY <1>2, <3>1, HandlerOfCall DEF At
    <3>2. CASE k \in {2, 4}
      BY <1>1, <3>2, HandlerOfCall DEF RemoveHandler
    <3>3. k = 3 \/ k \in {2, 4}
      BY <1>1, <1>3
    <3> QED BY <3>1, <3>2, <3>3
  <2>2. UNCHANGED shapeOf
    BY <1>1 DEF RemoveHandler
  <2> QED BY <2>1, <2>2 DEF Served, View, Listeners, Admitted, Listening
<1>4. CASE k = 1
  <2>1. At(k) = Main /\ inbound'[Main] = "absent"
    BY <1>1, <1>4, HandlerOfCall DEF At, Main, RemoveHandler, HandlersOK
  <2>2. NoneUp'
    <3>1. \A t \in Tags : t # tag => inbound[<<t, "main">>] # "up"
      BY DEF ServiceInv, HandlerInv, NoStrayHandler, Handlers, Part
    <3> QED BY <1>2, <2>1, <3>1 DEF Main, NoneUp
  <2>3. Listeners' = {} /\ Admitted' = {}
    BY <2>2, NothingServedNext
  <2>4. Service!ListenerOf(nodeInfo) # Service!ListenerOf(newNode)
    BY <1>1, PublishedNode DEF Service!ListenerOf, requiresInboundReload, Node
  <2>5. Service!ListenerOf(newNode) \notin Listeners
    BY <1>1, <2>4, OnlyMainListens DEF ServiceInv, MainView
  <2> QED BY <1>1, <2>3, <2>5 DEF Served, Service!Next, Service!Close
<1> QED BY <1>3, <1>4
-----------------------------------------------------------------------------
LEMMA VersionsTogether ==
  ASSUME NEW a, NEW b, UniqueIds(a), UniqueIds(b), IdsOf(a) \cap IdsOf(b) = {}
  PROVE  UniqueIds(a \cup b)
BY DEF UniqueIds, IdsOf

\* addNewUser admits users of the list being applied, under ids not in use.
LEMMA UsersAddedServed ==
  ASSUME ServiceInv, pc \in {"addusers", "adddiff"}, NEW us \in SUBSET newUsers,
         AllAdded(us) \/ SomeAdded(us), UNCHANGED <<tag, nodeInfo>>,
         Typed', HandlerInv', pc' # "start"
  PROVE  Served /\ VersionInv'
<1>1. /\ newNode = nodeInfo /\ nodeInfo \in PanelNodes /\ newNode # None
      /\ Main' = Main /\ Main \in Handlers /\ HandlersOK
      /\ UniqueIds(newUsers) /\ UniqueIds(accepts[Main])
      /\ UNCHANGED <<inbound, shapeOf>>
  BY MainTyped, PublishedNode
  DEF ServiceInv, TargetInv, VersionInv, Main, Typed, ControlInv, RosterInv, AllAdded, SomeAdded
<1>2. PICK got \in SUBSET us :
        /\ accepts'[Main] = accepts[Main] \cup got
        /\ \A h \in Handlers : h # Main => accepts'[h] = accepts[h]
        /\ IdsOf(accepts[Main]) \cap IdsOf(got) = {}
  <2>1. CASE UNCHANGED accepts
    <3>1. IdsOf({}) = {} /\ accepts'[Main] = accepts[Main] \cup {}
      BY <2>1 DEF IdsOf
    <3> QED BY <2>1, <3>1
  <2>2. CASE AllAdded(us)
    <3>1. IdsOf(accepts[Main]) \cap IdsOf(us) = {}
      BY <2>2 DEF AllAdded, Clash
    <3> QED BY <1>1, <2>2, <3>1 DEF AllAdded, HandlersOK
  <2>3. CASE SomeAdded(us) /\ accepts' # accepts
    <3>1. PICK got \in SUBSET Without(us, accepts[Main]) :
            accepts' = [accepts EXCEPT ![Main] = @ \cup got]
      BY <2>3 DEF SomeAdded
    <3>2. IdsOf(accepts[Main]) \cap IdsOf(got) = {} /\ got \in SUBSET us
      BY <3>1 DEF Without, IdsOf
    <3> QED BY <1>1, <3>1, <3>2 DEF HandlersOK
  <2> QED BY <2>1, <2>2, <2>3
<1>3. UniqueIds(got)
  BY <1>1 DEF UniqueIds
<1>4. UniqueIds(accepts'[Main])
  BY <1>1, <1>2, <1>3, VersionsTogether
<1>5. VersionInv'
  BY <1>2, <1>4 DEF ServiceInv, VersionInv
<1>6. MainView /\ MainView'
  BY OnlyMainListens, OnlyMainListensNext DEF ServiceInv
<1>7. CASE inbound[Main] = "up"
  <2>1. /\ Listeners = {Service!ListenerOf(newNode)} /\ UNCHANGED Listeners
        /\ Admitted = accepts[Main] /\ Admitted' = accepts'[Main]
    BY <1>1, <1>6, <1>7 DEF MainView
  <2>2. Service!OneVersion(Admitted')
    BY <1>4, <2>1 DEF UniqueIds, Service!OneVersion
  <2>3. Service!Admit
    BY <1>1, <1>2, <2>1, <2>2 DEF Service!Admit
  <2> QED BY <1>5, <2>3 DEF Served, Service!Next
<1>8. CASE inbound[Main] # "up"
  BY <1>1, <1>5, <1>6, <1>8 DEF MainView, Served, View
<1> QED BY <1>7, <1>8

\* removeUsers evicts no user that both lists name.
LEMMA RemoveUsersServed ==
  ASSUME ServiceInv, RemoveUsers, Typed', HandlerInv' PROVE Served /\ VersionInv'
<1>1. /\ pc = "removeusers" /\ pc' = "dellimusers" /\ UNCHANGED <<tag, nodeInfo, inbound, shapeOf>>
      /\ Main \in Handlers /\ HandlersOK /\ UniqueIds(userList) /\ Main' = Main
  BY MainTyped DEF RemoveUsers, ctl, ServiceInv, Typed, ControlInv, RosterInv, Main
<1>2. PICK gone \in SUBSET {u \in accepts[Main] : u.id \in IdsOf(Deleted)} :
        accepts' = [accepts EXCEPT ![Main] = Without(@, gone)]
  BY DEF RemoveUsers
<1>3. /\ accepts'[Main] = Without(accepts[Main], gone)
      /\ \A h \in Handlers : h # Main => accepts'[h] = accepts[h]
  BY <1>1, <1>2 DEF HandlersOK
<1>4. VersionInv'
  BY <1>1, <1>3 DEF ServiceInv, VersionInv, UniqueIds, Without
<1>5. \A u \in userList \cap newUsers : u.id \notin IdsOf(Deleted)
  BY <1>1 DEF UniqueIds, IdsOf, Deleted
<1>6. (accepts[Main] \ accepts'[Main]) \cap (userList \cap newUsers) = {}
  BY <1>2, <1>3, <1>5 DEF Without, IdsOf
<1>7. accepts'[Main] \subseteq accepts[Main]
  BY <1>3 DEF Without
<1>8. MainView /\ MainView'
  BY <1>1, OnlyMainListens, OnlyMainListensNext DEF ServiceInv
<1>9. Service!Evict
  BY <1>1, <1>6, <1>7, <1>8 DEF MainView, Service!Evict
<1> QED BY <1>4, <1>9 DEF Served, Service!Next
-----------------------------------------------------------------------------
(* The steps, and what they do to the two parts of the invariant.          *)

LEMMA Quiet ==
  ASSUME UNCHANGED <<inbound, shapeOf, accepts>>, VersionInv PROVE Served /\ VersionInv'
BY ViewKept DEF Served, View, VersionInv

LEMMA RestartVersion == ASSUME Restart PROVE VersionInv'
BY DEF Restart, VersionInv, UniqueIds

\* Where the controller's target is set.
LEMMA NextTarget == ASSUME Typed, TargetInv, [Next]_vars, Typed' PROVE TargetInv'
<1>1. CASE Restart
  BY <1>1 DEF Restart, TargetInv
<1>2. CASE Publish \/ UNCHANGED vars
  BY <1>2 DEF TargetInv, Publish, vars, locals, ctl
<1>3. CASE ~Restart /\ Step
  <2>1. CASE StartFetchNode \/ FetchNode
    BY <1>3, <2>1 DEF TargetInv, StartFetchNode, FetchNode, Typed, ControlInv, StageInv, ctl, Shared
  <2>2. CASE FetchUsers
    BY <1>3, <2>2 DEF TargetInv, FetchUsers, UsersFail, UsersNotModified, UsersModified,
      StartFails, RunFails, GoIdle, ctl
  <2>3. CASE NodeUnchanged \/ SoftUpdate \/ BeginReload
    BY <2>3 DEF TargetInv, NodeUnchanged, SoftUpdate, BeginReload, locals, ctl
  <2>4. CASE RemoveFails \/ RemoveOne
    BY <2>4 DEF TargetInv, RemoveFails, RemoveOne, RunFails, GoIdle, ctl
  <2>5. CASE AddFails
    BY <1>3, <2>5 DEF TargetInv, AddFails, StartFails, RunFails, GoIdle, ctl
  <2>6. CASE AddOne \/ DeleteInboundLimiter
    BY <2>6 DEF TargetInv, AddOne, DeleteInboundLimiter, ctl
  <2>7. CASE RulesPanic \/ FetchRules
    BY <1>3, <2>7 DEF TargetInv, RulesPanic, FetchRules, AfterRules, GoIdle, ClearLocals, locals
  <2>8. CASE AddAllUsers \/ AddAllUsersFails
    BY <1>3, <2>8 DEF TargetInv, AddAllUsers, AddAllUsersFails, StartFails, RunFails, GoIdle,
      locals, ctl
  <2>9. CASE AddInboundLimiter \/ UpdateInboundLimiter
    BY <2>9 DEF TargetInv, AddInboundLimiter, UpdateInboundLimiter, GoIdle, locals
  <2>10. CASE RemoveUsers \/ DeleteLimiterUsers \/ AddDiffUsers
    BY <2>10 DEF TargetInv, RemoveUsers, DeleteLimiterUsers, AddDiffUsers, locals, ctl
  <2> QED BY <1>3, <2>1, <2>2, <2>3, <2>4, <2>5, <2>6, <2>7, <2>8, <2>9, <2>10 DEF Step
<1> QED BY <1>1, <1>2, <1>3 DEF Next, Crash

LEMMA AddServed ==
  ASSUME ServiceInv, AddFails \/ AddOne, ~Restart, Typed', HandlerInv', TargetInv'
  PROVE  Served /\ VersionInv'
<1>1. /\ pc = "add" /\ pc' # "start" /\ UNCHANGED <<tag, nodeInfo>>
      /\ \/ UNCHANGED <<inbound, shapeOf, accepts>>
         \/ \E state \in {"dead", "up"} : AddHandler(At(k), state)
  BY DEF AddFails, AddOne, StartFails, RunFails, GoIdle, ctl, core, At
<1>2. CASE UNCHANGED <<inbound, shapeOf, accepts>>
  BY <1>2, Quiet DEF ServiceInv
<1>3. CASE \E state \in {"dead", "up"} : AddHandler(At(k), state)
  <2>1. PICK state \in {"dead", "up"} : AddHandler(At(k), state)
    BY <1>3
  <2>2. At(k) \in Handlers /\ HandlersOK
    BY <1>1, TagTyped DEF ServiceInv, Typed, TypeOK, StageOK, At
  <2>3. \A h \in Handlers : accepts'[h] = accepts[h] \/ accepts'[h] = {}
    BY <2>1, <2>2 DEF AddHandler, HandlersOK
  <2>4. VersionInv'
    BY <2>3 DEF ServiceInv, VersionInv, UniqueIds
  <2>5. ServiceInv'
    BY <2>4 DEF ServiceInv
  <2> QED BY <1>1, <2>1, <2>4, <2>5, AddHandlerServed
<1> QED BY <1>1, <1>2, <1>3

LEMMA NextServed ==
  ASSUME ServiceInv, [Next]_vars PROVE Served /\ ServiceInv'
<1>1. Typed' /\ HandlerInv' /\ TargetInv'
  BY NextTyped, NextHandlers, NextTarget DEF ServiceInv
<1>2. CASE Restart
  BY <1>1, <1>2, RestartServed, RestartVersion DEF ServiceInv
<1>3. CASE UNCHANGED <<inbound, shapeOf, accepts>>
  BY <1>1, <1>3, Quiet DEF ServiceInv
<1>4. CASE ~Restart /\ (AddFails \/ AddOne)
  BY <1>1, <1>4, AddServed DEF ServiceInv
<1>5. CASE RemoveOne
  <2>1. \A h \in Handlers : accepts'[h] = accepts[h] \/ accepts'[h] = {}
    BY <1>5 DEF RemoveOne, RemoveHandler, ServiceInv, Typed, TypeOK, HandlersOK
  <2>2. VersionInv'
    BY <2>1 DEF ServiceInv, VersionInv, UniqueIds
  <2> QED BY <1>1, <1>5, <2>2, RemoveOneServed DEF ServiceInv
<1>6. CASE ~Restart /\ (AddAllUsers \/ AddAllUsersFails)
  <2>1. /\ pc = "addusers" /\ pc' # "start" /\ UNCHANGED <<tag, nodeInfo>>
        /\ AllAdded(newUsers) \/ SomeAdded(newUsers)
    BY <1>6 DEF AddAllUsers, AddAllUsersFails, StartFails, RunFails, GoIdle, ctl
  <2> QED BY <1>1, <2>1, UsersAddedServed DEF ServiceInv
<1>7. CASE AddDiffUsers
  <2>1. /\ pc = "adddiff" /\ pc' # "start" /\ UNCHANGED <<tag, nodeInfo>>
        /\ UNCHANGED core \/ AllAdded(Added) \/ SomeAdded(Added)
    BY <1>7 DEF AddDiffUsers, ctl
  <2>2. Added \in SUBSET newUsers
    BY DEF Added
  <2>3. CASE UNCHANGED core
    BY <1>3, <2>3 DEF core
  <2> QED BY <1>1, <2>1, <2>2, <2>3, UsersAddedServed DEF ServiceInv
<1>8. CASE RemoveUsers
  BY <1>1, <1>8, RemoveUsersServed DEF ServiceInv
<1>9. CASE UNCHANGED vars \/ Publish
  BY <1>3, <1>9 DEF vars, core, Publish
<1>10. CASE ~Restart /\ Step
  <2>1. CASE StartFetchNode \/ FetchNode \/ FetchUsers \/ NodeUnchanged \/ SoftUpdate
               \/ BeginReload
    BY <1>3, <1>10, <2>1
    DEF StartFetchNode, FetchNode, FetchUsers, UsersFail, UsersNotModified, UsersModified,
        StartFails, NodeUnchanged, SoftUpdate, BeginReload, core
  <2>2. CASE RemoveFails \/ DeleteInboundLimiter \/ RulesPanic \/ FetchRules
    BY <1>3, <1>10, <2>2 DEF RemoveFails, DeleteInboundLimiter, RulesPanic, FetchRules, core
  <2>3. CASE AddInboundLimiter \/ DeleteLimiterUsers \/ UpdateInboundLimiter
    BY <1>3, <2>3 DEF AddInboundLimiter, DeleteLimiterUsers, UpdateInboundLimiter, core
  <2> QED BY <1>4, <1>5, <1>6, <1>7, <1>8, <1>10, <2>1, <2>2, <2>3 DEF Step
<1> QED BY <1>2, <1>9, <1>10 DEF Next, Crash

\* The controller implements NodeService: whatever fails or crashes in a pass,
\* and whatever the panel publishes meanwhile, its clients see one listener of
\* the fetched node, and users that come and go without touching it.
THEOREM ControllerImplementsService == Spec => ImplementsService
<1>1. Init => ServiceInv
  <2> SUFFICES ASSUME Init PROVE ServiceInv
    OBVIOUS
  <2>1. TargetInv /\ VersionInv
    BY DEF Init, TargetInv, VersionInv, UniqueIds
  <2> QED BY <2>1, InitTyped, InitHandlers DEF ServiceInv
<1>2. Init => Service!Init
  <2> SUFFICES ASSUME Init PROVE Service!Init
    OBVIOUS
  <2>1. NoneUp
    BY DEF Init, NoneUp, Handlers, Part
  <2> QED BY <2>1, NothingServed DEF Service!Init
<1>3. ServiceInv /\ [Next]_vars => ServiceInv'
  BY NextServed
<1>4. ServiceInv /\ [Next]_vars => [Service!Next]_<<Listeners, Admitted>>
  BY NextServed DEF Served, View
<1> QED BY <1>1, <1>2, <1>3, <1>4, PTL DEF Spec, ImplementsService, Service!Spec
=============================================================================
