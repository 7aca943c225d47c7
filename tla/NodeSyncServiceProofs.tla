------------------------ MODULE NodeSyncServiceProofs ------------------------
(***************************************************************************)
(* Proofs about what the node serves: as long as no builder, socket or     *)
(* account has failed, the handlers, the users xray knows and the limiter  *)
(* agree with what the controller has applied.                             *)
(***************************************************************************)
EXTENDS NodeSyncProofs

Invariant == Typed /\ HandlerInv /\ (~damaged => ServingInv)

-----------------------------------------------------------------------------
(* Frames: what a step leaves alone.                                       *)

LEMMA RunningKept ==
  ASSUME UNCHANGED <<inbound, outbound, tag>>, NEW n
  PROVE  (Running(n)' <=> Running(n)) /\ (Gone(n)' <=> Gone(n))
BY DEF Running, Gone, At

LEMMA AllRunningKept ==
  ASSUME UNCHANGED <<inbound, outbound, tag>>
  PROVE  AllRunning' <=> AllRunning
BY RunningKept DEF AllRunning

LEMMA AcceptedKept ==
  ASSUME UNCHANGED <<accepts, tag>> PROVE Accepted' = Accepted
BY DEF Accepted, Main

LEMMA LimitedKept ==
  ASSUME UNCHANGED limits, UNCHANGED tag, nodeInfo'.speed = nodeInfo.speed, NEW us, Limited(us)
  PROVE  limiter' = {tag'} /\ nodeLimit'[tag'] = nodeInfo'.speed /\ userLimits'[tag'] = us
BY DEF limits, Limited

LEMMA ServingKept ==
  ASSUME Serving, UNCHANGED <<core, limits, tag, nodeInfo, userList>>
  PROVE  Serving'
BY AllRunningKept, AcceptedKept DEF Serving, Limited, core, limits

LEMMA RebuiltKept ==
  ASSUME Rebuilt, UNCHANGED <<core, tag, nodeInfo, newNode>>
  PROVE  Rebuilt'
BY AllRunningKept, AcceptedKept DEF Rebuilt, core

\* A registered and running node.
LEMMA MainRuns ==
  ASSUME AllRunning PROVE inbound[Main] = "up"
<1>1. Running(1)
  BY DEF AllRunning, Last
<1> QED BY <1>1 DEF Running, IsInbound, At, PartOf, Main
-----------------------------------------------------------------------------
(* What compareUserList computes, for lists that name a user once.         *)

LEMMA KeepsCommon ==
  ASSUME UniqueIds(userList), NEW gone, IdsOf(gone) = IdsOf(Deleted)
  PROVE  Without(userList, gone) = Common
BY DEF UniqueIds, IdsOf, Deleted, Without, Common

LEMMA AddedIsNew ==
  ASSUME UniqueIds(newUsers)
  PROVE  /\ IdsOf(Added) \cap IdsOf(Common) = {}
         /\ Common \cup Added = newUsers
         /\ Without(Common, Added) = Common
BY DEF UniqueIds, IdsOf, Added, Without, Common
-----------------------------------------------------------------------------
LEMMA InitService == ASSUME Init PROVE ServingInv
BY DEF Init, ServingInv, Resting

LEMMA RestartService == ASSUME Restart PROVE ServingInv'
BY DEF Restart, ServingInv, Resting

LEMMA StartFetchNodeService ==
  ASSUME Invariant, StartFetchNode, ~damaged' PROVE ServingInv'
<1>1. CASE Restart
  BY <1>1, RestartService
<1>2. CASE ~Restart
  <2>1. /\ pc = "start" /\ pc' = "add" /\ k' = k /\ k = 1 /\ booting /\ booting'
        /\ nodeInfo' = newNode' /\ tag' = panelNode.tag
        /\ UNCHANGED <<inbound, outbound, accepts, limiter, damaged>>
    BY <1>2 DEF StartFetchNode, core, limits, book, Invariant, Typed, ControlInv, StageInv
  <2>2. limiter' = {}
    BY <2>1 DEF Invariant, ServingInv
  <2>3. tag' \in Tags
    BY <2>1, PublishedNode DEF Invariant, Typed, TypeOK, PanelOK
  <2>4. \A h \in Handlers : inbound'[h] = "absent" /\ h \notin outbound' /\ accepts'[h] = {}
    BY <2>1 DEF Invariant, HandlerInv
  <2>5. \A n \in 1..4 : At(n)' \in Handlers
    BY <2>3 DEF At, Handlers, PartOf, Part
  <2>6. \A n \in 1..4 : Gone(n)'
    BY <2>4, <2>5 DEF Gone
  <2>7. Accepted' = {}
    BY <2>3, <2>4 DEF Accepted, Main, Handlers, Part
  <2> QED BY <2>1, <2>2, <2>6, <2>7 DEF ServingInv, Resting
<1> QED BY <1>1, <1>2

LEMMA FetchNodeService ==
  ASSUME Invariant, FetchNode, ~damaged' PROVE ServingInv'
<1>1. /\ pc = "idle" /\ UNCHANGED <<core, limits, tag, nodeInfo, userList>> /\ ~damaged
      /\ pc' \in {"idle", "halted", "users"}
      /\ pc' = "users" => (~nodeChanged' => newNode' = nodeInfo')
  BY DEF FetchNode, FetchFault, book, ctl
<1>2. ~booting'
  BY DEF FetchNode, Invariant, Typed, ControlInv, StageInv, Shared
<1>3. Serving'
  BY <1>1, ServingKept DEF Invariant, ServingInv, Resting
<1> QED BY <1>1, <1>2, <1>3 DEF ServingInv, Resting

LEMMA FetchUsersService ==
  ASSUME Invariant, FetchUsers, ~damaged' PROVE ServingInv'
<1>1. CASE Restart
  BY <1>1, RestartService
<1>2. CASE ~Restart
  <2>1. /\ pc = "users" /\ UNCHANGED <<core, limits, tag, nodeInfo, booting, damaged>>
        /\ ~damaged /\ ServingInv
    BY <1>2 DEF FetchUsers, UsersFail, UsersNotModified, UsersModified, StartFails, RunFails,
                GoIdle, FetchFault, book, ctl, Invariant
  <2>2. CASE UsersFail
    <3>1. pc' = "idle" /\ ~booting /\ UNCHANGED userList
      BY <1>2, <2>2 DEF UsersFail, StartFails, RunFails, GoIdle, ctl
    <3>2. Serving'
      BY <2>1, <3>1, ServingKept DEF ServingInv
    <3> QED BY <3>1, <3>2 DEF ServingInv, Resting
  <2>3. CASE UsersNotModified
    <3>1. /\ pc' = "decide" /\ newUsers' = userList /\ etagUsers \in PanelUsers
          /\ UNCHANGED <<userList, newNode, nodeChanged>>
      BY <2>3 DEF UsersNotModified, ctl, Invariant, Typed, TypeOK, PanelOK
    <3>2. ~booting
      BY <2>1, <3>1, PublishedList DEF Invariant, Typed, ControlInv, StageInv
    <3>3. Serving' /\ (~nodeChanged' => newNode' = nodeInfo')
      BY <2>1, <3>1, <3>2, ServingKept DEF ServingInv
    <3> QED BY <2>1, <3>1, <3>2, <3>3 DEF ServingInv, Resting
  <2>4. CASE UsersModified
    <3>1. CASE booting
      <4>1. pc' = "addusers" /\ booting' /\ userList' = newUsers' /\ UNCHANGED newNode
        BY <2>1, <2>4, <3>1 DEF UsersModified
      <4>2. Rebuilt' /\ limiter' = {}
        BY <2>1, <3>1, <4>1, RebuiltKept DEF ServingInv, limits
      <4> QED BY <4>1, <4>2 DEF ServingInv, Resting
    <3>2. CASE ~booting
      <4>1. /\ pc' = "decide" /\ ~booting' /\ usersChanged'
            /\ UNCHANGED <<userList, newNode, nodeChanged>>
        BY <2>1, <2>4, <3>2 DEF UsersModified
      <4>2. Serving' /\ (~nodeChanged' => newNode' = nodeInfo')
        BY <2>1, <3>2, <4>1, ServingKept DEF ServingInv
      <4> QED BY <4>1, <4>2 DEF ServingInv, Resting
    <3> QED BY <3>1, <3>2
  <2> QED BY <2>2, <2>3, <2>4 DEF FetchUsers
<1> QED BY <1>1, <1>2

LEMMA NodeUnchangedService ==
  ASSUME Invariant, NodeUnchanged, ~damaged' PROVE ServingInv'
<1>1. /\ pc = "decide" /\ pc' = "rules" /\ ~damaged /\ ServingInv
      /\ UNCHANGED <<core, limits, tag, nodeInfo, userList, booting>>
      /\ UNCHANGED <<newUsers, usersChanged, reloaded>>
  BY DEF NodeUnchanged, book, ctl, locals, Invariant
<1>2. ~booting /\ ~reloaded
  BY <1>1 DEF Invariant, Typed, ControlInv, StageInv, Shared
<1>3. Serving'
  BY <1>1, <1>2, ServingKept DEF ServingInv
<1>4. ~usersChanged' => newUsers' = userList'
  BY <1>1 DEF ServingInv
<1> QED BY <1>1, <1>2, <1>3, <1>4 DEF ServingInv, Resting

LEMMA SoftUpdateService ==
  ASSUME Invariant, SoftUpdate, ~damaged' PROVE ServingInv'
<1>1. /\ pc = "decide" /\ pc' = "rules" /\ ~damaged /\ ServingInv /\ nodeInfo' = newNode
      /\ UNCHANGED <<core, tag, userList, booting, limiter, userLimits>>
      /\ UNCHANGED <<newUsers, usersChanged, reloaded>>
  BY DEF SoftUpdate, book, locals, Invariant
<1>2. ~booting /\ ~reloaded
  BY <1>1 DEF Invariant, Typed, ControlInv, StageInv, Shared
<1>3. Serving /\ (~usersChanged => newUsers = userList)
  BY <1>1, <1>2 DEF ServingInv
<1>4. AllRunning' /\ Accepted' = userList'
  BY <1>1, <1>3, AllRunningKept, AcceptedKept DEF Serving, core
<1>5. nodeLimit'[tag] = newNode.speed
  <2>1. tag \in limiter /\ nodeLimit[tag] = nodeInfo.speed /\ tag \in Tags
    BY <1>1, <1>3, TagTyped DEF Serving, Limited, Invariant
  <2>2. nodeLimit' = (IF nodeInfo.speed # newNode.speed
                        THEN [nodeLimit EXCEPT ![tag] = newNode.speed] ELSE nodeLimit)
    BY <2>1 DEF SoftUpdate
  <2> QED BY <2>1, <2>2 DEF Invariant, Typed, TypeOK, LimitsOK
<1>6. Limited(userList)'
  BY <1>1, <1>3, <1>5 DEF Serving, Limited
<1> QED BY <1>1, <1>2, <1>3, <1>4, <1>6 DEF ServingInv, Serving, Resting

LEMMA BeginReloadService ==
  ASSUME Invariant, BeginReload, ~damaged' PROVE ServingInv'
<1>1. /\ pc = "decide" /\ pc' = "remove" /\ k' = 1 /\ ~damaged /\ ServingInv
      /\ UNCHANGED <<core, limits, tag, nodeInfo, userList, booting>>
  BY DEF BeginReload, book, ctl, Invariant
<1>2. ~booting
  BY <1>1 DEF Invariant, Typed, ControlInv, StageInv, Shared
<1>3. Serving'
  BY <1>1, <1>2, ServingKept DEF ServingInv
<1>4. \A n \in 1..4 : n <= Last(tag') => Running(n)'
  BY <1>3 DEF Serving, AllRunning
<1> QED BY <1>1, <1>3, <1>4 DEF ServingInv, Serving, Resting

LEMMA RemoveFailsNever ==
  ASSUME Invariant, RemoveFails PROVE damaged
<1>1. pc = "remove" /\ IsInbound(k) /\ inbound[At(k)] = "absent"
  BY DEF RemoveFails, At
<1>2. k \in 1..4 /\ k <= Last(tag)
  BY <1>1 DEF Invariant, Typed, TypeOK, StageOK, ControlInv, StageInv
<1>3. ~damaged => Running(k)
  BY <1>1, <1>2 DEF Invariant, ServingInv
<1> QED BY <1>1, <1>3 DEF Running

LEMMA RemoveOneService ==
  ASSUME Invariant, RemoveOne, ~damaged' PROVE ServingInv'
<1>1. /\ pc = "remove" /\ ~damaged /\ ServingInv /\ UNCHANGED <<limits, userList, booting>>
      /\ RemoveHandler(At(k)) /\ oldTag' = oldTag
  BY DEF RemoveOne, book, At, Invariant
<1>2. /\ k \in 1..4 /\ k <= Last(tag) /\ tag = nodeInfo.tag /\ ~booting /\ oldTag = tag
      /\ HandlersOK /\ \A n \in 1..4 : At(n) \in Handlers
  BY <1>1, TagTyped
  DEF Invariant, Typed, TypeOK, StageOK, ControlInv, StageInv, Shared, At
<1>3. \A h \in Handlers : h # At(k) => (inbound'[h] = inbound[h] /\ (h \in outbound => h \in outbound'))
  BY <1>2, <1>1 DEF RemoveHandler, HandlersOK
<1>4. \A h \in Handlers : accepts'[h] \subseteq accepts[h]
  BY <1>2, <1>1 DEF RemoveHandler, HandlersOK
<1>5. CASE k < Last(nodeInfo.tag)
  <2>1. k' = k + 1 /\ UNCHANGED <<pc, nodeInfo, tag>>
    BY <1>2, <1>5 DEF RemoveOne, Last
  <2>2. ASSUME NEW n \in 1..4, k' <= n, n <= Last(tag') PROVE Running(n)'
    <3>1. Running(n) /\ n # k
      BY <1>1, <1>2, <2>1, <2>2 DEF ServingInv
    <3>2. CASE At(n) # At(k)
      BY <1>2, <1>3, <2>1, <3>1, <3>2 DEF Running, At
    <3>3. CASE At(n) = At(k)
      <4>1. IsInbound(n) <=> ~IsInbound(k)
        BY <1>2, <3>1, <3>3 DEF At, PartOf, IsInbound
      <4>2. IF IsInbound(n) THEN UNCHANGED inbound ELSE UNCHANGED outbound
        BY <1>1, <4>1 DEF RemoveHandler
      <4> QED BY <2>1, <3>1, <4>2 DEF Running, At
    <3> QED BY <3>2, <3>3
  <2>3. Accepted' \subseteq userList'
    BY <1>1, <1>4, <2>1, TagTyped DEF ServingInv, Accepted, Main, Invariant
  <2>4. Limited(userList)'
    BY <1>1, <2>1 DEF ServingInv, Limited, limits
  <2> QED BY <1>1, <2>1, <2>2, <2>3, <2>4 DEF ServingInv, Resting
<1>6. CASE ~(k < Last(nodeInfo.tag))
  <2>1. /\ k' = 1 /\ pc' = "add" /\ nodeInfo' = newNode' /\ tag' = newNode'.tag
        /\ k = Last(nodeInfo.tag) /\ newNode' = newNode
    BY <1>6 DEF RemoveOne
  <2>2. \A h \in Handlers : inbound'[h] = "absent" /\ h \notin outbound' /\ accepts'[h] = {}
    <3>1. \A h \in Handlers : inbound'[h] = "absent" /\ h \notin outbound'
      BY <1>1, <2>1, AllRemoved DEF Invariant
    <3>2. pc' # "remove" /\ HandlerInv'
      BY <2>1, RemoveOneHandlers DEF Invariant
    <3> QED BY <3>1, <3>2 DEF HandlerInv
  <2>3. tag' \in Tags
    BY <1>1, <2>1, LocalTyped DEF Resting, Invariant
  <2>4. \A n \in 1..4 : Gone(n)'
    BY <2>2, <2>3 DEF Gone, At, Handlers, PartOf, Part
  <2>5. Accepted' = {}
    BY <2>2, <2>3 DEF Accepted, Main, Handlers, Part
  <2>6. limiter' = {oldTag'}
    BY <1>1, <1>2 DEF ServingInv, Limited, limits
  <2>7. ~booting'
    BY <1>1, <1>2
  <2> QED BY <2>1, <2>4, <2>5, <2>6, <2>7 DEF ServingInv, Resting
<1> QED BY <1>5, <1>6

LEMMA AddFailsService ==
  ASSUME Invariant, AddFails, ~damaged' PROVE ServingInv'
<1>1. CASE Restart
  BY <1>1, RestartService
<1>2. CASE ~Restart
  <2>1. pc = "add" /\ TagTaken(At(k)) /\ UNCHANGED book
    BY <1>2 DEF AddFails, StartFails, Refused, CoreFault, At
  <2>2. k \in 1..4
    BY DEF Invariant, Typed, TypeOK, StageOK
  <2>3. Gone(k)
    BY <2>1, <2>2 DEF Invariant, ServingInv, book
  <2> QED BY <2>1, <2>3 DEF TagTaken, Gone
<1> QED BY <1>1, <1>2

LEMMA AddOneService ==
  ASSUME Invariant, AddOne, ~damaged' PROVE ServingInv'
<1>1. /\ pc = "add" /\ ~damaged /\ ServingInv /\ AddHandler(At(k), "up")
      /\ UNCHANGED <<booting, tag, nodeInfo, newNode, limiter, oldTag, userList>>
  BY DEF AddOne, book, ctl, limits, At, Invariant
<1>2. /\ k \in 1..4 /\ k <= Last(tag) /\ tag = nodeInfo.tag
      /\ HandlersOK /\ \A n \in 1..4 : At(n) \in Handlers
  BY <1>1, TagTyped DEF Invariant, Typed, TypeOK, StageOK, ControlInv, StageInv, At
<1>3. ASSUME NEW n \in 1..4, n = k PROVE Running(n)'
  BY <1>3, <1>1, <1>2 DEF AddHandler, Running, HandlersOK, At
<1>4. ASSUME NEW n \in 1..4, n # k
      PROVE  (Running(n) => Running(n)') /\ (Gone(n) => Gone(n)')
  <2>1. CASE At(n) # At(k)
    BY <1>1, <1>2, <2>1 DEF AddHandler, Running, Gone, HandlersOK, At
  <2>2. CASE At(n) = At(k)
    <3>1. IsInbound(n) <=> ~IsInbound(k)
      BY <1>2, <1>4, <2>2 DEF At, PartOf, IsInbound
    <3>2. IF IsInbound(n) THEN UNCHANGED inbound ELSE UNCHANGED outbound
      BY <1>1, <3>1 DEF AddHandler
    <3> QED BY <1>1, <3>2 DEF Running, Gone, At
  <2> QED BY <2>1, <2>2
<1>5. \A n \in 1..4 : IF n < k + 1 THEN Running(n)' ELSE Gone(n)'
  BY <1>1, <1>2, <1>3, <1>4 DEF ServingInv
<1>6. Accepted' = {}
  <2>1. Accepted = {} /\ Main \in Handlers
    BY <1>1, TagTyped DEF ServingInv, Invariant
  <2> QED BY <1>1, <1>2, <2>1 DEF Accepted, Main, AddHandler, HandlersOK
<1>7. nodeInfo' = newNode' /\ limiter' = IF booting' THEN {} ELSE {oldTag'}
  BY <1>1 DEF ServingInv
<1>8. CASE k < Last(nodeInfo.tag)
  <2>1. k' = k + 1 /\ pc' = "add"
    BY <1>1, <1>2, <1>8 DEF AddOne, Last
  <2> QED BY <1>5, <1>6, <1>7, <2>1 DEF ServingInv, Resting
<1>9. CASE ~(k < Last(nodeInfo.tag))
  <2>1. k = Last(nodeInfo.tag) /\ pc' = IF booting' THEN "users" ELSE "dellimiter"
    BY <1>1, <1>9 DEF AddOne
  <2>2. AllRunning'
    BY <1>1, <1>2, <1>5, <2>1 DEF AllRunning, Last
  <2>3. Rebuilt'
    BY <1>6, <1>7, <2>2 DEF Rebuilt
  <2> QED BY <1>7, <2>1, <2>3 DEF ServingInv, Resting
<1> QED BY <1>8, <1>9

LEMMA DeleteInboundLimiterService ==
  ASSUME Invariant, DeleteInboundLimiter, ~damaged' PROVE ServingInv'
<1>1. /\ pc = "dellimiter" /\ pc' = "rules" /\ ~damaged /\ ServingInv /\ reloaded'
      /\ limiter' = limiter \ {oldTag}
      /\ UNCHANGED <<core, tag, nodeInfo, newNode, booting>>
  BY DEF DeleteInboundLimiter, book, ctl, Invariant
<1>2. ~booting
  BY <1>1 DEF Invariant, Typed, ControlInv, StageInv, Shared
<1>3. Rebuilt' /\ limiter' = {}
  BY <1>1, RebuiltKept DEF ServingInv
<1> QED BY <1>1, <1>2, <1>3 DEF ServingInv, Resting

LEMMA FetchRulesService ==
  ASSUME Invariant, FetchRules, ~damaged' PROVE ServingInv'
<1>1. /\ pc = "rules" /\ ~damaged /\ ServingInv /\ AfterRules
      /\ UNCHANGED <<core, limits, tag, nodeInfo>>
  BY DEF FetchRules, AnswerRules, FetchFault, book, Invariant
<1>2. CASE booting
  <2>1. pc' = "idle" /\ UNCHANGED userList
    BY <1>1, <1>2 DEF AfterRules
  <2>2. Serving'
    BY <1>1, <1>2, <2>1, ServingKept DEF ServingInv
  <2> QED BY <2>1, <2>2 DEF ServingInv, Resting
<1>3. CASE ~booting /\ reloaded
  <2>1. pc' = "addusers" /\ ~booting' /\ UNCHANGED <<booting, locals, userList>>
    BY <1>1, <1>3 DEF AfterRules
  <2>2. Rebuilt' /\ limiter' = {}
    BY <1>1, <1>3, <2>1, RebuiltKept DEF ServingInv, locals, limits
  <2> QED BY <2>1, <2>2 DEF ServingInv, Resting
<1>4. CASE ~booting /\ ~reloaded /\ usersChanged
  <2>1. pc' = "removeusers" /\ UNCHANGED userList
    BY <1>1, <1>4 DEF AfterRules
  <2>2. Serving'
    BY <1>1, <1>4, <2>1, ServingKept DEF ServingInv
  <2> QED BY <2>1, <2>2 DEF ServingInv, Resting
<1>5. CASE ~booting /\ ~reloaded /\ ~usersChanged
  <2>1. pc' = "idle" /\ userList' = newUsers
    BY <1>1, <1>5 DEF AfterRules, GoIdle
  <2>2. newUsers = userList /\ Serving
    BY <1>1, <1>5 DEF ServingInv
  <2>3. Serving'
    BY <1>1, <2>1, <2>2, ServingKept
  <2> QED BY <2>1, <2>3 DEF ServingInv, Resting
<1> QED BY <1>2, <1>3, <1>4, <1>5

\* Adding users whose ids are new to a running inbound fails only if an
\* account is refused.
LEMMA NewUsersAllAdded ==
  ASSUME AllRunning, NEW us, IdsOf(us) \cap IdsOf(Accepted) = {},
         AllAdded(us) \/ SomeAdded(us), ~damaged'
  PROVE  AllAdded(us)
<1>1. ~Clash(us)
  BY MainRuns DEF Clash, Accepted
<1> QED BY <1>1 DEF SomeAdded, CoreFault

LEMMA AllAddedService ==
  ASSUME Invariant, pc # "start", AllRunning, NEW us, AllAdded(us), UNCHANGED ctl
  PROVE  AllRunning' /\ Accepted' = Accepted \cup us
<1>1. Main \in Handlers /\ HandlersOK
  BY TagTyped DEF Invariant, Typed, TypeOK
<1>2. AllRunning'
  BY AllRunningKept DEF AllAdded, ctl
<1>3. Main' = Main
  BY DEF Main, ctl
<1> QED BY <1>1, <1>2, <1>3 DEF AllAdded, Accepted, HandlersOK

LEMMA AddAllUsersService ==
  ASSUME Invariant, AddAllUsers, ~damaged' PROVE ServingInv'
<1>1. /\ pc = "addusers" /\ pc' = "addlimiter" /\ ~damaged /\ ServingInv
      /\ UNCHANGED <<limits, ctl, booting, locals>> /\ AllAdded(newUsers)
  BY DEF AddAllUsers, AllAdded, book, Invariant
<1>2. Rebuilt /\ limiter = {} /\ (booting => userList = newUsers)
  BY <1>1 DEF ServingInv
<1>3. AllRunning' /\ Accepted' = newUsers
  BY <1>1, <1>2, AllAddedService DEF Rebuilt
<1> QED BY <1>1, <1>2, <1>3 DEF ServingInv, Rebuilt, Resting, limits, ctl, locals

LEMMA AddAllUsersFailsService ==
  ASSUME Invariant, AddAllUsersFails, ~damaged' PROVE ServingInv'
<1>1. CASE Restart
  BY <1>1, RestartService
<1>2. CASE ~Restart
  <2>1. pc = "addusers" /\ SomeAdded(newUsers)
    BY <1>2 DEF AddAllUsersFails, StartFails
  <2>2. Clash(newUsers) /\ ~damaged
    BY <2>1 DEF SomeAdded, CoreFault, book
  <2>3. AllRunning /\ Accepted = {}
    BY <2>1, <2>2 DEF Invariant, ServingInv, Rebuilt
  <2>4. FALSE
    BY <2>2, <2>3, MainRuns DEF Clash, Accepted, IdsOf
  <2> QED BY <2>4
<1> QED BY <1>1, <1>2

LEMMA AddInboundLimiterService ==
  ASSUME Invariant, AddInboundLimiter, ~damaged' PROVE ServingInv'
<1>1. /\ pc = "addlimiter" /\ ~damaged /\ ServingInv
      /\ UNCHANGED <<core, nodeInfo, tag>> /\ tag \in Tags /\ LimitsOK
  BY TagTyped DEF AddInboundLimiter, book, Invariant, Typed, TypeOK
<1>2. /\ AllRunning /\ Accepted = newUsers /\ nodeInfo = newNode /\ limiter = {}
      /\ booting => userList = newUsers
  BY <1>1 DEF ServingInv
<1>3. /\ limiter' = {tag'} /\ nodeLimit'[tag'] = nodeInfo'.speed
      /\ userLimits'[tag'] = newUsers
  BY <1>1, <1>2 DEF AddInboundLimiter, LimitsOK
<1>4. userList' = newUsers
  BY <1>2 DEF AddInboundLimiter
<1>5. AllRunning' /\ Accepted' = newUsers
  BY <1>1, <1>2, AllRunningKept, AcceptedKept DEF core
<1>6. Serving'
  BY <1>3, <1>4, <1>5 DEF Serving, Limited
<1>7. pc' = "idle" \/ (pc' = "rules" /\ booting')
  BY DEF AddInboundLimiter, GoIdle
<1> QED BY <1>6, <1>7 DEF ServingInv, Resting

LEMMA RemoveUsersService ==
  ASSUME Invariant, RemoveUsers, ~damaged' PROVE ServingInv'
<1>1. /\ pc = "removeusers" /\ pc' = "dellimusers" /\ ~damaged /\ ServingInv
      /\ UNCHANGED <<inbound, outbound, limits, ctl, newUsers>>
  BY DEF RemoveUsers, book, locals, Invariant
<1>2. AllRunning /\ Accepted = userList /\ Limited(userList)
  BY <1>1 DEF ServingInv, Serving
<1>3. UniqueIds(userList) /\ Main \in Handlers /\ HandlersOK
  BY <1>1, TagTyped DEF Invariant, Typed, TypeOK, ControlInv, RosterInv
<1>4. PICK gone :
        /\ IdsOf(Deleted) \subseteq IdsOf(accepts[Main]) => IdsOf(gone) = IdsOf(Deleted)
        /\ accepts' = [accepts EXCEPT ![Main] = Without(@, gone)]
  BY DEF RemoveUsers
<1>5. IdsOf(gone) = IdsOf(Deleted)
  BY <1>2, <1>4 DEF IdsOf, Deleted, Accepted
<1>6. accepts'[Main] = Common
  BY <1>2, <1>3, <1>4, <1>5, KeepsCommon DEF Accepted, HandlersOK
<1>7. Accepted' = Common'
  BY <1>1, <1>6 DEF Accepted, Main, Common, ctl
<1>8. AllRunning' /\ Limited(userList)'
  BY <1>1, <1>2, AllRunningKept DEF Limited, limits, ctl
<1> QED BY <1>1, <1>7, <1>8 DEF ServingInv, Resting

LEMMA DeleteLimiterUsersService ==
  ASSUME Invariant, DeleteLimiterUsers, ~damaged' PROVE ServingInv'
<1>1. /\ pc = "dellimusers" /\ pc' = "adddiff" /\ ~damaged /\ ServingInv
      /\ UNCHANGED <<core, limiter, nodeLimit, ctl, newUsers>>
  BY DEF DeleteLimiterUsers, book, locals, Invariant
<1>2. AllRunning /\ Accepted = Common /\ Limited(userList)
  BY <1>1 DEF ServingInv
<1>3. UniqueIds(userList) /\ tag \in Tags /\ LimitsOK
  BY <1>1, TagTyped DEF Invariant, Typed, TypeOK, ControlInv, RosterInv
<1>4. userLimits'[tag] = Common
  BY <1>2, <1>3, KeepsCommon DEF DeleteLimiterUsers, LimitsOK, Limited
<1>5. Limited(Common)'
  BY <1>1, <1>2, <1>4 DEF Limited, Common, ctl
<1>6. AllRunning' /\ Accepted' = Common'
  BY <1>1, <1>2, AllRunningKept, AcceptedKept DEF Common, core, ctl
<1> QED BY <1>1, <1>5, <1>6 DEF ServingInv, Resting

LEMMA AddDiffUsersService ==
  ASSUME Invariant, AddDiffUsers, ~damaged' PROVE ServingInv'
<1>1. /\ pc = "adddiff" /\ pc' = "updlimiter"
      /\ UNCHANGED <<limits, ctl, newUsers>>
  BY DEF AddDiffUsers, locals
<1>2. ~damaged
  BY DEF AddDiffUsers, AllAdded, SomeAdded, CoreFault, book
<1>3. AllRunning /\ Accepted = Common /\ Limited(Common) /\ UniqueIds(newUsers)
  BY <1>1, <1>2 DEF Invariant, ServingInv, Typed, ControlInv, RosterInv
<1>4. AllRunning' /\ Accepted' = newUsers
  <2>1. CASE Added = {} /\ UNCHANGED core
    BY <1>1, <1>3, <2>1, AddedIsNew, AllRunningKept, AcceptedKept DEF core, ctl
  <2>2. CASE AllAdded(Added) \/ SomeAdded(Added)
    BY <1>1, <1>3, <2>2, AddedIsNew, NewUsersAllAdded, AllAddedService
  <2> QED BY <2>1, <2>2 DEF AddDiffUsers
<1>5. Limited(Common)'
  BY <1>1, <1>3 DEF Limited, Common, limits, ctl
<1> QED BY <1>1, <1>4, <1>5 DEF ServingInv, Resting

LEMMA UpdateInboundLimiterService ==
  ASSUME Invariant, UpdateInboundLimiter, ~damaged' PROVE ServingInv'
<1>1. /\ pc = "updlimiter" /\ pc' = "idle" /\ ~damaged /\ ServingInv /\ userList' = newUsers
      /\ UNCHANGED <<core, limiter, nodeLimit, nodeInfo, tag>>
  BY DEF UpdateInboundLimiter, GoIdle, book, Invariant
<1>2. AllRunning /\ Accepted = newUsers /\ Limited(Common)
  BY <1>1 DEF ServingInv
<1>3. UniqueIds(newUsers) /\ tag \in Tags /\ LimitsOK
  BY <1>1, TagTyped DEF Invariant, Typed, TypeOK, ControlInv, RosterInv
<1>4. userLimits'[tag] = newUsers
  BY <1>2, <1>3, AddedIsNew DEF UpdateInboundLimiter, LimitsOK, Limited
<1>5. Limited(userList)'
  BY <1>1, <1>2, <1>4 DEF Limited
<1>6. AllRunning' /\ Accepted' = newUsers
  BY <1>1, <1>2, AllRunningKept, AcceptedKept DEF core
<1> QED BY <1>1, <1>5, <1>6 DEF ServingInv, Serving, Resting

LEMMA IdleStepService ==
  ASSUME Invariant, Publish \/ UNCHANGED vars, ~damaged' PROVE ServingInv'
<1>1. /\ UNCHANGED <<core, limits, ctl, locals, pc, booting>> /\ ~damaged /\ ServingInv
  BY DEF Publish, vars, book, Invariant
<1>2. /\ AllRunning' <=> AllRunning
      /\ \A n \in 1..4 : (Running(n)' <=> Running(n)) /\ (Gone(n)' <=> Gone(n))
      /\ Accepted' = Accepted /\ Common' = Common
  BY <1>1, AllRunningKept, RunningKept, AcceptedKept DEF core, ctl, locals, Common
<1>3. /\ Limited(userList)' <=> Limited(userList)
      /\ Limited(Common)' <=> Limited(Common)
  BY <1>1, <1>2 DEF Limited, limits, ctl
<1>4. Serving' <=> Serving
  BY <1>1, <1>2, <1>3 DEF Serving, ctl
<1>5. Rebuilt' <=> Rebuilt
  BY <1>1, <1>2 DEF Rebuilt, ctl, locals
<1>6. /\ UNCHANGED <<pc, k, nodeInfo, newNode, nodeChanged, usersChanged, reloaded, oldTag>>
      /\ UNCHANGED <<tag, userList, newUsers, limiter, booting>>
  BY <1>1 DEF limits, ctl, locals
<1> QED BY <1>1, <1>2, <1>3, <1>4, <1>5, <1>6 DEF ServingInv, Resting

LEMMA NextService ==
  ASSUME Invariant, [Next]_vars PROVE Invariant'
<1>1. Typed' /\ HandlerInv'
  BY NextTyped, NextHandlers DEF Invariant
<1>2. ASSUME ~damaged' PROVE ServingInv'
  <2>1. CASE Step
    BY <1>2, <2>1, StartFetchNodeService, FetchNodeService, FetchUsersService,
       NodeUnchangedService, SoftUpdateService, BeginReloadService, RemoveOneService,
       AddFailsService, AddOneService, DeleteInboundLimiterService, FetchRulesService,
       AddAllUsersService, AddAllUsersFailsService, AddInboundLimiterService,
       RemoveUsersService, DeleteLimiterUsersService, AddDiffUsersService,
       UpdateInboundLimiterService, RestartService, RemoveFailsNever
    DEF Step, RulesPanic, RemoveFails, book
  <2>2. CASE Crash
    BY <2>2, RestartService DEF Crash
  <2>3. CASE Publish \/ UNCHANGED vars
    BY <1>2, <2>3, IdleStepService
  <2> QED BY <2>1, <2>2, <2>3 DEF Next
<1> QED BY <1>1, <1>2 DEF Invariant

LEMMA ServiceInvariant == Spec => []Invariant
<1>1. Init => Invariant
  BY InitTyped, InitHandlers, InitService DEF Invariant
<1> QED BY <1>1, NextService, PTL DEF Spec

\* Unless a builder, a socket or an account failed, the controller that rests
\* between two runs serves exactly the node and the users it has applied, with
\* their limits, and keeps no limits of another tag.
THEOREM SettledCorrect == Spec => []Settled
<1>1. Invariant => Settled
  <2> SUFFICES ASSUME Invariant, pc = "idle", ~damaged PROVE Settled
    BY DEF Settled
  <2>1. Serving
    BY DEF Invariant, ServingInv, Resting
  <2>2. ASSUME NEW n \in 1..Last(tag)
        PROVE  inbound[<<tag, PartOf(n)>>] = "up" /\ <<tag, PartOf(n)>> \in outbound
    <3>1. Running(1) /\ Running(2) /\ (Last(tag) = 4 => Running(3) /\ Running(4))
      BY <2>1 DEF Serving, AllRunning, Last
    <3>2. n \in {1, 2} \/ (n \in {3, 4} /\ Last(tag) = 4)
      BY DEF Last
    <3> QED BY <3>1, <3>2, HandlerOfCall DEF Running, At
  <2> QED BY <2>1, <2>2 DEF Settled, Serving, Limited, Accepted
<1> QED BY <1>1, ServiceInvariant, PTL

\* Unless one of them failed, xray accepts a user without the panel's limits
\* only between addNewUser and the limiter call that follows it.
THEOREM LimitedCorrect == Spec => []LimitedUnlessAdding
<1>1. Invariant => LimitedUnlessAdding
  <2> SUFFICES ASSUME Invariant, pc \notin {"start", "addlimiter", "updlimiter"}, ~damaged
               PROVE  Accepted \subseteq userLimits[tag]
    BY DEF LimitedUnlessAdding, Accepted
  <2>1. ServingInv /\ StageOK /\ StageInv
    BY DEF Invariant, Typed, TypeOK, ControlInv
  <2>2. Serving \/ Accepted = {} \/ (Accepted \subseteq userList /\ Limited(userList))
        \/ (Accepted = Common /\ (Limited(userList) \/ Limited(Common)))
    BY <2>1 DEF ServingInv, StageOK, StageInv, Shared, Resting, Rebuilt
  <2> QED BY <2>2 DEF Serving, Limited, Common
<1> QED BY <1>1, ServiceInvariant, PTL

\* A pass without a reload does not interrupt a user that both lists name, even
\* if the lists disagree about every other user: hot add and hot remove.
THEOREM KeptUsersKeepService == Spec => KeptUsersStay
<1>1. Typed /\ [Next]_vars =>
        [(/\ pc \in {"removeusers", "dellimusers", "adddiff", "updlimiter"}
          /\ pc' # "start")
            => (userList \cap newUsers \cap accepts[Main] \subseteq accepts'[Main])]_vars
  <2> SUFFICES ASSUME Typed, Next, pc \in {"removeusers", "dellimusers", "adddiff", "updlimiter"},
                      pc' # "start"
               PROVE  Common \cap accepts[Main] \subseteq accepts'[Main]
    BY DEF Common
  <2>1. HandlersOK /\ Main \in Handlers /\ UniqueIds(userList)
    BY TagTyped DEF Typed, TypeOK, ControlInv, RosterInv
  <2>2. CASE UNCHANGED accepts
    BY <2>2
  <2>3. CASE RemoveUsers
    <3>1. PICK gone \in SUBSET {u \in accepts[Main] : u.id \in IdsOf(Deleted)} :
            accepts' = [accepts EXCEPT ![Main] = Without(@, gone)]
      BY <2>3 DEF RemoveUsers
    <3>2. accepts'[Main] = Without(accepts[Main], gone)
      BY <2>1, <3>1 DEF HandlersOK
    <3>3. \A u \in Common : u.id \notin IdsOf(Deleted)
      BY <2>1 DEF Common, UniqueIds, IdsOf, Deleted
    <3> QED BY <3>1, <3>2, <3>3 DEF Without, IdsOf
  <2>4. CASE AllAdded(Added) \/ SomeAdded(Added)
    BY <2>1, <2>2, <2>4 DEF AllAdded, SomeAdded, HandlersOK
  <2>5. \/ Publish \/ RemoveUsers \/ DeleteLimiterUsers \/ AddDiffUsers \/ UpdateInboundLimiter
    BY DEF Next, Crash, Restart, Step, StartFetchNode, FetchNode, FetchUsers, UsersFail,
           UsersNotModified, UsersModified, NodeUnchanged, SoftUpdate, BeginReload, RemoveFails,
           RemoveOne, AddFails, AddOne, DeleteInboundLimiter, RulesPanic, FetchRules,
           AddAllUsers, AddAllUsersFails, AddInboundLimiter
  <2> QED BY <2>2, <2>3, <2>4, <2>5
      DEF Publish, DeleteLimiterUsers, AddDiffUsers, UpdateInboundLimiter, core
<1>2. Spec => []Typed
  BY InitTyped, NextTyped, PTL DEF Spec
<1> QED BY <1>1, <1>2, PTL DEF Spec, KeptUsersStay
-----------------------------------------------------------------------------
(* The ETags of the client: they stand for what the run has in hand, as    *)
(* long as no request for the users is lost and nothing is damaged.        *)

UsersAnswered == "users" \notin Faults /\ ("v2board" \notin Kinds \/ {} \notin PanelUsers)

EtagInvariant == Invariant /\ (~damaged => EtagInv)

\* A request for the users that neither fails nor is answered with a refused
\* list cannot end a run.
LEMMA UsersNeverFail ==
  ASSUME Invariant, UsersAnswered, UsersFail PROVE Restart
<1>1. kind \in Kinds /\ panelUsers \in PanelUsers
  BY DEF Invariant, Typed, TypeOK, PanelOK
<1> QED BY <1>1 DEF UsersAnswered, UsersFail, CanFail, EmptyRefused

LEMMA FetchEtags ==
  ASSUME EtagInvariant, UsersAnswered, ~damaged', ~Restart,
         StartFetchNode \/ FetchNode \/ FetchUsers
  PROVE  EtagInv'
<1>1. StageInv /\ ~damaged /\ EtagInv /\ (HasEtags' <=> HasEtags)
  BY DEF EtagInvariant, Invariant, Typed, ControlInv, StartFetchNode, FetchNode, FetchUsers,
         UsersFail, UsersNotModified, UsersModified, FetchFault, panel, book, HasEtags,
         StartFails, RunFails
<1> SUFFICES ASSUME HasEtags PROVE EtagInv'
  BY <1>1 DEF EtagInv
<1>2. CASE StartFetchNode
  <2>1. pc' = "add" /\ booting' /\ etagNode' = <<panelNode, NodeDoc[2]>> /\ nodeInfo' = panelNode
    BY <1>1, <1>2 DEF StartFetchNode, Kept, NodeDoc, StageInv
  <2> QED BY <2>1 DEF EtagInv, NodeInHand
<1>3. CASE FetchNode
  <2>1. /\ pc = "idle" /\ ~booting /\ ~booting'
        /\ UNCHANGED <<etagUsers, nodeInfo, userList>>
    BY <1>1, <1>3 DEF FetchNode, StageInv, Shared, ctl
  <2>2. etagUsers' = userList'
    BY <1>1, <2>1 DEF EtagInv, UsersInHand, Resting
  <2>3. NodeDoc[1] = panelNode
    BY DEF NodeDoc
  <2>4. /\ pc' \in {"idle", "halted"} => etagNode'[1].tag \in ZeroTags \/ etagNode'[1] = nodeInfo'
        /\ pc' = "users" => etagNode'[1].tag \in ZeroTags \/ etagNode'[1] = newNode'
    BY <1>1, <1>3, <2>1, <2>3 DEF FetchNode, Kept, EtagInv, NodeInHand
  <2>5. pc' \in {"idle", "halted", "users"}
    BY <1>3, <2>1 DEF FetchNode
  <2> QED BY <2>1, <2>2, <2>4, <2>5 DEF EtagInv, NodeInHand, UsersInHand, Resting
<1>4. CASE FetchUsers
  <2>1. /\ pc = "users" /\ UNCHANGED <<etagNode, newNode, nodeInfo, booting>>
        /\ UsersNotModified \/ UsersModified
    BY <1>4, UsersNeverFail DEF FetchUsers, UsersNotModified, UsersModified, client, etags, ctl,
       EtagInvariant
  <2>2. etagNode[1].tag \in ZeroTags \/ etagNode[1] = newNode
    BY <1>1, <2>1 DEF EtagInv, NodeInHand
  <2>3. CASE UsersNotModified
    <3>1. /\ pc' = "decide" /\ newUsers' = userList
          /\ UNCHANGED <<etagUsers, userList>> /\ etagUsers = panelUsers
      BY <2>3 DEF UsersNotModified, client, etags, ctl
    <3>2. ~booting
      BY <1>1, <2>1, <3>1, PublishedList DEF StageInv, EtagInvariant, Invariant, Typed, TypeOK, PanelOK
    <3>3. etagUsers = userList
      BY <1>1, <2>1, <3>2 DEF EtagInv, UsersInHand
    <3> QED BY <2>1, <2>2, <3>1, <3>2, <3>3 DEF EtagInv, NodeInHand, UsersInHand, Resting
  <2>4. CASE UsersModified
    <3>1. etagUsers' = panelUsers /\ newUsers' = panelUsers
      BY <2>4 DEF UsersModified, Kept
    <3>2. CASE booting
      <4>1. pc' = "addusers" /\ userList' = panelUsers
        BY <2>4, <3>2 DEF UsersModified
      <4>2. newNode = nodeInfo
        BY <1>1, <2>1, <3>2 DEF EtagInvariant, Invariant, ServingInv, Rebuilt
      <4> QED BY <2>1, <2>2, <3>1, <3>2, <4>1, <4>2 DEF EtagInv, NodeInHand, UsersInHand
    <3>3. CASE ~booting
      <4>1. pc' = "decide"
        BY <2>4, <3>3 DEF UsersModified
      <4> QED BY <2>1, <2>2, <3>1, <3>3, <4>1 DEF EtagInv, NodeInHand, UsersInHand, Resting
    <3> QED BY <3>2, <3>3
  <2> QED BY <2>1, <2>3, <2>4
<1> QED BY <1>2, <1>3, <1>4

LEMMA ReloadEtags ==
  ASSUME EtagInvariant, ~damaged', ~Restart,
         \/ NodeUnchanged \/ SoftUpdate \/ BeginReload \/ RemoveFails \/ RemoveOne
         \/ AddFails \/ AddOne \/ DeleteInboundLimiter
  PROVE  EtagInv'
<1>1. ~damaged /\ StageInv /\ ServingInv
  BY DEF EtagInvariant, Invariant, Typed, ControlInv, NodeUnchanged, SoftUpdate, BeginReload,
         RemoveFails, RemoveOne, AddFails, Refused, CoreFault, StartFails, AddOne,
         DeleteInboundLimiter, book
<1>2. ~RemoveFails
  BY <1>1, RemoveFailsNever DEF EtagInvariant
<1>3. ~AddFails
  <2> SUFFICES ASSUME AddFails PROVE FALSE
    OBVIOUS
  <2>1. pc = "add" /\ TagTaken(At(k))
    BY DEF AddFails, StartFails, Refused, CoreFault, At
  <2>2. k \in 1..4
    BY DEF EtagInvariant, Invariant, Typed, TypeOK, StageOK
  <2>3. Gone(k)
    BY <1>1, <2>1, <2>2 DEF ServingInv
  <2> QED BY <2>1, <2>3 DEF TagTaken, Gone
<1>4. UNCHANGED <<kind, etagNode, etagUsers, booting, newNode, newUsers, userList>>
  BY <1>2, <1>3 DEF NodeUnchanged, SoftUpdate, BeginReload, RemoveOne, AddOne,
     DeleteInboundLimiter, panel, client, etags, locals, ctl
<1>5. booting => pc = "add"
  BY <1>1, <1>2, <1>3 DEF StageInv, Shared, NodeUnchanged, SoftUpdate, BeginReload, RemoveOne,
     AddOne, DeleteInboundLimiter
<1> SUFFICES ASSUME HasEtags PROVE EtagInv'
  BY <1>4 DEF EtagInv, HasEtags
<1>6. pc \in {"decide", "remove", "add", "dellimiter"} /\ pc' \in {"remove", "add", "dellimiter", "rules", "users"}
      /\ (pc' = "users" => booting) /\ (booting => pc' \in {"add", "users"})
  BY <1>2, <1>3, <1>5 DEF NodeUnchanged, SoftUpdate, BeginReload, RemoveOne, AddOne,
     DeleteInboundLimiter
<1>7. etagNode[1].tag \in ZeroTags \/ etagNode[1] = NodeInHand
  BY <1>1, <1>6 DEF EtagInv, EtagInvariant
<1>8. NodeInHand' = NodeInHand
  <2>1. CASE NodeUnchanged
    <3>1. newNode = nodeInfo
      BY <1>1, <1>5, <2>1 DEF ServingInv, NodeUnchanged
    <3> QED BY <2>1, <3>1 DEF NodeUnchanged, NodeInHand, ctl
  <2>2. CASE SoftUpdate \/ BeginReload
    BY <1>4, <2>2 DEF SoftUpdate, BeginReload, NodeInHand
  <2>3. CASE RemoveOne
    BY <1>4, <2>3 DEF RemoveOne, NodeInHand
  <2>4. CASE AddOne
    <3>1. nodeInfo = newNode
      BY <1>1, <2>4 DEF ServingInv, AddOne
    <3> QED BY <1>4, <2>4, <3>1 DEF AddOne, NodeInHand, ctl
  <2>5. CASE DeleteInboundLimiter
    BY <2>5 DEF DeleteInboundLimiter, NodeInHand, ctl
  <2> QED BY <1>2, <1>3, <2>1, <2>2, <2>3, <2>4, <2>5
<1>9. ~booting => etagUsers = newUsers
  BY <1>1, <1>6 DEF EtagInv, EtagInvariant, UsersInHand, Resting
<1> QED BY <1>4, <1>6, <1>7, <1>8, <1>9 DEF EtagInv, UsersInHand, Resting

LEMMA UserEtags ==
  ASSUME EtagInvariant, ~damaged', ~Restart,
         \/ RulesPanic \/ FetchRules \/ AddAllUsers \/ AddAllUsersFails \/ AddInboundLimiter
         \/ RemoveUsers \/ DeleteLimiterUsers \/ AddDiffUsers \/ UpdateInboundLimiter
  PROVE  EtagInv'
<1>1. ~damaged /\ StageInv /\ ServingInv
  BY DEF EtagInvariant, Invariant, Typed, ControlInv, RulesPanic, FetchRules, AnswerRules,
         FetchFault, AddAllUsers, AddAllUsersFails, StartFails, AllAdded, SomeAdded, CoreFault,
         AddInboundLimiter, RemoveUsers, DeleteLimiterUsers, AddDiffUsers,
         UpdateInboundLimiter, book
<1>2. ~AddAllUsersFails
  <2> SUFFICES ASSUME AddAllUsersFails PROVE FALSE
    OBVIOUS
  <2>1. pc = "addusers" /\ SomeAdded(newUsers)
    BY DEF AddAllUsersFails, StartFails
  <2>2. Clash(newUsers)
    BY <2>1 DEF SomeAdded, CoreFault
  <2>3. AllRunning /\ Accepted = {}
    BY <1>1, <2>1 DEF ServingInv, Rebuilt
  <2> QED BY <2>2, <2>3, MainRuns DEF Clash, Accepted, IdsOf
<1>3. UNCHANGED <<kind, etagNode, etagUsers, nodeInfo>>
  BY <1>2 DEF RulesPanic, FetchRules, AddAllUsers, AddInboundLimiter, RemoveUsers,
     DeleteLimiterUsers, AddDiffUsers, UpdateInboundLimiter, panel, client, etags, ctl
<1> SUFFICES ASSUME HasEtags PROVE EtagInv'
  BY <1>3 DEF EtagInv, HasEtags
<1>4. /\ pc \in {"rules", "addusers", "addlimiter", "removeusers", "dellimusers", "adddiff",
                 "updlimiter"}
      /\ pc' \in {"idle", "rules", "addusers", "addlimiter", "removeusers", "dellimusers",
                  "adddiff", "updlimiter"}
  BY <1>2 DEF RulesPanic, FetchRules, AfterRules, GoIdle, AddAllUsers, AddInboundLimiter,
     RemoveUsers, DeleteLimiterUsers, AddDiffUsers, UpdateInboundLimiter
<1>5. etagNode'[1].tag \in ZeroTags \/ etagNode'[1] = NodeInHand'
  BY <1>1, <1>3, <1>4 DEF EtagInv, EtagInvariant, NodeInHand
<1>6. etagUsers = IF booting THEN userList ELSE newUsers
  BY <1>1, <1>4 DEF EtagInv, EtagInvariant, UsersInHand, Resting
<1>7. \/ UNCHANGED <<booting, userList, newUsers>> /\ pc' # "idle"
      \/ pc' = "idle" /\ ~booting' /\ userList' = IF booting THEN userList ELSE newUsers
  <2>1. CASE FetchRules
    BY <2>1 DEF FetchRules, AfterRules, GoIdle, locals
  <2>2. CASE AddInboundLimiter
    BY <2>2 DEF AddInboundLimiter, GoIdle, locals
  <2>3. CASE UpdateInboundLimiter
    <3>1. ~booting
      BY <1>1, <2>3 DEF StageInv, Shared, UpdateInboundLimiter
    <3> QED BY <2>3, <3>1 DEF UpdateInboundLimiter, GoIdle
  <2>4. CASE AddAllUsers \/ RemoveUsers \/ DeleteLimiterUsers \/ AddDiffUsers
    BY <2>4 DEF AddAllUsers, RemoveUsers, DeleteLimiterUsers, AddDiffUsers, locals, ctl
  <2> QED BY <1>2, <2>1, <2>2, <2>3, <2>4 DEF RulesPanic
<1> QED BY <1>3, <1>4, <1>5, <1>6, <1>7 DEF EtagInv, UsersInHand, Resting

LEMMA NextEtags ==
  ASSUME EtagInvariant, UsersAnswered, [Next]_vars PROVE EtagInvariant'
<1>1. Invariant'
  BY NextService DEF EtagInvariant
<1>2. CASE Restart
  BY <1>1, <1>2 DEF EtagInvariant, EtagInv, Restart
<1>3. CASE Step /\ ~Restart
  BY <1>1, <1>3, FetchEtags, ReloadEtags, UserEtags DEF Step, EtagInvariant
<1>4. CASE Publish \/ UNCHANGED vars
  BY <1>1, <1>4 DEF Publish, vars, panel, client, etags, locals, ctl, book, EtagInvariant, EtagInv,
     HasEtags, NodeInHand, UsersInHand
<1> QED BY <1>2, <1>3, <1>4 DEF Next, Crash

\* If no request for the users fails or is refused, a client never keeps the
\* ETag of a version that was not applied: a 304 means there is nothing to do.
\* What is left out are the lost answers (the run NodeSyncEtag shows one) and a
\* controller damaged by a builder, a socket or an account that failed.
THEOREM EtagsAreApplied ==
  ASSUME UsersAnswered PROVE Spec => [](~damaged => EtagIsApplied)
<1>1. Init => EtagInvariant
  BY InitTyped, InitHandlers, InitService DEF EtagInvariant, Invariant, EtagInv, Init
<1>2. EtagInvariant /\ [Next]_vars => EtagInvariant'
  BY NextEtags
<1>3. EtagInvariant => (~damaged => EtagIsApplied)
  BY DEF EtagInvariant, Invariant, Typed, ControlInv, StageInv, Shared, EtagInv, NodeInHand,
         UsersInHand, Resting, EtagIsApplied
<1> QED BY <1>1, <1>2, <1>3, PTL DEF Spec
=============================================================================
