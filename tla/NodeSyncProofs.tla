--------------------------- MODULE NodeSyncProofs ---------------------------
(***************************************************************************)
(* Proofs, for every value of the constants, that NodeSync is well typed   *)
(* and that a reload leaves no handler behind.                             *)
(***************************************************************************)
EXTENDS NodeSyncInvariant, TLAPS

\* The fields of a published node.
LEMMA PublishedNode ==
  ASSUME NEW n \in PanelNodes
  PROVE  n.tag \in Tags /\ n.shape \in Shapes /\ n.speed \in Speeds /\ n # None
BY PanelAssumption, NoneAssumption DEF Node

\* A published list holds users and names each once.
LEMMA PublishedList ==
  ASSUME NEW us \in PanelUsers
  PROVE  us \in SUBSET User /\ UniqueIds(us) /\ us # None
BY PanelAssumption, NoneAssumption

Typed == TypeOK /\ ControlInv

LEMMA InitTyped == ASSUME Init PROVE Typed
<1>1. PanelOK /\ CtlOK /\ BookOK /\ ClientOK
  BY DEF Init, CtlOK, BookOK, ClientOK
<1>2. LocalsOK
  BY DEF Init, LocalsOK
<1>6. StageOK
  BY DEF Init, StageOK
<1>3. HandlersOK
  BY DEF Init, HandlersOK
<1>4. LimitsOK
  BY DEF Init, LimitsOK
<1>5. ControlInv
  BY DEF Init, ControlInv, StageInv, RosterInv, UniqueIds, Shared, Resting
<1> QED BY <1>1, <1>2, <1>3, <1>4, <1>5, <1>6 DEF Typed, TypeOK

\* A restart is an initial state again, whatever was spent before.
LEMMA RestartTyped ==
  ASSUME TypeOK, Restart, changes' \in Nat, faults' \in Nat, crashes' \in Nat
  PROVE  Typed'
<1>1. PanelOK' /\ CtlOK' /\ BookOK' /\ ClientOK'
  BY DEF TypeOK, Restart, PanelOK, panel, CtlOK, BookOK, ClientOK
<1>2. LocalsOK'
  BY DEF Restart, ClearLocals, LocalsOK
<1>6. StageOK'
  BY DEF Restart, ClearLocals, StageOK
<1>3. HandlersOK'
  BY DEF Restart, HandlersOK
<1>4. LimitsOK'
  BY DEF Restart, LimitsOK
<1>5. ControlInv'
  BY DEF Restart, ClearLocals, ControlInv, StageInv, RosterInv, UniqueIds, Shared, Resting
<1> QED BY <1>1, <1>2, <1>3, <1>4, <1>5, <1>6 DEF Typed, TypeOK

\* Counting a fault, or not, keeps the budgets natural numbers.
LEMMA BudgetTyped ==
  ASSUME TypeOK, Charge \/ Free \/ UNCHANGED book
  PROVE  changes' \in Nat /\ faults' \in Nat /\ crashes' \in Nat
BY DEF TypeOK, BookOK, Charge, Free, book

LEMMA CoreFaultTyped ==
  ASSUME TypeOK, CoreFault \/ UNCHANGED book
  PROVE  BookOK'
<1>1. changes' \in Nat /\ faults' \in Nat /\ crashes' \in Nat
  BY BudgetTyped DEF CoreFault
<1>2. damaged' \in BOOLEAN
  BY DEF TypeOK, BookOK, CoreFault, book
<1> QED BY <1>1, <1>2 DEF BookOK

\* A run that returns leaves a typed idle controller.
LEMMA GoIdleTyped ==
  ASSUME Typed, GoIdle, ~booting, pc # "start", UNCHANGED nodeInfo, UNCHANGED tag,
         userList' \in {userList, newUsers}
  PROVE  StageOK' /\ LocalsOK' /\ CtlOK' /\ ControlInv'
<1>1. LocalsOK'
  BY DEF Typed, TypeOK, GoIdle, ClearLocals, LocalsOK
<1>5. StageOK'
  BY DEF Typed, TypeOK, GoIdle, ClearLocals, StageOK
<1>2. CtlOK'
  BY DEF Typed, TypeOK, CtlOK, LocalsOK
<1>3. StageInv'
  BY DEF Typed, ControlInv, StageInv, GoIdle, ClearLocals, Shared, Resting
<1>4. RosterInv'
  BY DEF Typed, ControlInv, RosterInv, GoIdle, ClearLocals, UniqueIds
<1> QED BY <1>1, <1>2, <1>3, <1>4, <1>5 DEF ControlInv

LEMMA PublishTyped == ASSUME Typed, Publish PROVE Typed'
<1> USE DEF Typed, TypeOK
<1>1. PanelOK'
  BY DEF Publish, PanelOK
<1>2. ClientOK' /\ CtlOK' /\ BookOK'
  BY DEF Publish, ClientOK, CtlOK, BookOK, client, etags, ctl
<1>3. StageOK' /\ LocalsOK' /\ HandlersOK' /\ LimitsOK'
  BY DEF Publish, StageOK, LocalsOK, HandlersOK, LimitsOK, locals, core, limits
<1>4. ControlInv'
  BY DEF Publish, ControlInv, StageInv, RosterInv, ctl, locals, client, etags
<1> QED BY <1>1, <1>2, <1>3, <1>4

LEMMA CrashTyped == ASSUME Typed, Crash PROVE Typed'
<1>1. changes' \in Nat /\ faults' \in Nat /\ crashes' \in Nat
  BY DEF Typed, TypeOK, BookOK, Crash
<1> QED BY <1>1, RestartTyped DEF Typed, Crash

LEMMA StartFetchNodeTyped == ASSUME Typed, StartFetchNode PROVE Typed'
<1>1. CASE Restart /\ (Charge \/ Free)
  BY <1>1, RestartTyped, BudgetTyped DEF Typed
<1>2. CASE ~(Restart /\ (Charge \/ Free))
  <2> USE DEF Typed, TypeOK
  <2>0. panelNode \in PanelNodes /\ panelNode.tag \in Tags /\ NodeDoc \in Doc /\ NodeDoc[2] \in SUBSET Rules
    BY PublishedNode DEF PanelOK, NodeDoc, Doc
  <2>1. PanelOK' /\ BookOK' /\ HandlersOK' /\ LimitsOK'
    BY <1>2 DEF StartFetchNode, PanelOK, panel, BookOK, book, HandlersOK, core, LimitsOK, limits
  <2>2. ClientOK'
    BY <1>2, <2>0 DEF StartFetchNode, ClientOK, Kept
  <2>3. LocalsOK'
    BY <1>2, <2>0 DEF StartFetchNode, LocalsOK
  <2>7. StageOK'
    BY <1>2 DEF StartFetchNode, StageOK
  <2>4. CtlOK'
    BY <1>2, <2>0 DEF StartFetchNode, CtlOK
  <2>5. k = 1 /\ booting /\ ~reloaded /\ etagUsers = None
    BY DEF StartFetchNode, ControlInv, StageInv
  <2>6. ControlInv'
    <3>1. /\ pc' = "add" /\ booting' /\ ~reloaded' /\ k' = 1
          /\ nodeInfo' \in PanelNodes /\ tag' = nodeInfo'.tag /\ newNode' \in PanelNodes
          /\ etagUsers' = None
      <4>1. /\ pc' = "add" /\ k' = k /\ etagUsers' = etagUsers
            /\ nodeInfo' = panelNode /\ tag' = panelNode.tag /\ newNode' = panelNode
        BY <1>2 DEF StartFetchNode
      <4>2. UNCHANGED <<booting, reloaded>>
        BY <1>2 DEF StartFetchNode
      <4> QED BY <4>1, <4>2, <2>0, <2>5
    <3>3. 1 <= Last(tag')
      BY DEF Last
    <3>4. StageInv'
      BY <3>1, <3>3 DEF StageInv, Last, Shared, Resting
    <3>2. RosterInv'
      BY <1>2 DEF StartFetchNode, ControlInv, RosterInv
    <3> QED BY <3>4, <3>2 DEF ControlInv
  <2> QED BY <2>1, <2>2, <2>3, <2>4, <2>6, <2>7
<1> QED BY <1>1, <1>2

LEMMA FetchNodeTyped == ASSUME Typed, FetchNode PROVE Typed'
<1> USE DEF Typed, TypeOK
<1>0. /\ panelNode \in PanelNodes /\ NodeDoc \in Doc /\ NodeDoc[2] \in SUBSET Rules
      /\ nodeInfo \in PanelNodes
  BY PublishedNode DEF PanelOK, NodeDoc, Doc, FetchNode, ControlInv, StageInv
<1>1. PanelOK' /\ HandlersOK' /\ LimitsOK' /\ CtlOK'
  BY DEF FetchNode, PanelOK, panel, HandlersOK, core, LimitsOK, limits, CtlOK, ctl
<1>2. BookOK'
  BY DEF FetchNode, BookOK, book, FetchFault, Charge
<1>3. ClientOK'
  BY <1>0 DEF FetchNode, ClientOK, Kept
<1>4. LocalsOK'
  BY <1>0 DEF FetchNode, LocalsOK
<1>5. StageOK'
  BY DEF FetchNode, StageOK
<1>6. StageInv'
  <2>1. UNCHANGED <<booting, nodeInfo, tag, reloaded>>
    BY DEF FetchNode, ctl
  <2>2. pc' \in Resting \/ (pc' = "users" /\ newNode' \in PanelNodes)
    BY <1>0 DEF FetchNode, Resting
  <2>3. ~booting /\ ~reloaded /\ tag = nodeInfo.tag
    BY DEF FetchNode, ControlInv, StageInv, Shared, Resting
  <2> QED BY <1>0, <2>1, <2>2, <2>3 DEF StageInv, Resting
<1>7. RosterInv'
  BY DEF FetchNode, ControlInv, RosterInv, ctl
<1> QED BY <1>1, <1>2, <1>3, <1>4, <1>5, <1>6, <1>7 DEF ControlInv

LEMMA UsersFailTyped == ASSUME Typed, UsersFail PROVE Typed'
<1>1. CASE StartFails /\ (Charge \/ Free)
  BY <1>1, RestartTyped, BudgetTyped DEF Typed, StartFails
<1>2. CASE ~(StartFails /\ (Charge \/ Free))
  <2>1. /\ RunFails /\ UNCHANGED <<panel, core, limits, ruleOf>>
        /\ etagUsers' \in {etagUsers, panelUsers} /\ UNCHANGED <<etagNode, etagRules, resp>>
        /\ FetchFault \/ UNCHANGED book
    BY <1>2 DEF UsersFail, client, etags, Kept
  <2>2. PanelOK' /\ HandlersOK' /\ LimitsOK'
    BY <2>1 DEF Typed, TypeOK, PanelOK, panel, HandlersOK, core, LimitsOK, limits
  <2>3. ClientOK'
    BY <2>1 DEF Typed, TypeOK, PanelOK, ClientOK
  <2>4. BookOK'
    BY <2>1 DEF Typed, TypeOK, BookOK, book, FetchFault, Charge
  <2>5. StageOK' /\ LocalsOK' /\ CtlOK' /\ ControlInv'
    BY <2>1, GoIdleTyped DEF UsersFail, RunFails, ctl
  <2> QED BY <2>2, <2>3, <2>4, <2>5 DEF Typed, TypeOK
<1> QED BY <1>1, <1>2

LEMMA UsersNotModifiedTyped == ASSUME Typed, UsersNotModified PROVE Typed'
<1> USE DEF Typed, TypeOK
<1>0. /\ pc = "users" /\ pc' = "decide" /\ newUsers' = userList /\ usersChanged' = FALSE
      /\ UNCHANGED <<booting, newNode, nodeChanged, reloaded, nodeInfo, tag, userList>>
      /\ etagUsers \in PanelUsers
  BY DEF UsersNotModified, PanelOK, ctl
<1>1. PanelOK' /\ HandlersOK' /\ LimitsOK' /\ BookOK' /\ CtlOK' /\ ClientOK'
  BY DEF UsersNotModified, PanelOK, panel, HandlersOK, core, LimitsOK, limits, BookOK, book,
         CtlOK, ctl, ClientOK, client, etags
<1>2. LocalsOK'
  BY DEF UsersNotModified, LocalsOK, CtlOK
<1>3. StageOK'
  BY DEF UsersNotModified, StageOK
<1>4. ~booting
  BY <1>0, PublishedList DEF ControlInv, StageInv
<1>5. nodeInfo \in PanelNodes /\ tag = nodeInfo.tag /\ newNode \in PanelNodes /\ ~reloaded
  BY <1>0 DEF ControlInv, StageInv, Resting
<1>6. StageInv'
  BY <1>0, <1>4, <1>5 DEF StageInv, Resting
<1>7. RosterInv'
  BY <1>0 DEF ControlInv, RosterInv
<1> QED BY <1>1, <1>2, <1>3, <1>6, <1>7 DEF ControlInv

LEMMA UsersModifiedTyped == ASSUME Typed, UsersModified PROVE Typed'
<1> USE DEF Typed, TypeOK
<1>0. /\ pc = "users" /\ pc' = (IF booting THEN "addusers" ELSE "decide")
      /\ newUsers' = panelUsers /\ userList' \in {userList, panelUsers}
      /\ UNCHANGED <<booting, newNode, reloaded, nodeInfo, tag>>
  BY DEF UsersModified
<1>1. PanelOK' /\ HandlersOK' /\ LimitsOK' /\ BookOK'
  BY DEF UsersModified, PanelOK, panel, HandlersOK, core, LimitsOK, limits, BookOK, book
<1>2. ClientOK'
  BY DEF UsersModified, PanelOK, ClientOK, Kept
<1>3. CtlOK'
  BY <1>0, PublishedList DEF CtlOK, PanelOK
<1>4. LocalsOK'
  BY PublishedList DEF UsersModified, LocalsOK, PanelOK
<1>5. StageOK'
  BY DEF UsersModified, StageOK
<1>6. nodeInfo \in PanelNodes /\ tag = nodeInfo.tag /\ newNode \in PanelNodes /\ ~reloaded
  BY <1>0 DEF ControlInv, StageInv, Resting
<1>7. StageInv'
  BY <1>0, <1>6 DEF StageInv, Shared, Resting
<1>8. RosterInv'
  BY <1>0, PublishedList DEF ControlInv, RosterInv, PanelOK
<1> QED BY <1>1, <1>2, <1>3, <1>4, <1>5, <1>7, <1>8 DEF ControlInv

LEMMA FetchUsersTyped == ASSUME Typed, FetchUsers PROVE Typed'
BY UsersFailTyped, UsersNotModifiedTyped, UsersModifiedTyped DEF FetchUsers

\* What every call after GetNodeInfo has at hand.
LEMMA TagTyped ==
  ASSUME Typed, pc # "start"
  PROVE  /\ nodeInfo \in PanelNodes /\ tag = nodeInfo.tag /\ tag \in Tags
         /\ \A p \in Part : <<tag, p>> \in Handlers
         /\ Main \in Handlers /\ \A n \in 1..4 : <<tag, PartOf(n)>> \in Handlers
<1>1. nodeInfo \in PanelNodes /\ tag = nodeInfo.tag
  BY DEF Typed, ControlInv, StageInv
<1>2. tag \in Tags
  BY <1>1, PublishedNode
<1> QED BY <1>1, <1>2 DEF Handlers, Part, Main, PartOf

LEMMA LocalTyped ==
  ASSUME Typed, pc \notin {"start"} \cup Resting
  PROVE  newNode \in PanelNodes /\ newNode.tag \in Tags /\ newNode.speed \in Speeds
BY PublishedNode DEF Typed, ControlInv, StageInv

LEMMA NodeUnchangedTyped == ASSUME Typed, NodeUnchanged PROVE Typed'
<1> USE DEF Typed, TypeOK
<1>1. PanelOK' /\ HandlersOK' /\ LimitsOK' /\ BookOK' /\ CtlOK' /\ ClientOK'
  BY DEF NodeUnchanged, PanelOK, panel, HandlersOK, core, LimitsOK, limits, BookOK, book,
         CtlOK, ctl, ClientOK, client, etags
<1>2. LocalsOK' /\ StageOK'
  BY DEF NodeUnchanged, LocalsOK, StageOK, locals
<1>3. StageInv'
  BY DEF NodeUnchanged, ControlInv, StageInv, Shared, Resting, ctl, locals
<1>4. RosterInv'
  BY DEF NodeUnchanged, ControlInv, RosterInv, ctl, locals
<1> QED BY <1>1, <1>2, <1>3, <1>4 DEF ControlInv

LEMMA SoftUpdateTyped == ASSUME Typed, SoftUpdate PROVE Typed'
<1> USE DEF Typed, TypeOK
<1>0. newNode \in PanelNodes /\ newNode.speed \in Speeds /\ newNode.tag = tag
  BY TagTyped, LocalTyped DEF SoftUpdate, requiresInboundReload, Resting
<1>1. PanelOK' /\ HandlersOK' /\ BookOK' /\ ClientOK'
  BY DEF SoftUpdate, PanelOK, panel, HandlersOK, core, BookOK, book, ClientOK, client, etags
<1>2. LocalsOK' /\ StageOK'
  BY DEF SoftUpdate, LocalsOK, StageOK, locals
<1>3. CtlOK'
  BY <1>0 DEF SoftUpdate, CtlOK
<1>4. LimitsOK'
  BY <1>0, TagTyped DEF SoftUpdate, LimitsOK
<1>5. StageInv'
  BY <1>0 DEF SoftUpdate, ControlInv, StageInv, Shared, Resting, locals
<1>6. RosterInv'
  BY DEF SoftUpdate, ControlInv, RosterInv, locals
<1> QED BY <1>1, <1>2, <1>3, <1>4, <1>5, <1>6 DEF ControlInv

LEMMA BeginReloadTyped == ASSUME Typed, BeginReload PROVE Typed'
<1> USE DEF Typed, TypeOK
<1>0. /\ pc = "decide" /\ pc' = "remove" /\ oldTag' = tag /\ k' = 1
      /\ UNCHANGED <<booting, nodeInfo, tag, userList, newNode, newUsers, reloaded>>
  BY DEF BeginReload, ctl
<1>1. PanelOK' /\ HandlersOK' /\ LimitsOK' /\ BookOK' /\ CtlOK' /\ ClientOK'
  BY DEF BeginReload, PanelOK, panel, HandlersOK, core, LimitsOK, limits, BookOK, book,
         CtlOK, ctl, ClientOK, client, etags
<1>2. LocalsOK' /\ StageOK'
  BY DEF BeginReload, LocalsOK, StageOK, CtlOK
<1>3. tag \in Tags /\ newNode \in PanelNodes /\ nodeInfo \in PanelNodes /\ tag = nodeInfo.tag
  BY <1>0, TagTyped, LocalTyped DEF Resting
<1>4. ~booting /\ ~reloaded
  BY <1>0 DEF ControlInv, StageInv, Shared, Resting
<1>5. StageInv'
  BY <1>0, <1>3, <1>4 DEF StageInv, Last, Resting
<1>6. RosterInv'
  BY <1>0 DEF ControlInv, RosterInv
<1> QED BY <1>1, <1>2, <1>5, <1>6 DEF ControlInv

LEMMA RemoveFailsTyped == ASSUME Typed, RemoveFails PROVE Typed'
<1>1. PanelOK' /\ HandlersOK' /\ LimitsOK' /\ BookOK' /\ ClientOK'
  BY DEF Typed, TypeOK, RemoveFails, PanelOK, panel, HandlersOK, core, LimitsOK, limits,
         BookOK, book, ClientOK, client, etags
<1>2. StageOK' /\ LocalsOK' /\ CtlOK' /\ ControlInv'
  BY GoIdleTyped DEF RemoveFails, RunFails, ctl
<1> QED BY <1>1, <1>2 DEF Typed, TypeOK

LEMMA RemoveOneTyped == ASSUME Typed, RemoveOne PROVE Typed'
<1> USE DEF Typed, TypeOK
<1>0. /\ pc = "remove" /\ k \in 1..4 /\ k <= Last(tag) /\ oldTag = tag /\ tag \in Tags
      /\ nodeInfo \in PanelNodes /\ tag = nodeInfo.tag
      /\ newNode \in PanelNodes /\ newNode.tag \in Tags /\ ~booting /\ ~reloaded
      /\ UNCHANGED <<newNode, oldTag, userList, newUsers>> /\ ~booting' /\ ~reloaded'
  <2>1. pc = "remove" /\ UNCHANGED <<booting, newNode, oldTag, reloaded, userList, newUsers>>
    BY DEF RemoveOne
  <2>2. k \in 1..4 /\ k <= Last(tag) /\ oldTag = tag /\ ~booting /\ ~reloaded
    BY <2>1 DEF StageOK, ControlInv, StageInv, Shared
  <2> QED BY <2>1, <2>2, TagTyped, LocalTyped DEF Resting
<1>1. PanelOK' /\ LimitsOK' /\ BookOK' /\ ClientOK'
  BY DEF RemoveOne, PanelOK, panel, LimitsOK, limits, BookOK, book, ClientOK, client, etags
<1>2. LocalsOK'
  BY DEF RemoveOne, LocalsOK
<1>3. CtlOK' /\ StageOK' /\ StageInv'
  <2>1. CASE k < Last(nodeInfo.tag)
    <3>1. k' = k + 1 /\ k' <= Last(tag) /\ k' \in 1..4 /\ UNCHANGED <<pc, nodeInfo, tag>>
      BY <1>0, <2>1 DEF RemoveOne, Last
    <3>2. CtlOK' /\ StageOK'
      BY <1>0, <3>1 DEF CtlOK, StageOK
    <3> QED BY <1>0, <3>1, <3>2 DEF StageInv, Shared, Resting
  <2>2. CASE ~(k < Last(nodeInfo.tag))
    <3>1. /\ k' = 1 /\ k' <= Last(tag') /\ pc' = "add"
          /\ nodeInfo' = newNode /\ tag' = newNode.tag
      BY <2>2 DEF RemoveOne, Last
    <3>2. CtlOK' /\ StageOK'
      BY <1>0, <3>1 DEF CtlOK, StageOK
    <3> QED BY <1>0, <3>1, <3>2 DEF StageInv, Shared, Resting
  <2> QED BY <2>1, <2>2
<1>5. HandlersOK'
  BY <1>0, TagTyped DEF RemoveOne, RemoveHandler, HandlersOK
<1>6. RosterInv'
  BY <1>0 DEF ControlInv, RosterInv
<1> QED BY <1>1, <1>2, <1>3, <1>5, <1>6 DEF ControlInv

\* Registering a handler keeps the managers' type.
LEMMA AddHandlerTyped ==
  ASSUME Typed, pc = "add", NEW state \in {"absent", "dead", "up"},
         AddHandler(<<tag, PartOf(k)>>, state)
  PROVE  HandlersOK'
<1>1. <<tag, PartOf(k)>> \in Handlers
  BY TagTyped DEF Typed, TypeOK, StageOK
<1>2. nodeInfo.shape \in Shapes
  BY TagTyped, PublishedNode
<1> QED BY <1>1, <1>2 DEF Typed, TypeOK, AddHandler, HandlersOK

LEMMA AddFailsTyped == ASSUME Typed, AddFails PROVE Typed'
<1>1. CASE StartFails /\ Charge
  BY <1>1, RestartTyped, BudgetTyped DEF Typed, StartFails
<1>2. CASE ~(StartFails /\ Charge)
  <2>1. /\ pc = "add" /\ RunFails /\ UNCHANGED <<panel, client, limits, ruleOf>>
        /\ UNCHANGED book \/ CoreFault
    BY <1>2 DEF AddFails, Refused
  <2>2. UNCHANGED core \/ AddHandler(<<tag, PartOf(k)>>, "dead")
    BY <1>2 DEF AddFails
  <2>3. PanelOK' /\ LimitsOK' /\ ClientOK'
    BY <2>1 DEF Typed, TypeOK, PanelOK, panel, LimitsOK, limits, ClientOK, client, etags
  <2>4. HandlersOK'
    <3>1. CASE UNCHANGED core
      BY <3>1 DEF Typed, TypeOK, HandlersOK, core
    <3>2. CASE AddHandler(<<tag, PartOf(k)>>, "dead")
      BY <2>1, <3>2, AddHandlerTyped
    <3> QED BY <2>2, <3>1, <3>2
  <2>5. BookOK'
    BY <2>1, CoreFaultTyped DEF Typed
  <2>6. StageOK' /\ LocalsOK' /\ CtlOK' /\ ControlInv'
    BY <2>1, GoIdleTyped DEF RunFails, ctl
  <2> QED BY <2>3, <2>4, <2>5, <2>6 DEF Typed, TypeOK
<1> QED BY <1>1, <1>2

LEMMA AddOneTyped == ASSUME Typed, AddOne PROVE Typed'
<1> USE DEF Typed, TypeOK
<1>0. /\ pc = "add" /\ k \in 1..4 /\ tag \in Tags
      /\ nodeInfo \in PanelNodes /\ tag = nodeInfo.tag
      /\ newNode \in PanelNodes /\ ~reloaded
      /\ booting => etagUsers = None
      /\ ~booting => oldTag \in Tags
      /\ UNCHANGED <<booting, newNode, oldTag, reloaded, userList, newUsers, etagUsers,
                     nodeInfo, tag>>
  <2>1. pc = "add" /\ UNCHANGED <<booting, newNode, oldTag, reloaded, userList, newUsers,
                                  etagUsers, nodeInfo, tag>>
    BY DEF AddOne, ctl, client, etags
  <2>2. k \in 1..4 /\ ~reloaded /\ (booting => etagUsers = None) /\ (~booting => oldTag \in Tags)
    BY <2>1 DEF StageOK, ControlInv, StageInv
  <2> QED BY <2>1, <2>2, TagTyped, LocalTyped DEF Resting
<1>1. PanelOK' /\ LimitsOK' /\ BookOK' /\ ClientOK' /\ CtlOK'
  BY DEF AddOne, PanelOK, panel, LimitsOK, limits, BookOK, book, ClientOK, client, etags,
         CtlOK, ctl
<1>2. LocalsOK'
  BY DEF AddOne, LocalsOK
<1>3. StageOK' /\ StageInv'
  <2>1. CASE k < Last(nodeInfo.tag)
    <3>1. k' = k + 1 /\ k' <= Last(tag) /\ k' \in 1..4 /\ UNCHANGED pc
      BY <1>0, <2>1 DEF AddOne, Last
    <3> QED BY <1>0, <3>1 DEF StageInv, StageOK, Shared, Resting
  <2>2. CASE ~(k < Last(nodeInfo.tag))
    <3>1. k' = k /\ pc' = IF booting THEN "users" ELSE "dellimiter"
      BY <2>2 DEF AddOne
    <3> QED BY <1>0, <3>1 DEF StageInv, StageOK, Shared, Resting
  <2> QED BY <2>1, <2>2
<1>4. HandlersOK'
  BY <1>0, AddHandlerTyped DEF AddOne
<1>5. RosterInv'
  BY <1>0 DEF ControlInv, RosterInv
<1> QED BY <1>1, <1>2, <1>3, <1>4, <1>5 DEF ControlInv

LEMMA DeleteInboundLimiterTyped == ASSUME Typed, DeleteInboundLimiter PROVE Typed'
<1> USE DEF Typed, TypeOK
<1>0. /\ pc = "dellimiter" /\ pc' = "rules" /\ ~booting /\ oldTag \in Tags
      /\ nodeInfo \in PanelNodes /\ tag = nodeInfo.tag /\ newNode \in PanelNodes
      /\ UNCHANGED <<booting, nodeInfo, tag, newNode, userList, newUsers>>
  <2>1. pc = "dellimiter" /\ pc' = "rules"
        /\ UNCHANGED <<booting, nodeInfo, tag, newNode, userList, newUsers>>
    BY DEF DeleteInboundLimiter, ctl
  <2>2. ~booting /\ oldTag \in Tags
    BY <2>1 DEF ControlInv, StageInv, Shared
  <2> QED BY <2>1, <2>2, TagTyped, LocalTyped DEF Resting
<1>1. PanelOK' /\ HandlersOK' /\ BookOK' /\ ClientOK' /\ CtlOK'
  BY DEF DeleteInboundLimiter, PanelOK, panel, HandlersOK, core, BookOK, book, ClientOK,
         client, etags, CtlOK, ctl
<1>2. LocalsOK'
  BY DEF DeleteInboundLimiter, LocalsOK
<1>3. StageOK'
  BY DEF DeleteInboundLimiter, StageOK
<1>4. LimitsOK'
  BY <1>0 DEF DeleteInboundLimiter, LimitsOK
<1>5. StageInv'
  BY <1>0 DEF StageInv, Shared, Resting
<1>6. RosterInv'
  BY <1>0 DEF ControlInv, RosterInv
<1> QED BY <1>1, <1>2, <1>3, <1>4, <1>5, <1>6 DEF ControlInv

LEMMA RulesPanicTyped == ASSUME Typed, RulesPanic PROVE Typed'
BY RestartTyped, BudgetTyped DEF RulesPanic, Typed

LEMMA FetchRulesTyped == ASSUME Typed, FetchRules PROVE Typed'
<1> USE DEF Typed, TypeOK
<1>0. /\ pc = "rules" /\ tag \in Tags /\ nodeInfo \in PanelNodes /\ tag = nodeInfo.tag
      /\ newNode \in PanelNodes /\ UNCHANGED <<nodeInfo, tag, etagUsers>>
      /\ UNCHANGED panel /\ ~ConfigLost
  BY TagTyped, LocalTyped DEF FetchRules, Resting
<1>1. PanelOK' /\ HandlersOK'
  BY DEF FetchRules, PanelOK, panel, HandlersOK, core
<1>2. ClientOK'
  BY DEF FetchRules, AnswerRules, PanelOK, ClientOK, Kept
<1>3. LimitsOK'
  <2>1. ApplyRules(panelRules) \/ (RulesInNode /\ ApplyRules(resp)) \/ UNCHANGED ruleOf
    BY DEF FetchRules, AnswerRules
  <2>2. RulesInNode => resp \in SUBSET Rules
    BY <1>0 DEF ConfigLost, ClientOK
  <2>3. ruleOf' \in [Tags -> SUBSET Rules]
    BY <1>0, <2>1, <2>2 DEF ApplyRules, LimitsOK, PanelOK
  <2> QED BY <2>3 DEF FetchRules, LimitsOK, limits
<1>4. BookOK'
  BY DEF FetchRules, AnswerRules, BookOK, book, FetchFault, Charge
<1>5. StageOK' /\ LocalsOK' /\ CtlOK' /\ ControlInv'
  <2>1. CASE pc' = "idle"
    <3>1. booting' = FALSE /\ ClearLocals /\ userList' \in {userList, newUsers}
      BY <2>1, <1>0 DEF FetchRules, AfterRules, GoIdle, ControlInv, StageInv
    <3>2. StageOK'
      BY <2>1, <3>1 DEF StageOK, ClearLocals
    <3>3. LocalsOK'
      BY <3>1 DEF LocalsOK, ClearLocals
    <3>4. CtlOK'
      BY <1>0, <3>1 DEF CtlOK, LocalsOK
    <3>5. StageInv'
      BY <1>0, <2>1, <3>1 DEF StageInv, ClearLocals, Resting
    <3>6. RosterInv'
      BY <3>1 DEF ControlInv, RosterInv, ClearLocals, UniqueIds
    <3> QED BY <3>2, <3>3, <3>4, <3>5, <3>6 DEF ControlInv
  <2>2. CASE pc' # "idle"
    <3>1. /\ pc' \in {"addusers", "removeusers"} /\ ~booting
          /\ UNCHANGED <<booting, locals, userList>>
      BY <2>2 DEF FetchRules, AfterRules, GoIdle
    <3>2. StageOK' /\ LocalsOK' /\ CtlOK'
      BY <1>0, <3>1 DEF StageOK, LocalsOK, CtlOK, locals
    <3>3. StageInv'
      BY <1>0, <3>1 DEF StageInv, Shared, Resting, locals
    <3>4. RosterInv'
      BY <3>1 DEF ControlInv, RosterInv, locals
    <3> QED BY <3>2, <3>3, <3>4 DEF ControlInv
  <2> QED BY <2>1, <2>2
<1> QED BY <1>1, <1>2, <1>3, <1>4, <1>5

\* Adding users keeps the managers' type, and every fault is counted.
LEMMA UsersAddedTyped ==
  ASSUME Typed, pc # "start", NEW us \in SUBSET User, AllAdded(us) \/ SomeAdded(us)
  PROVE  HandlersOK' /\ BookOK'
<1>1. UNCHANGED <<inbound, shapeOf, outbound>> /\ (CoreFault \/ UNCHANGED book)
  BY DEF AllAdded, SomeAdded
<1>2. \/ UNCHANGED accepts
      \/ \E got \in SUBSET us : accepts' = [accepts EXCEPT ![Main] = @ \cup got]
  BY DEF AllAdded, SomeAdded, Without
<1>3. Main \in Handlers
  BY TagTyped
<1> QED BY <1>1, <1>2, <1>3, CoreFaultTyped DEF Typed, TypeOK, HandlersOK

LEMMA AddAllUsersTyped == ASSUME Typed, AddAllUsers PROVE Typed'
<1> USE DEF Typed, TypeOK
<1>0. /\ pc = "addusers" /\ pc' = "addlimiter" /\ newUsers \in SUBSET User
      /\ UNCHANGED <<booting, locals, ctl>>
  BY DEF AddAllUsers, LocalsOK
<1>1. PanelOK' /\ LimitsOK' /\ ClientOK' /\ CtlOK'
  BY DEF AddAllUsers, PanelOK, panel, LimitsOK, limits, ClientOK, client, etags, CtlOK, ctl
<1>2. StageOK' /\ LocalsOK'
  BY DEF AddAllUsers, StageOK, LocalsOK, locals
<1>3. HandlersOK' /\ BookOK'
  BY <1>0, UsersAddedTyped DEF AddAllUsers
<1>4. nodeInfo \in PanelNodes /\ tag = nodeInfo.tag /\ newNode \in PanelNodes
  BY <1>0, TagTyped, LocalTyped DEF Resting
<1>5. StageInv'
  BY <1>0, <1>4 DEF StageInv, Shared, Resting, locals, ctl
<1>6. RosterInv'
  BY <1>0 DEF ControlInv, RosterInv, locals, ctl
<1> QED BY <1>1, <1>2, <1>3, <1>5, <1>6 DEF ControlInv

LEMMA AddAllUsersFailsTyped == ASSUME Typed, AddAllUsersFails PROVE Typed'
<1>1. CASE StartFails /\ Charge
  BY <1>1, RestartTyped, BudgetTyped DEF Typed, StartFails
<1>2. CASE ~(StartFails /\ Charge)
  <2>1. /\ pc = "addusers" /\ RunFails /\ UNCHANGED <<panel, client, limits, ruleOf>>
        /\ SomeAdded(newUsers)
    BY <1>2 DEF AddAllUsersFails
  <2>2. PanelOK' /\ LimitsOK' /\ ClientOK'
    BY <2>1 DEF Typed, TypeOK, PanelOK, panel, LimitsOK, limits, ClientOK, client, etags
  <2>3. HandlersOK' /\ BookOK'
    BY <2>1, UsersAddedTyped DEF Typed, TypeOK, LocalsOK
  <2>4. StageOK' /\ LocalsOK' /\ CtlOK' /\ ControlInv'
    BY <2>1, GoIdleTyped DEF RunFails, ctl
  <2> QED BY <2>2, <2>3, <2>4 DEF Typed, TypeOK
<1> QED BY <1>1, <1>2

LEMMA AddInboundLimiterTyped == ASSUME Typed, AddInboundLimiter PROVE Typed'
<1> USE DEF Typed, TypeOK
<1>0. /\ pc = "addlimiter" /\ UNCHANGED <<nodeInfo, tag>> /\ newUsers \in SUBSET User
      /\ tag \in Tags /\ newNode.speed \in Speeds
      /\ nodeInfo \in PanelNodes /\ tag = nodeInfo.tag /\ newNode \in PanelNodes
  <2>1. pc = "addlimiter" /\ UNCHANGED <<nodeInfo, tag>>
    BY DEF AddInboundLimiter
  <2> QED BY <2>1, TagTyped, LocalTyped DEF LocalsOK, Resting
<1>1. PanelOK' /\ HandlersOK' /\ BookOK' /\ ClientOK'
  BY DEF AddInboundLimiter, PanelOK, panel, HandlersOK, core, BookOK, book, ClientOK, client,
         etags
<1>2. LimitsOK'
  BY <1>0 DEF AddInboundLimiter, LimitsOK
<1>3. StageOK' /\ LocalsOK' /\ CtlOK' /\ ControlInv'
  <2>1. CASE booting
    <3>1. pc' = "rules" /\ UNCHANGED <<booting, locals, userList>>
      BY <2>1 DEF AddInboundLimiter
    <3>2. StageOK' /\ LocalsOK' /\ CtlOK'
      BY <1>0, <3>1 DEF StageOK, LocalsOK, CtlOK, locals
    <3>3. StageInv'
      BY <1>0, <3>1 DEF StageInv, Shared, Resting, locals
    <3>4. RosterInv'
      BY <3>1 DEF ControlInv, RosterInv, locals
    <3> QED BY <3>2, <3>3, <3>4 DEF ControlInv
  <2>2. CASE ~booting
    BY <2>2, <1>0, GoIdleTyped DEF AddInboundLimiter
  <2> QED BY <2>1, <2>2
<1> QED BY <1>1, <1>2, <1>3

\* The steps of a pass that does not reload: only their place in the pass,
\* the users xray knows or the limits change.
LEMMA DiffStepTyped ==
  ASSUME Typed, pc \in {"removeusers", "dellimusers", "adddiff"},
         pc' \in {"dellimusers", "adddiff", "updlimiter"},
         UNCHANGED <<panel, client, booting, locals, ctl>>
  PROVE  PanelOK' /\ ClientOK' /\ StageOK' /\ LocalsOK' /\ CtlOK' /\ ControlInv'
<1> USE DEF Typed, TypeOK
<1>1. PanelOK' /\ ClientOK' /\ CtlOK'
  BY DEF PanelOK, panel, ClientOK, client, etags, CtlOK, ctl
<1>2. StageOK' /\ LocalsOK'
  BY DEF StageOK, LocalsOK, locals
<1>3. nodeInfo \in PanelNodes /\ tag = nodeInfo.tag /\ newNode \in PanelNodes /\ ~booting
  BY TagTyped, LocalTyped DEF Resting, ControlInv, StageInv, Shared
<1>4. StageInv'
  BY <1>3 DEF StageInv, Shared, Resting, locals, ctl
<1>5. RosterInv'
  BY DEF ControlInv, RosterInv, locals, ctl
<1> QED BY <1>1, <1>2, <1>4, <1>5 DEF ControlInv

LEMMA RemoveUsersTyped == ASSUME Typed, RemoveUsers PROVE Typed'
<1>1. /\ PanelOK' /\ ClientOK' /\ StageOK' /\ LocalsOK' /\ CtlOK' /\ ControlInv'
  BY DiffStepTyped DEF RemoveUsers
<1>2. HandlersOK'
  BY TagTyped DEF Typed, TypeOK, RemoveUsers, HandlersOK, Without
<1>3. LimitsOK' /\ BookOK'
  BY DEF Typed, TypeOK, RemoveUsers, LimitsOK, limits, BookOK, book
<1> QED BY <1>1, <1>2, <1>3 DEF Typed, TypeOK

LEMMA DeleteLimiterUsersTyped == ASSUME Typed, DeleteLimiterUsers PROVE Typed'
<1>1. /\ PanelOK' /\ ClientOK' /\ StageOK' /\ LocalsOK' /\ CtlOK' /\ ControlInv'
  BY DiffStepTyped DEF DeleteLimiterUsers
<1>2. LimitsOK'
  BY TagTyped DEF Typed, TypeOK, DeleteLimiterUsers, LimitsOK, Without
<1>3. HandlersOK' /\ BookOK'
  BY DEF Typed, TypeOK, DeleteLimiterUsers, HandlersOK, core, BookOK, book
<1> QED BY <1>1, <1>2, <1>3 DEF Typed, TypeOK

LEMMA AddDiffUsersTyped == ASSUME Typed, AddDiffUsers PROVE Typed'
<1>1. /\ PanelOK' /\ ClientOK' /\ StageOK' /\ LocalsOK' /\ CtlOK' /\ ControlInv'
  BY DiffStepTyped DEF AddDiffUsers
<1>2. Added \in SUBSET User
  BY DEF Typed, TypeOK, LocalsOK, Added
<1>3. HandlersOK' /\ BookOK'
  <2>1. CASE AllAdded(Added) \/ SomeAdded(Added)
    BY <2>1, <1>2, UsersAddedTyped DEF AddDiffUsers
  <2>2. CASE UNCHANGED <<core, book>>
    BY <2>2 DEF Typed, TypeOK, HandlersOK, core, BookOK, book
  <2> QED BY <2>1, <2>2 DEF AddDiffUsers
<1>4. LimitsOK'
  BY DEF Typed, TypeOK, AddDiffUsers, LimitsOK, limits
<1> QED BY <1>1, <1>3, <1>4 DEF Typed, TypeOK

LEMMA UpdateInboundLimiterTyped == ASSUME Typed, UpdateInboundLimiter PROVE Typed'
<1> USE DEF Typed, TypeOK
<1>1. PanelOK' /\ HandlersOK' /\ BookOK' /\ ClientOK'
  BY DEF UpdateInboundLimiter, PanelOK, panel, HandlersOK, core, BookOK, book, ClientOK,
         client, etags
<1>2. LimitsOK'
  BY TagTyped DEF UpdateInboundLimiter, LimitsOK, LocalsOK, Without, Added
<1>3. ~booting
  BY DEF UpdateInboundLimiter, ControlInv, StageInv, Shared
<1>4. StageOK' /\ LocalsOK' /\ CtlOK' /\ ControlInv'
  BY <1>3, GoIdleTyped DEF UpdateInboundLimiter
<1> QED BY <1>1, <1>2, <1>4

LEMMA StepTyped == ASSUME Typed, Step PROVE Typed'
BY StartFetchNodeTyped, FetchNodeTyped, FetchUsersTyped, NodeUnchangedTyped, SoftUpdateTyped,
   BeginReloadTyped, RemoveFailsTyped, RemoveOneTyped, AddFailsTyped, AddOneTyped,
   DeleteInboundLimiterTyped, RulesPanicTyped, FetchRulesTyped, AddAllUsersTyped,
   AddAllUsersFailsTyped, AddInboundLimiterTyped, RemoveUsersTyped, DeleteLimiterUsersTyped,
   AddDiffUsersTyped, UpdateInboundLimiterTyped DEF Step

LEMMA StutterTyped == ASSUME Typed, UNCHANGED vars PROVE Typed'
<1> USE DEF Typed, TypeOK
<1>0. UNCHANGED <<panel, client, pc, booting, locals, ctl, core, limits, ruleOf, book>>
  BY DEF vars
<1>1. PanelOK' /\ ClientOK' /\ CtlOK' /\ BookOK'
  BY <1>0 DEF PanelOK, panel, ClientOK, client, etags, CtlOK, ctl, BookOK, book
<1>2. StageOK' /\ LocalsOK' /\ HandlersOK' /\ LimitsOK'
  BY <1>0 DEF StageOK, LocalsOK, locals, HandlersOK, core, LimitsOK, limits
<1>3. ControlInv'
  BY <1>0 DEF ControlInv, StageInv, RosterInv, client, etags, ctl, locals
<1> QED BY <1>1, <1>2, <1>3

LEMMA NextTyped == ASSUME Typed, [Next]_vars PROVE Typed'
BY StepTyped, PublishTyped, CrashTyped, StutterTyped DEF Next

\* Every state the controller reaches is well typed, and its locals and tag are
\* set where its calls use them: nodeInfoMonitor never acts on a nil node.
THEOREM TypeCorrect == Spec => []TypeOK
<1>1. Spec => []Typed
  BY InitTyped, NextTyped, PTL DEF Spec
<1>2. Typed => TypeOK
  BY DEF Typed
<1> QED BY <1>1, <1>2, PTL
-----------------------------------------------------------------------------
(* Handlers: nothing is left behind by a reload, every listener has the    *)
(* transport of c.nodeInfo, and none is torn down without need.            *)

\* The handlers are the calls of removeOldTag and addNewTag.
LEMMA HandlerOfCall ==
  /\ PartOf(1) = "main" /\ PartOf(2) = "main" /\ PartOf(3) = "door" /\ PartOf(4) = "door"
  /\ IsInbound(1) /\ ~IsInbound(2) /\ IsInbound(3) /\ ~IsInbound(4)
BY DEF PartOf, IsInbound

\* A step that leaves the managers and c.Tag alone, and keeps the transport of
\* c.nodeInfo, disturbs no handler.
LEMMA HandlersKept ==
  ASSUME HandlerInv, UNCHANGED <<inbound, shapeOf, accepts, outbound, tag>>,
         nodeInfo'.shape = nodeInfo.shape, pc' \notin {"start", "remove"}
  PROVE  HandlerInv'
<1>1. NoStrayHandler'
  BY DEF HandlerInv, NoStrayHandler
<1>2. InboundHasShape'
  BY DEF HandlerInv, InboundHasShape
<1> QED BY <1>1, <1>2 DEF HandlerInv

\* Users come and go on a registered inbound only.
LEMMA HandlersKeptUsers ==
  ASSUME HandlerInv, UNCHANGED <<inbound, shapeOf, outbound, tag, nodeInfo>>,
         pc' \notin {"start", "remove"},
         \A h \in Handlers : inbound[h] = "absent" => accepts'[h] = {}
  PROVE  HandlerInv'
<1>1. NoStrayHandler'
  BY DEF HandlerInv, NoStrayHandler
<1>2. InboundHasShape'
  BY DEF HandlerInv, InboundHasShape
<1> QED BY <1>1, <1>2 DEF HandlerInv

\* With every handler gone the invariant holds whatever the tag.
LEMMA NothingLeft ==
  ASSUME \A h \in Handlers : inbound'[h] = "absent" /\ h \notin outbound' /\ accepts'[h] = {},
         pc' # "remove"
  PROVE  HandlerInv'
BY DEF HandlerInv, NoStrayHandler, InboundHasShape

LEMMA InitHandlers == ASSUME Init PROVE HandlerInv
BY DEF Init, HandlerInv, NoStrayHandler, InboundHasShape

LEMMA RestartHandlers == ASSUME Restart PROVE HandlerInv'
BY NothingLeft DEF Restart

\* removeOldTag has removed all it could find once its last call returned.
LEMMA AllRemoved ==
  ASSUME Typed, pc = "remove", HandlerInv, RemoveOne, k = Last(nodeInfo.tag),
         NEW h \in Handlers
  PROVE  inbound'[h] = "absent" /\ h \notin outbound'
<1>1. tag = nodeInfo.tag /\ k \in 1..4 /\ At(k) \in Handlers
  BY TagTyped DEF Typed, TypeOK, StageOK, At
<1>2. RemoveHandler(At(k)) /\ HandlersOK
  BY DEF RemoveOne, At, Typed, TypeOK
<1>3. \A n \in 1..4 : n < k => Gone(n)
  BY DEF HandlerInv
<1>4. (inbound[h] = "absent" => inbound'[h] = "absent") /\ outbound' \subseteq outbound
  BY <1>1, <1>2 DEF RemoveHandler, HandlersOK
<1>5. IF IsInbound(k) THEN inbound'[At(k)] = "absent" ELSE At(k) \notin outbound'
  BY <1>1, <1>2 DEF RemoveHandler, HandlersOK
<1>6. h = <<h[1], h[2]>> /\ h[2] \in {"main", "door"}
  BY DEF Handlers, Part
<1>7. CASE h[1] # tag
  BY <1>4, <1>7 DEF HandlerInv, NoStrayHandler
<1>8. CASE h[1] = tag /\ h[2] = "door" /\ tag \notin PluginTags
  BY <1>4, <1>8 DEF HandlerInv, NoStrayHandler
<1>9. CASE h[1] = tag /\ h[2] = "main"
  <2>1. h = At(1) /\ h = At(2) /\ k \in {2, 4}
    BY <1>1, <1>6, <1>9, HandlerOfCall DEF At, Last
  <2>2. inbound[h] = "absent"
    BY <1>3, <2>1, HandlerOfCall DEF Gone
  <2>3. h \notin outbound'
    <3>1. CASE k = 2
      BY <1>5, <2>1, <3>1, HandlerOfCall
    <3>2. CASE k = 4
      BY <1>3, <1>4, <2>1, <3>2, HandlerOfCall DEF Gone
    <3> QED BY <2>1, <3>1, <3>2
  <2> QED BY <1>4, <2>2, <2>3
<1>10. CASE h[1] = tag /\ h[2] = "door" /\ tag \in PluginTags
  <2>1. h = At(3) /\ h = At(4) /\ k = 4
    BY <1>1, <1>6, <1>10, HandlerOfCall DEF At, Last
  <2>2. inbound[h] = "absent"
    BY <1>3, <2>1, HandlerOfCall DEF Gone
  <2>3. h \notin outbound'
    BY <1>5, <2>1, HandlerOfCall
  <2> QED BY <1>4, <2>2, <2>3
<1> QED BY <1>6, <1>7, <1>8, <1>9, <1>10

LEMMA RemoveOneHandlers ==
  ASSUME Typed, HandlerInv, RemoveOne PROVE HandlerInv'
<1>0. /\ pc = "remove" /\ k \in 1..4 /\ tag = nodeInfo.tag /\ At(k) \in Handlers
      /\ RemoveHandler(At(k)) /\ HandlersOK
  BY TagTyped DEF RemoveOne, At, Typed, TypeOK, StageOK
<1>1. \A h \in Handlers :
        /\ inbound[h] = "absent" => inbound'[h] = "absent"
        /\ inbound'[h] # "absent" => inbound[h] # "absent" /\ shapeOf'[h] = shapeOf[h]
        /\ inbound'[h] = "absent" => accepts'[h] = {}
  BY <1>0 DEF RemoveHandler, HandlersOK, HandlerInv
<1>2. outbound' \subseteq outbound
  BY <1>0 DEF RemoveHandler
<1>3. CASE k = Last(nodeInfo.tag)
  <2>1. pc' # "remove"
    BY <1>3 DEF RemoveOne, Last
  <2> QED BY <1>0, <1>1, <1>3, <2>1, AllRemoved, NothingLeft
<1>4. CASE k # Last(nodeInfo.tag)
  <2>1. k' = k + 1 /\ UNCHANGED <<pc, nodeInfo, tag, newNode>>
    BY <1>4 DEF RemoveOne
  <2>2. NoStrayHandler'
    BY <1>1, <1>2, <2>1 DEF HandlerInv, NoStrayHandler
  <2>3. InboundHasShape'
    BY <1>1, <2>1 DEF HandlerInv, InboundHasShape
  <2>4. ASSUME NEW n \in 1..4, n < k' PROVE Gone(n)'
    <3>1. \A m \in 1..4 : m < k => Gone(m)
      BY <1>0 DEF HandlerInv
    <3>2. At(n) \in Handlers /\ At(n)' = At(n)
      BY <1>0, <2>1, TagTyped DEF At
    <3>3. CASE n < k
      BY <1>1, <1>2, <3>1, <3>2, <3>3 DEF Gone
    <3>4. CASE n = k
      BY <1>0, <3>2, <3>4 DEF Gone, RemoveHandler, HandlersOK
    <3> QED BY <1>0, <2>1, <2>4, <3>3, <3>4
  <2>5. requiresInboundReload(nodeInfo', newNode')
    BY <1>0, <2>1 DEF HandlerInv, requiresInboundReload
  <2> QED BY <1>0, <1>1, <2>1, <2>2, <2>3, <2>4, <2>5 DEF HandlerInv
<1> QED BY <1>3, <1>4

\* addNewTag registers under c.Tag, with a door for a plugin node only.
LEMMA AddHandlerKeeps ==
  ASSUME Typed, HandlerInv, pc = "add", NEW state \in {"dead", "up"},
         AddHandler(At(k), state), UNCHANGED <<tag, nodeInfo>>, pc' \notin {"start", "remove"}
  PROVE  HandlerInv'
<1>0. k \in 1..4 /\ k <= Last(tag) /\ At(k) \in Handlers /\ HandlersOK
  BY TagTyped DEF At, Typed, TypeOK, StageOK, ControlInv, StageInv
<1>1. At(k)[1] = tag /\ (At(k)[2] = "door" => tag \in PluginTags)
  BY <1>0 DEF At, PartOf, Last
<1>2. \A h \in Handlers : h # At(k) =>
        inbound'[h] = inbound[h] /\ shapeOf'[h] = shapeOf[h] /\ accepts'[h] = accepts[h]
  BY <1>0 DEF AddHandler, HandlersOK
<1>3. outbound' \subseteq outbound \cup {At(k)}
  BY DEF AddHandler
<1>4. NoStrayHandler'
  BY <1>0, <1>1, <1>2, <1>3 DEF HandlerInv, NoStrayHandler
<1>5. /\ inbound'[At(k)] # "absent" => shapeOf'[At(k)] = nodeInfo.shape
      /\ inbound'[At(k)] = "absent" => accepts'[At(k)] = {}
  BY <1>0 DEF AddHandler, HandlersOK, HandlerInv, InboundHasShape
<1>6. InboundHasShape'
  BY <1>2, <1>5 DEF HandlerInv, InboundHasShape
<1> QED BY <1>2, <1>4, <1>5, <1>6 DEF HandlerInv

\* AddUser needs a registered inbound.
LEMMA UsersAddedKeeps ==
  ASSUME Typed, HandlerInv, pc # "start", NEW us, AllAdded(us) \/ SomeAdded(us),
         UNCHANGED <<tag, nodeInfo>>, pc' \notin {"start", "remove"}
  PROVE  HandlerInv'
<1>1. UNCHANGED <<inbound, shapeOf, outbound>>
  BY DEF AllAdded, SomeAdded
<1>2. \A h \in Handlers : inbound[h] = "absent" => accepts'[h] = {}
  <2>1. HandlersOK /\ Main \in Handlers
    BY TagTyped DEF Typed, TypeOK
  <2>2. CASE inbound[Main] = "absent"
    BY <2>2 DEF AllAdded, SomeAdded, Clash, HandlerInv
  <2>3. CASE inbound[Main] # "absent"
    BY <2>1, <2>3 DEF AllAdded, SomeAdded, HandlerInv, HandlersOK
  <2> QED BY <2>2, <2>3
<1> QED BY <1>1, <1>2, HandlersKeptUsers

LEMMA StartFetchNodeHandlers ==
  ASSUME Typed, HandlerInv, StartFetchNode PROVE HandlerInv'
<1>1. CASE Restart
  BY <1>1, RestartHandlers
<1>2. CASE ~Restart
  <2>1. UNCHANGED <<inbound, shapeOf, accepts, outbound>> /\ pc = "start" /\ pc' = "add"
    BY <1>2 DEF StartFetchNode, core
  <2> QED BY <2>1, NothingLeft DEF HandlerInv
<1> QED BY <1>1, <1>2

LEMMA PullHandlers ==
  ASSUME Typed, HandlerInv, FetchNode \/ FetchUsers PROVE HandlerInv'
<1>1. CASE Restart
  BY <1>1, RestartHandlers
<1>2. CASE ~Restart
  <2>1. /\ UNCHANGED <<core, nodeInfo, tag>>
        /\ pc' \in {"idle", "halted", "users", "decide", "addusers"}
    BY <1>2 DEF FetchNode, FetchUsers, UsersFail, UsersNotModified, UsersModified,
                StartFails, RunFails, GoIdle, ctl
  <2> QED BY <2>1, HandlersKept DEF core
<1> QED BY <1>1, <1>2

LEMMA NodeChangeHandlers ==
  ASSUME Typed, HandlerInv, NodeUnchanged \/ SoftUpdate \/ BeginReload PROVE HandlerInv'
<1>1. CASE NodeUnchanged
  BY <1>1, HandlersKept DEF NodeUnchanged, core, ctl
<1>2. CASE SoftUpdate
  BY <1>2, HandlersKept DEF SoftUpdate, core, requiresInboundReload
<1>3. CASE BeginReload
  <2>1. /\ pc' = "remove" /\ k' = 1 /\ requiresInboundReload(nodeInfo', newNode')
        /\ UNCHANGED <<inbound, shapeOf, accepts, outbound, tag, nodeInfo>>
    BY <1>3 DEF BeginReload, core, ctl, requiresInboundReload
  <2>2. NoStrayHandler'
    BY <2>1 DEF HandlerInv, NoStrayHandler
  <2>3. InboundHasShape'
    BY <2>1 DEF HandlerInv, InboundHasShape
  <2> QED BY <2>1, <2>2, <2>3 DEF HandlerInv
<1> QED BY <1>1, <1>2, <1>3

LEMMA ReloadHandlers ==
  ASSUME Typed, HandlerInv, RemoveFails \/ AddFails \/ AddOne \/ DeleteInboundLimiter
  PROVE  HandlerInv'
<1>1. CASE RemoveFails \/ DeleteInboundLimiter
  BY <1>1, HandlersKept DEF RemoveFails, RunFails, GoIdle, DeleteInboundLimiter, core, ctl
<1>2. CASE AddFails
  <2>1. CASE Restart
    BY <2>1, RestartHandlers
  <2>2. CASE ~Restart
    <3>1. /\ pc = "add" /\ pc' = "idle" /\ UNCHANGED <<tag, nodeInfo>>
          /\ UNCHANGED core \/ AddHandler(At(k), "dead")
      BY <1>2, <2>2 DEF AddFails, StartFails, RunFails, GoIdle, ctl, At
    <3>2. CASE UNCHANGED core
      BY <3>1, <3>2, HandlersKept DEF core
    <3>3. CASE AddHandler(At(k), "dead")
      BY <3>1, <3>3, AddHandlerKeeps
    <3> QED BY <3>1, <3>2, <3>3
  <2> QED BY <2>1, <2>2
<1>3. CASE AddOne
  <2>1. /\ pc = "add" /\ pc' \in {"add", "users", "dellimiter"} /\ UNCHANGED <<tag, nodeInfo>>
        /\ AddHandler(At(k), "up")
    BY <1>3 DEF AddOne, ctl, At
  <2> QED BY <2>1, AddHandlerKeeps
<1> QED BY <1>1, <1>2, <1>3

LEMMA RulesHandlers ==
  ASSUME Typed, HandlerInv, RulesPanic \/ FetchRules PROVE HandlerInv'
<1>1. CASE RulesPanic
  BY <1>1, RestartHandlers DEF RulesPanic
<1>2. CASE FetchRules
  <2>1. UNCHANGED <<core, nodeInfo, tag>> /\ pc' \in {"idle", "addusers", "removeusers"}
    BY <1>2 DEF FetchRules, AfterRules, GoIdle
  <2> QED BY <2>1, HandlersKept DEF core
<1> QED BY <1>1, <1>2

LEMMA UsersHandlers ==
  ASSUME Typed, HandlerInv,
         \/ AddAllUsers \/ AddAllUsersFails \/ AddInboundLimiter
         \/ RemoveUsers \/ DeleteLimiterUsers \/ AddDiffUsers \/ UpdateInboundLimiter
  PROVE  HandlerInv'
<1>1. CASE AddAllUsers
  BY <1>1, UsersAddedKeeps DEF AddAllUsers, ctl
<1>2. CASE AddAllUsersFails
  <2>1. CASE Restart
    BY <2>1, RestartHandlers
  <2>2. CASE ~Restart
    BY <1>2, <2>2, UsersAddedKeeps DEF AddAllUsersFails, StartFails, RunFails, GoIdle, ctl
  <2> QED BY <2>1, <2>2
<1>3. CASE AddInboundLimiter \/ DeleteLimiterUsers \/ UpdateInboundLimiter
  <2>1. UNCHANGED <<core, nodeInfo, tag>> /\ pc' \in {"rules", "idle", "adddiff"}
    BY <1>3 DEF AddInboundLimiter, DeleteLimiterUsers, UpdateInboundLimiter, GoIdle, ctl
  <2> QED BY <2>1, HandlersKept DEF core
<1>4. CASE RemoveUsers
  <2>1. /\ pc = "removeusers" /\ pc' = "dellimusers"
        /\ UNCHANGED <<inbound, shapeOf, outbound, tag, nodeInfo>>
    BY <1>4 DEF RemoveUsers, ctl
  <2>2. \A h \in Handlers : inbound[h] = "absent" => accepts'[h] = {}
    <3>1. HandlersOK /\ Main \in Handlers
      BY <2>1, TagTyped DEF Typed, TypeOK
    <3>2. PICK gone : accepts' = [accepts EXCEPT ![Main] = Without(@, gone)]
      BY <1>4 DEF RemoveUsers
    <3> QED BY <3>1, <3>2 DEF HandlersOK, HandlerInv, Without
  <2> QED BY <2>1, <2>2, HandlersKeptUsers
<1>5. CASE AddDiffUsers
  <2>1. /\ pc = "adddiff" /\ pc' = "updlimiter" /\ UNCHANGED <<tag, nodeInfo>>
        /\ UNCHANGED core \/ AllAdded(Added) \/ SomeAdded(Added)
    BY <1>5 DEF AddDiffUsers, ctl
  <2> QED BY <2>1, HandlersKept, UsersAddedKeeps DEF core
<1> QED BY <1>1, <1>2, <1>3, <1>4, <1>5

LEMMA NextHandlers ==
  ASSUME Typed, HandlerInv, [Next]_vars PROVE HandlerInv'
<1>1. CASE Step
  BY <1>1, StartFetchNodeHandlers, PullHandlers, NodeChangeHandlers, RemoveOneHandlers,
     ReloadHandlers, RulesHandlers, UsersHandlers DEF Step
<1>2. CASE Crash
  BY <1>2, RestartHandlers DEF Crash
<1>3. CASE Publish \/ UNCHANGED vars
  <2>1. UNCHANGED <<inbound, shapeOf, accepts, outbound, tag, nodeInfo, newNode, pc, k>>
    BY <1>3 DEF Publish, vars, core, ctl, locals
  <2>2. NoStrayHandler'
    BY <2>1 DEF HandlerInv, NoStrayHandler
  <2>3. InboundHasShape'
    BY <2>1 DEF HandlerInv, InboundHasShape
  <2>4. pc' = "remove" => \A n \in 1..4 : n < k' => Gone(n)'
    BY <2>1 DEF HandlerInv, Gone, At
  <2> QED BY <2>1, <2>2, <2>3, <2>4 DEF HandlerInv, requiresInboundReload
<1> QED BY <1>1, <1>2, <1>3 DEF Next

LEMMA HandlersInvariant == Spec => [](Typed /\ HandlerInv)
<1>1. Init => Typed /\ HandlerInv
  BY InitTyped, InitHandlers
<1>2. Typed /\ HandlerInv /\ [Next]_vars => (Typed /\ HandlerInv)'
  BY NextTyped, NextHandlers
<1> QED BY <1>1, <1>2, PTL DEF Spec

\* A reload leaves no listener and no outbound of an earlier configuration
\* behind, whatever fails between removeOldTag and addNewTag.
THEOREM ReloadLeavesNothing == Spec => []NoStrayHandler
BY HandlersInvariant, PTL DEF HandlerInv

\* nodeInfo is never replaced under a listener built for another transport.
THEOREM ListenerMatchesNode == Spec => []InboundHasShape
BY HandlersInvariant, PTL DEF HandlerInv

\* Of all calls only those of removeOldTag take a listener down.
LEMMA OnlyRemoveTearsDown ==
  ASSUME Typed, [Next]_vars, pc' # "start",
         NEW h \in Handlers, inbound[h] = "up", inbound'[h] # "up"
  PROVE  pc = "remove"
<1>1. CASE UNCHANGED inbound
  BY <1>1
<1>2. CASE \E state \in {"dead", "up"} : pc = "add" /\ AddHandler(At(k), state)
  <2>1. PICK state \in {"dead", "up"} : pc = "add" /\ AddHandler(At(k), state)
    BY <1>2
  <2>2. At(k) \in Handlers /\ HandlersOK
    BY <2>1, TagTyped DEF At, Typed, TypeOK, StageOK
  <2>3. inbound'[h] = inbound[h]
    BY <2>1, <2>2 DEF AddHandler, TagTaken, HandlersOK
  <2> QED BY <2>3
<1>3. CASE RemoveOne
  BY <1>3 DEF RemoveOne
<1>4. UNCHANGED vars \/ Publish \/ Step \/ Restart
  BY DEF Next, Crash
<1>5. CASE UNCHANGED vars \/ Publish
  BY <1>1, <1>5 DEF vars, core, Publish
<1>6. CASE Restart
  BY <1>6 DEF Restart
<1>7. CASE Step
  <2>1. ~Restart
    BY DEF Restart
  <2>2. CASE StartFetchNode \/ FetchNode \/ FetchUsers \/ NodeUnchanged \/ SoftUpdate
               \/ BeginReload
    BY <1>1, <2>1, <2>2
    DEF StartFetchNode, FetchNode, FetchUsers, UsersFail, UsersNotModified, UsersModified,
        StartFails, NodeUnchanged, SoftUpdate, BeginReload, core
  <2>3. CASE RemoveFails \/ DeleteInboundLimiter \/ RulesPanic \/ FetchRules
    BY <1>1, <2>1, <2>3 DEF RemoveFails, DeleteInboundLimiter, RulesPanic, FetchRules, core
  <2>4. CASE AddFails
    BY <1>1, <1>2, <2>1, <2>4 DEF AddFails, StartFails, core, At
  <2>5. CASE AddOne
    BY <1>2, <2>5 DEF AddOne, At
  <2>6. CASE AddAllUsers \/ AddAllUsersFails \/ AddDiffUsers
    BY <1>1, <2>1, <2>6
    DEF AddAllUsers, AddAllUsersFails, StartFails, AddDiffUsers, AllAdded, SomeAdded, core
  <2>7. CASE AddInboundLimiter \/ RemoveUsers \/ DeleteLimiterUsers \/ UpdateInboundLimiter
    BY <1>1, <2>7
    DEF AddInboundLimiter, RemoveUsers, DeleteLimiterUsers, UpdateInboundLimiter, core
  <2> QED BY <1>3, <1>7, <2>2, <2>3, <2>4, <2>5, <2>6, <2>7 DEF Step
<1> QED BY <1>4, <1>5, <1>6, <1>7

\* A roster, speed limit or rule change never closes a listener: only a change
\* that requiresInboundReload names, or the end of the process, does.
THEOREM ReloadOnlyIfRequired == Spec => NoNeedlessReload
<1>1. Typed /\ HandlerInv /\ [Next]_vars =>
        [\A h \in Handlers :
           (inbound[h] = "up" /\ inbound'[h] # "up" /\ pc' # "start")
             => (newNode.tag # nodeInfo.tag \/ newNode.shape # nodeInfo.shape)]_vars
  BY OnlyRemoveTearsDown DEF HandlerInv, requiresInboundReload
<1> QED BY <1>1, HandlersInvariant, PTL DEF Spec, NoNeedlessReload
=============================================================================
