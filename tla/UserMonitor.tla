----------------------------- MODULE UserMonitor -----------------------------
(***************************************************************************)
(* The accounting pass of a node (userInfoMonitor in service/controller):  *)
(* it lifts automatic speed limits that are over, reads the traffic        *)
(* counter of every user, limits the users that were too fast, reports the *)
(* traffic, resets the counters it reported and unregisters the counters   *)
(* of idle users. Meanwhile connections register counters and add to them, *)
(* the panel's answer may get lost, and nodeInfoMonitor, in a goroutine of *)
(* its own, replaces the user list and the tag under the pass.             *)
(*                                                                         *)
(* Upload and download are counted, reported and reset alike; the module   *)
(* follows one of the two. A byte stands for any amount of traffic.        *)
(***************************************************************************)
EXTENDS Naturals, FiniteSetsExt

CONSTANTS
  Users,        \* email and uid, which name the counter under a tag
  Vers,         \* everything else in an api.UserInfo
  Tags,         \* the tags a node may have
  Conns,        \* connections
  Fast,         \* AutoSpeedLimitConfig.Limit, as traffic per period
  WarnTimes, LimitDuration,   \* of AutoSpeedLimitConfig, the latter in ticks
  InactiveTTL,  \* in ticks
  DisableUploadTraffic,
  AutoLimit,    \* AutoSpeedLimitConfig.LimitSpeed
  None,         \* no value
  MaxBytes, MaxUpdates, MaxFaults   \* bounds for model checking

Names == Tags \X Users    \* of counters
Copy == Users \X Vers      \* api.UserInfo, the key of limitedUsers and warnedUsers
UserList == [Users -> Vers \cup {None}]

ASSUME LimitAssumption ==
  /\ Fast \in Nat /\ WarnTimes \in Nat /\ LimitDuration \in Nat
  /\ InactiveTTL \in Nat /\ DisableUploadTraffic \in BOOLEAN
ASSUME NoneAssumption ==
  /\ None \notin Nat /\ None \notin Vers /\ None \notin Tags
  /\ AutoLimit \notin Vers /\ AutoLimit # None

VARIABLES
  tag, userList, \* Controller.Tag, Controller.userList
  hasLimiter,    \* the limiter has an entry for the tag
  limiter,       \* UserInfo of the entry: whose limits a user has
  quiet,         \* ticks since the user's LastActive
  counter,       \* xray's stats manager: registered counters and their values
  conns,         \* open connections and what became of the counter each holds
  pc, todo, silent, traffic, idle,   \* the pass
  limitedUsers, warnedUsers,   \* Controller.limitedUsers (time left), warnedUsers
  npc, newList,  \* nodeInfoMonitor
  billed,        \* what the panel has added to the user's account for each counter
  metered,       \* each counter's share of what metrics.Collector has counted
  carried,       \* history: the user's traffic under a tag
  repeated,      \* history: traffic in reports whose answer was lost
  dropped,       \* history: traffic no report will hold
  since, streak, \* history: traffic since the last reading, passes in a row above Fast
  failed,        \* history: some report failed
  leftover,      \* history: so a counter may hold traffic of an earlier period; or
                 \* a reload has brought back an earlier tag, or a list an earlier
                 \* copy of a user with its warnings
  updates, faults   \* budgets spent

ctl == <<tag, userList>>
limits == <<hasLimiter, limiter, quiet>>
pass == <<pc, todo, silent, traffic, idle>>
auto == <<limitedUsers, warnedUsers>>
sync == <<npc, newList>>
panel == <<billed, metered>>
history == <<carried, repeated, dropped, since, streak, failed, leftover>>
budgets == <<updates, faults>>
vars == <<ctl, limits, counter, conns, pass, auto, sync, panel, history, budgets>>

\* A connection that looked for a counter in vain and is about to register one,
\* that adds to a registered counter, to one that was unregistered, to none.
Conn == [user : Users, tag : Tags, st : {"looking", "counted", "orphan", "uncounted"}]
\* A counter in upCounterList: the value reported, and whether it is still registered.
Item == [n : Nat, tag : Tags, live : BOOLEAN]
ASSUME NoneRecordAssumption == None \notin Conn /\ None \notin Item

TypeOK ==
  /\ tag \in Tags /\ userList \in UserList
  /\ hasLimiter \in BOOLEAN /\ limiter \in [Users -> Vers \cup {AutoLimit, None}]
  /\ quiet \in [Users -> 0..InactiveTTL + 1]
  /\ counter \in [Names -> Nat \cup {None}]
  /\ conns \in [Conns -> Conn \cup {None}]
  /\ pc \in {"idle", "collect", "report", "reset", "unregister"}
  /\ todo \in UserList /\ silent \subseteq Users
  /\ traffic \in [Users -> Item \cup {None}]
  /\ idle \subseteq Names
  /\ limitedUsers \in [Copy -> 0..LimitDuration + 1 \cup {None}]
  /\ warnedUsers \in [Copy -> 0..WarnTimes]
  /\ npc \in {"idle", "add", "readd", "list"} /\ newList \in UserList
  /\ billed \in [Names -> Nat] /\ metered \in [Names -> Nat] /\ carried \in [Names -> Nat]
  /\ repeated \in [Names -> Nat] /\ dropped \in [Names -> Nat] /\ since \in [Users -> Nat]
  /\ streak \in [Users -> 0..WarnTimes + 1] /\ failed \in BOOLEAN /\ leftover \in BOOLEAN
  /\ updates \in Nat /\ faults \in Nat

NoUsers == [u \in Users |-> None]
NoBytes == [n \in Names |-> 0]
NoTime == [u \in Users |-> 0]

\* After Start: every user listed and limited by the panel's record.
Init ==
  /\ tag \in Tags
  /\ userList \in UserList /\ userList # NoUsers
  /\ hasLimiter = TRUE /\ limiter = userList /\ quiet = NoTime
  /\ counter = [n \in Names |-> None] /\ conns = [c \in Conns |-> None]
  /\ pc = "idle" /\ todo = NoUsers /\ silent = {} /\ traffic = NoUsers
  /\ idle = {}
  /\ limitedUsers = [x \in Copy |-> None] /\ warnedUsers = [x \in Copy |-> 0]
  /\ npc = "idle" /\ newList = userList
  /\ billed = NoBytes /\ metered = NoBytes /\ carried = NoBytes /\ repeated = NoBytes
  /\ dropped = NoBytes /\ since = NoTime /\ streak = NoTime
  /\ failed = FALSE /\ leftover = FALSE
  /\ updates = 0 /\ faults = 0
-----------------------------------------------------------------------------
Value(n) == IF counter[n] = None THEN 0 ELSE counter[n]
\* The item of a user that was read from the counter n.
ReadFrom(i, n) == i # None /\ i.tag = n[1]
Reported(n) == IF ReadFrom(traffic[n[2]], n) THEN traffic[n[2]].n ELSE 0
Exceeds(n) == n > Fast
\* f with g(n) more for every counter.
Plus(f, g(_)) == [n \in Names |-> f[n] + g(n)]
Minus(v) == IF v \in {None, 0} THEN v ELSE v - 1

\* UnregisterCounter for some names of the tag t: those who hold the counters
\* do not notice.
Unregister(t, us) ==
  LET Gone(r, u) == r # None /\ r.tag = t /\ u \in us
      Lost(n) == IF n[1] = t /\ n[2] \in us THEN Value(n) ELSE 0
  IN /\ counter' = [n \in Names |-> IF n[1] = t /\ n[2] \in us THEN None ELSE counter[n]]
     /\ conns' = [c \in Conns |->
          IF conns[c] # None /\ Gone(conns[c], conns[c].user) /\ conns[c].st = "counted"
            THEN [conns[c] EXCEPT !.st = "orphan"] ELSE conns[c]]
     /\ traffic' = [u \in Users |->
          IF Gone(traffic[u], u) THEN [traffic[u] EXCEPT !.live = FALSE] ELSE traffic[u]]
     /\ dropped' = Plus(dropped, Lost)

Tick ==
  /\ quiet' = [u \in Users |-> IF quiet[u] > InactiveTTL THEN quiet[u] ELSE quiet[u] + 1]
  /\ limitedUsers' = [x \in Copy |-> Minus(limitedUsers[x])]
  /\ UNCHANGED <<ctl, hasLimiter, limiter, counter, conns, pass, warnedUsers, sync, panel,
                 history, budgets>>
-----------------------------------------------------------------------------
(* Connections: getLink of the dispatcher, and SizeStatWriter.             *)

ConnOnly == UNCHANGED <<ctl, hasLimiter, limiter, pass, auto, sync, panel, updates, faults>>

\* The inbound of the node knows the user; while the list is exchanged it may
\* know users of either.
Accepts(u) == newList[u] # None \/ (npc # "readd" /\ userList[u] # None)

\* A new connection of the node's tag, or a stream of an open one that may have
\* outlived a reload or its user's removal, passes the limiter, which notes
\* the user as active, and looks for the counter.
Dispatch(c) ==
  /\ conns[c] = None
  /\ \E u \in Users, t \in Tags :
       /\ \/ t = tag /\ Accepts(u)
          \/ \E d \in Conns : conns[d] # None /\ conns[d].user = u /\ conns[d].tag = t
       /\ conns' = [conns EXCEPT ![c] =
            [user |-> u, tag |-> t, st |-> IF counter[<<t, u>>] = None THEN "looking" ELSE "counted"]]
       /\ quiet' = IF t = tag /\ limiter[u] # None THEN [quiet EXCEPT ![u] = 0] ELSE quiet
  /\ UNCHANGED <<counter, history>> /\ ConnOnly

\* The other half of GetOrRegisterCounter: registering a name that another
\* connection has registered by now fails, and nobody counts this connection.
RegisterCounter(c) ==
  /\ conns[c] # None /\ conns[c].st = "looking"
  /\ LET t == conns[c].tag
         u == conns[c].user
     IN IF counter[<<t, u>>] = None
          THEN /\ counter' = [counter EXCEPT ![<<t, u>>] = 0]
               /\ conns' = [conns EXCEPT ![c].st = "counted"]
          ELSE /\ conns' = [conns EXCEPT ![c].st = "uncounted"] /\ UNCHANGED counter
  /\ UNCHANGED <<quiet, history>> /\ ConnOnly

WriteMultiBuffer(c) ==
  /\ conns[c] # None /\ conns[c].st # "looking"
  /\ LET t == conns[c].tag
         u == conns[c].user
         counted == conns[c].st = "counted"
     IN /\ MapThenSumSet(LAMBDA r : carried[<<r, u>>], Tags) < MaxBytes
        /\ carried' = [carried EXCEPT ![<<t, u>>] = @ + 1]
        /\ since' = [since EXCEPT ![u] = IF Exceeds(@) THEN @ ELSE @ + 1]
        /\ counter' = IF counted THEN [counter EXCEPT ![<<t, u>>] = @ + 1] ELSE counter
        /\ dropped' = IF counted THEN dropped ELSE [dropped EXCEPT ![<<t, u>>] = @ + 1]
  /\ UNCHANGED <<quiet, conns, repeated, streak, failed, leftover>> /\ ConnOnly

Close(c) ==
  /\ conns[c] # None /\ conns[c].st # "looking"
  /\ conns' = [conns EXCEPT ![c] = None]
  /\ UNCHANGED <<counter, quiet, history>> /\ ConnOnly
-----------------------------------------------------------------------------
(* userInfoMonitor.                                                        *)

At(l) == pc = l
Goto(l) == pc' = l
PassOnly == UNCHANGED <<ctl, sync, updates>>

\* UpdateInboundLimiter of the tag: users it does not know are added.
UpdateLimiter(us, limit(_)) ==
  IF hasLimiter
    THEN /\ limiter' = [u \in Users |-> IF u \in us THEN limit(u) ELSE limiter[u]]
         /\ quiet' = [u \in Users |-> IF u \in us /\ limiter[u] = None THEN 0 ELSE quiet[u]]
    ELSE UNCHANGED <<limiter, quiet>>

Over(x) == limitedUsers[x] = 0

\* Faulty variant: only users that are still listed as they were are released.
ReleaseListed(last) ==
  UpdateLimiter({x[1] : x \in {y \in last : userList[y[1]] = y[2]}},
                LAMBDA u : CHOOSE v \in Vers : <<u, v>> \in last)
\* UpdateInboundLimiter with the limits the copies had before.
Release(last) ==
  UpdateLimiter({x[1] : x \in last}, LAMBDA u : CHOOSE v \in Vers : <<u, v>> \in last)

\* The limits that are over are lifted: the user gets those of the copy that
\* was limited. Two copies of one user come in the order of the map.
StartPass ==
  /\ At("idle") /\ Goto("collect") /\ todo' = userList
  /\ \E last \in SUBSET {x \in Copy : Over(x)} :
       /\ \A x \in Copy : Over(x) => \E v \in Vers : <<x[1], v>> \in last
       /\ \A x, y \in last : x[1] = y[1] => x = y
       /\ Release(last)
  /\ limitedUsers' = [x \in Copy |-> IF Over(x) THEN None ELSE limitedUsers[x]]
  /\ UNCHANGED <<hasLimiter, counter, conns, silent, traffic, idle, warnedUsers,
                 panel, history, faults>> /\ PassOnly

\* Faulty variant: the last warning already limits.
PunishesEarly(x, n) ==
  Exceeds(n) /\ limitedUsers[x] = None /\ warnedUsers[x] + 1 >= WarnTimes
Punishes(x, n) ==
  Exceeds(n) /\ limitedUsers[x] = None /\ warnedUsers[x] + 1 > WarnTimes
\* Faulty variant: the warnings of a user that is now limited are kept.
WarningsKept(x, n) ==
  IF ~Exceeds(n) THEN 0
  ELSE IF limitedUsers[x] = None THEN warnedUsers[x] + 1 ELSE warnedUsers[x]
Warnings(x, n) ==
  IF ~Exceeds(n) \/ Punishes(x, n) THEN 0
  ELSE IF limitedUsers[x] = None THEN warnedUsers[x] + 1 ELSE warnedUsers[x]

\* getTraffic of one user, and limitUser.
Collect(u) ==
  /\ At("collect") /\ todo[u] # None /\ todo' = [todo EXCEPT ![u] = None]
  /\ LET n == Value(<<tag, u>>)
         x == <<u, todo[u]>>
     IN /\ traffic' = [traffic EXCEPT ![u] =
             IF n = 0 THEN None ELSE [n |-> n, tag |-> tag, live |-> TRUE]]
        /\ limitedUsers' = IF Punishes(x, n) THEN [limitedUsers EXCEPT ![x] = LimitDuration + 1]
                           ELSE limitedUsers
        /\ silent' = IF Punishes(x, n) THEN silent \cup {u} ELSE silent
        /\ warnedUsers' = [warnedUsers EXCEPT ![x] = Warnings(x, n)]
  /\ since' = [since EXCEPT ![u] = 0]
  /\ streak' = [streak EXCEPT ![u] =
       IF ~Exceeds(since[u]) THEN 0 ELSE IF @ > WarnTimes THEN @ ELSE @ + 1]
  /\ UNCHANGED <<pc, limits, counter, conns, idle, panel, carried, repeated, dropped,
                 failed, leftover, faults>> /\ PassOnly

\* The metrics are told the traffic of the pass.
AddTraffic == metered' = Plus(metered, Reported)

\* The punished users get the automatic limit, metrics are told the traffic,
\* and the report starts, or what was read is simply reset.
EndCollect ==
  /\ At("collect") /\ todo = NoUsers
  /\ UpdateLimiter(silent, LAMBDA u : AutoLimit) /\ silent' = {}
  /\ AddTraffic
  /\ Goto(IF traffic = NoUsers THEN "reset" ELSE IF DisableUploadTraffic THEN "reset" ELSE "report")
  /\ UNCHANGED <<hasLimiter, counter, conns, todo, traffic, idle, auto, billed,
                 history, faults>> /\ PassOnly

ReportOnly ==
  UNCHANGED <<limits, counter, conns, todo, silent, idle, auto, metered, carried, dropped,
              since, streak>> /\ PassOnly

\* Faulty variant: the counters are cleared whatever became of the report.
ClearAnyway ==
  /\ faults < MaxFaults /\ faults' = faults + 1
  /\ Goto("reset") /\ failed' = TRUE /\ leftover' = TRUE /\ UNCHANGED traffic

\* A try of ReportUserTraffic fails. Most clients let resty send the request
\* again, up to three times; then the pass goes on and clears no counter.
TryFails ==
  /\ faults < MaxFaults /\ faults' = faults + 1
  /\ \/ UNCHANGED <<pc, traffic, failed, leftover>>
     \/ /\ Goto("reset") /\ traffic' = NoUsers
        /\ failed' = TRUE /\ leftover' = TRUE
ReportAccepted ==
  /\ At("report") /\ billed' = Plus(billed, Reported)
  /\ Goto("reset") /\ UNCHANGED <<traffic, repeated, failed, leftover, faults>> /\ ReportOnly
ReportRefused ==
  /\ At("report") /\ TryFails /\ UNCHANGED <<billed, repeated>> /\ ReportOnly
AnswerLost ==
  /\ At("report") /\ TryFails
  /\ billed' = Plus(billed, Reported) /\ repeated' = Plus(repeated, Reported) /\ ReportOnly

\* Faulty variant: the counters are not reset.
ResetNothing(u) ==
  /\ At("reset") /\ traffic[u] # None /\ traffic' = [traffic EXCEPT ![u] = None]
  /\ UNCHANGED <<pc, limits, counter, conns, todo, silent, idle, auto, panel, carried, dropped,
                 repeated, since, streak, failed, leftover, faults>> /\ PassOnly

\* resetTraffic, one counter: what was added since it was read is gone.
ResetCounter(u) ==
  /\ At("reset") /\ traffic[u] # None /\ traffic' = [traffic EXCEPT ![u] = None]
  /\ LET t == traffic[u].tag IN
       IF traffic[u].live
         THEN /\ counter' = [counter EXCEPT ![<<t, u>>] = 0]
              /\ dropped' = [dropped EXCEPT ![<<t, u>>] = @ + (counter[<<t, u>>] - traffic[u].n)]
         ELSE UNCHANGED <<counter, dropped>>
  /\ UNCHANGED <<pc, limits, conns, todo, silent, idle, auto, panel, carried,
                 repeated, since, streak, failed, leftover, faults>> /\ PassOnly

\* CleanupInactive: the users of the limiter idle for longer than the TTL.
CleanupInactive ==
  /\ At("reset") /\ traffic = NoUsers /\ Goto("unregister")
  /\ idle' = {tag} \X {u \in Users : hasLimiter /\ limiter[u] # None /\ quiet[u] > InactiveTTL}
  /\ UNCHANGED <<limits, counter, conns, todo, silent, traffic, auto, panel,
                 history, faults>> /\ PassOnly

UnregisterIdle ==
  /\ At("unregister") /\ Goto("idle") /\ idle' = {}
  /\ \E t \in Tags : (\A n \in idle : n[1] = t) /\ Unregister(t, {n[2] : n \in idle})
  /\ UNCHANGED <<limits, todo, silent, auto, panel, carried, repeated, since,
                 streak, failed, leftover, faults>> /\ PassOnly

Pass ==
  \/ StartPass \/ (\E u \in Users : Collect(u)) \/ EndCollect
  \/ ReportAccepted \/ ReportRefused \/ AnswerLost
  \/ (\E u \in Users : ResetCounter(u)) \/ CleanupInactive \/ UnregisterIdle
-----------------------------------------------------------------------------
(* nodeInfoMonitor, as far as the pass can see it.                         *)

SyncOnly ==
  UNCHANGED <<pc, todo, silent, idle, auto, panel, carried, repeated, since,
              streak, failed, faults>>
Keep == UNCHANGED <<counter, conns, traffic, dropped, leftover>>

\* The list has changed. DeleteLimiterUsers and unregisterTrafficCounters for
\* the users that are gone and for those that changed.
DeleteUsers ==
  /\ npc = "idle" /\ updates < MaxUpdates /\ updates' = updates + 1
  /\ newList' \in UserList \ {userList, NoUsers} /\ npc' = "add"
  /\ LET us == {u \in Users : userList[u] # None /\ userList[u] # newList'[u]} IN
       /\ limiter' = [u \in Users |-> IF u \in us THEN None ELSE limiter[u]]
       /\ Unregister(tag, us)
  /\ UNCHANGED <<tag, userList, hasLimiter, quiet, leftover>> /\ SyncOnly

AddUsers ==
  /\ npc = "add" /\ npc' = "list"
  /\ UpdateLimiter({u \in Users : newList[u] # None /\ userList[u] # newList[u]},
                   LAMBDA u : newList[u])
  /\ UNCHANGED <<tag, userList, hasLimiter, newList, updates>> /\ Keep /\ SyncOnly

\* A reload: Tag is replaced, then the entry of the limiter is. The counters of
\* the old tag stay, and nobody reads them again unless the tag comes back.
SwitchTag ==
  /\ npc = "idle" /\ updates < MaxUpdates /\ updates' = updates + 1
  /\ tag' \in Tags /\ newList' \in UserList \ {NoUsers}
  /\ hasLimiter' = FALSE /\ limiter' = NoUsers /\ npc' = "readd"
  /\ leftover' = (leftover \/ \E u \in Users : tag' # tag /\ Value(<<tag', u>>) > 0)
  /\ UNCHANGED <<userList, quiet, counter, conns, traffic, dropped>>
  /\ SyncOnly

AddInboundLimiter ==
  /\ npc = "readd" /\ npc' = "list"
  /\ hasLimiter' = TRUE /\ limiter' = newList /\ quiet' = NoTime
  /\ UNCHANGED <<tag, userList, newList, updates>> /\ Keep /\ SyncOnly

SetUserList ==
  /\ npc = "list" /\ npc' = "idle" /\ userList' = newList
  /\ leftover' = (leftover \/ \E u \in Users :
       newList[u] \notin {None, userList[u]} /\ warnedUsers[<<u, newList[u]>>] > 0)
  /\ UNCHANGED <<tag, limits, newList, updates, counter, conns, traffic, dropped>> /\ SyncOnly

Sync == DeleteUsers \/ AddUsers \/ SwitchTag \/ AddInboundLimiter \/ SetUserList

Traffic == \E c \in Conns : Dispatch(c) \/ RegisterCounter(c) \/ WriteMultiBuffer(c) \/ Close(c)
Next == Tick \/ Traffic \/ Pass \/ Sync

Spec == Init /\ [][Next]_vars
-----------------------------------------------------------------------------
\* The panel never bills a user more than it carried under a tag, but for the
\* traffic of reports that arrived and whose answer was lost (resty sends them
\* again, and so does the next pass).
NeverBilledTwice == \A n \in Names : billed[n] <= carried[n] + repeated[n]

\* Whatever reports fail, traffic that is not billed is still in its counter,
\* registered ("If report traffic error, not clear the traffic"), but for what
\* was carried while a report was under way or without a registered counter.
Accounted ==
  ~DisableUploadTraffic => \A n \in Names : carried[n] <= billed[n] + Value(n) + dropped[n]

\* Metrics count no traffic twice unless a report failed.
MeteredOnce == ~failed => \A n \in Names : metered[n] <= carried[n]

\* The controller knows of every automatic limit in force, so that a later pass
\* can lift it, whatever became of the user meanwhile.
LimitIsRemembered ==
  \A u \in Users : limiter[u] = AutoLimit => \E v \in Vers : limitedUsers[<<u, v>>] # None

\* A user is limited only after more than WarnTimes periods in a row above the
\* limit ("After (WarnTimes) consecutive warnings, the user will be limited"),
\* as long as counters start every period at zero and no user gets back an
\* earlier copy, whose warnings have outlived the periods under another one.
LimitedIfFast ==
  [][~leftover => \A x \in Copy :
       limitedUsers[x] = None /\ limitedUsers'[x] # None => streak'[x[1]] > WarnTimes]_vars
=============================================================================
