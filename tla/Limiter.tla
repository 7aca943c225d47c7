------------------------------ MODULE Limiter ------------------------------
(***************************************************************************)
(* The device and speed limiter (common/limiter): GetUserBucket runs in    *)
(* the goroutine of every new connection, while the controller's two       *)
(* monitors change the limits (UpdateInboundLimiter, UpdateNodeSpeedLimit, *)
(* DeleteUsers) and sweep the state (GetOnlineDevice, CleanupInactive).    *)
(* All of them meet in sync.Maps: each Load, Store or Delete is a step,    *)
(* and a Range visits the keys one by one in any order.                    *)
(*                                                                         *)
(* The module follows one user of one inbound: no call relates two users,  *)
(* and AddInboundLimiter and DeleteInboundLimiter replace the whole entry. *)
(***************************************************************************)
EXTENDS Naturals, FiniteSets

CONSTANTS
  Callers,       \* goroutines that dispatch connections of the user
  Sweeper,       \* userInfoMonitor
  Admin,         \* nodeInfoMonitor
  IPs,
  Limits,        \* the user's speed and device limits the panel may set
  NodeLimits,    \* the node's speed limits
  Window, TTL,   \* DeviceLimitWindow and InactiveTTL, in ticks
  Serial,        \* whether a call waits for the one before to return
  None,          \* no value under a key
  MaxTime, MaxMaps, MaxCalls, MaxUpdates, MaxSweeps   \* bounds for model checking

Procs == Callers \cup {Sweeper, Admin}
Maps == 1..MaxMaps       \* the *sync.Map values allocated for the user's IPs
Time == 0..MaxTime

ASSUME ProcsAssumption ==
  /\ Sweeper \notin Callers /\ Admin \notin Callers /\ Sweeper # Admin
  /\ IsFiniteSet(Callers)
ASSUME LimitsAssumption ==
  /\ Limits \subseteq [speed : Nat, dev : Nat] /\ NodeLimits \subseteq Nat
  /\ Window \in Nat /\ TTL \in Nat /\ Serial \in BOOLEAN /\ IsFiniteSet(IPs)
  /\ MaxTime \in Nat /\ MaxMaps \in Nat
ASSUME NoneAssumption ==
  /\ None \notin Nat /\ None \notin Limits /\ None \notin IPs
  /\ None \notin [speed : Nat, dev : Nat, last : Nat]

VARIABLES
  now,        \* the clock
  nodeLimit,  \* InboundInfo.NodeSpeedLimit
  info,       \* InboundInfo.UserInfo of the user
  hub,        \* InboundInfo.BucketHub of the user: the rate of its bucket
  online,     \* InboundInfo.UserOnlineIP of the user: a map of IPs
  seen,       \* the maps of IPs: LastSeen of each
  fresh,      \* maps not allocated yet start here
  pc, loc,    \* each goroutine's next step and locals
  applied,    \* history: the limits the controller set last, None once deleted
  admitted,   \* history: when an IP was last admitted under that membership
  deleted,    \* history: the user was deleted (its open connections may still dispatch)
  dropped,    \* history: an address expired while a connection counted or stored one
  calls, updates, sweeps   \* budgets spent

shared == <<nodeLimit, info, hub, online, seen, fresh>>
history == <<applied, admitted, deleted, dropped>>
budgets == <<calls, updates, sweeps>>
vars == <<now, shared, pc, loc, history, budgets>>

Info == [speed : Nat, dev : Nat, last : Nat]
\* now, ip, nodeLimit, u, ipMap; keys a Range has left, the key it deletes,
\* the count; and what a shared loop was called for.
Locals == [at : Nat, ip : IPs \cup {None}, node : Nat, u : Info \cup {None},
           map : Maps \cup {None}, todo : SUBSET IPs, key : IPs \cup {None}, n : Nat,
           for : {"bucket", "report", "clean"}]
NoLocals == [at |-> 0, ip |-> None, node |-> 0, u |-> None, map |-> None, todo |-> {},
             key |-> None, n |-> 0, for |-> "bucket"]
Labels == {"idle", "load", "touch", "map", "prune", "drop", "find", "count", "judge",
           "store", "take", "clean", "forget", "stale", "offline", "dropbucket", "orphan",
           "write", "rate", "range", "delbucket", "delonline"}

\* A bucket is never kept at rate 0, which would stop its user for good.
TypeOK ==
  /\ now \in Time /\ nodeLimit \in NodeLimits /\ info \in Info \cup {None}
  /\ hub \in (Nat \ {0}) \cup {None}
  /\ online \in Maps \cup {None} /\ seen \in [Maps -> [IPs -> Nat \cup {None}]]
  /\ fresh \in 1..(MaxMaps + 1)
  /\ pc \in [Procs -> Labels] /\ loc \in [Procs -> Locals]
  /\ applied \in Limits \cup {None} /\ admitted \in [IPs -> Nat \cup {None}]
  /\ deleted \in BOOLEAN /\ dropped \in BOOLEAN
  /\ calls \in Nat /\ updates \in Nat /\ sweeps \in Nat

\* AddInboundLimiter: the entry of the inbound, with the user on its list.
Init ==
  /\ now = 0 /\ nodeLimit \in NodeLimits
  /\ applied \in Limits /\ info = [speed |-> applied.speed, dev |-> applied.dev, last |-> 0]
  /\ hub = None /\ online = None /\ fresh = 1
  /\ seen = [o \in Maps |-> [i \in IPs |-> None]]
  /\ pc = [p \in Procs |-> "idle"] /\ loc = [p \in Procs |-> NoLocals]
  /\ admitted = [i \in IPs |-> None] /\ deleted = FALSE /\ dropped = FALSE
  /\ calls = 0 /\ updates = 0 /\ sweeps = 0
-----------------------------------------------------------------------------
\* determineRate: the smaller limit, where 0 means none.
Rate(a, b) == IF a = 0 THEN b ELSE IF b = 0 \/ a < b THEN a ELSE b
Expired(t, at) == t + Window < at

At(p, l) == pc[p] = l
Goto(p, l) == pc' = [pc EXCEPT ![p] = l]
Return(p) == Goto(p, "idle") /\ loc' = [loc EXCEPT ![p] = NoLocals]
\* Not inside a call: the sweep waits for the panel between its two calls.
Outside(p) == At(p, "idle") \/ At(p, "clean")
Quiescent == \A p \in Procs : Outside(p)
\* A goroutine may enter the limiter at any time, unless calls are serial.
Enter(p, l) == At(p, l) /\ (Serial => Quiescent)
LastSeen(p, i) == seen[loc[p].map][i]

\* A step of a goroutine's own, and one that writes a single map as well.
Local == UNCHANGED <<now, shared, history, budgets>>
HubOnly == UNCHANGED <<now, nodeLimit, info, online, seen, fresh, history, budgets>>
InfoOnly == UNCHANGED <<now, nodeLimit, hub, online, seen, fresh, history, budgets>>
OnlineOnly == UNCHANGED <<now, nodeLimit, info, hub, seen, history, budgets>>

\* The controller's operations find the bucket and set its rate, or delete it.
\* Faulty variant: a limit of 0 leaves the bucket alone.
KeepBucket(r) == IF hub = None THEN None ELSE IF r = 0 THEN hub ELSE r
SetBucket(r) == IF hub = None \/ r = 0 THEN None ELSE r

Tick ==
  /\ now < MaxTime /\ now' = now + 1
  /\ UNCHANGED <<shared, pc, loc, history, budgets>>
-----------------------------------------------------------------------------
(* Ranges over the map of IPs, shared by all calls.                        *)

\* One key of pruneExpiredIPs or of GetOnlineDevice's loop: an expired entry
\* is deleted in the next step, any other is counted.
PruneKey(p) ==
  /\ At(p, "prune")
  /\ \E i \in loc[p].todo :
       IF LastSeen(p, i) # None /\ Expired(LastSeen(p, i), loc[p].at)
         THEN /\ Goto(p, "drop")
              /\ loc' = [loc EXCEPT ![p].todo = @ \ {i}, ![p].key = i]
         ELSE /\ UNCHANGED pc
              /\ loc' = [loc EXCEPT ![p].todo = @ \ {i},
                                    ![p].n = IF LastSeen(p, i) = None THEN @ ELSE @ + 1]
  /\ Local

DropKey(p) ==
  /\ At(p, "drop")
  /\ seen' = [seen EXCEPT ![loc[p].map][loc[p].key] = None]
  /\ Goto(p, "prune") /\ loc' = [loc EXCEPT ![p].key = None]
  /\ dropped' = (dropped \/ \E c \in Callers : pc[c] \in {"count", "store"})
  /\ UNCHANGED <<now, nodeLimit, info, hub, online, fresh, applied, admitted, deleted, budgets>>

\* countActiveIPs, one key.
CountKey(p) ==
  /\ At(p, "count")
  /\ \E i \in loc[p].todo :
       loc' = [loc EXCEPT ![p].todo = @ \ {i},
                          ![p].n = IF LastSeen(p, i) = None THEN @ ELSE @ + 1]
  /\ Local /\ UNCHANGED pc

\* The end of a loop, and what its caller does next: l, with keys to visit.
EndOf(p, loop, for) == At(p, loop) /\ loc[p].todo = {} /\ loc[p].for = for
Again(p, l, keys) == Goto(p, l) /\ loc' = [loc EXCEPT ![p].todo = keys, ![p].n = 0]
-----------------------------------------------------------------------------
(* GetUserBucket.                                                          *)

Connect(c) ==
  /\ Enter(c, "idle") /\ calls < MaxCalls /\ calls' = calls + 1
  /\ \E i \in IPs :
       loc' = [loc EXCEPT ![c].at = now, ![c].ip = i, ![c].node = nodeLimit]
  /\ Goto(c, "load")
  /\ UNCHANGED <<now, shared, history, updates, sweeps>>

LoadUser(c) ==
  /\ At(c, "load")
  /\ loc' = [loc EXCEPT ![c].u = info]
  /\ Goto(c, IF info = None THEN "map" ELSE "touch")
  /\ Local

\* The copy read in the step before is stored back with a new LastActive.
TouchUser(c) ==
  /\ At(c, "touch")
  /\ info' = [loc[c].u EXCEPT !.last = loc[c].at]
  /\ Goto(c, "map") /\ InfoOnly /\ UNCHANGED loc

LoadMap(c) ==
  /\ At(c, "map")
  /\ \/ online # None /\ UNCHANGED <<online, fresh>>
     \/ online = None /\ fresh <= MaxMaps /\ online' = fresh /\ fresh' = fresh + 1
  /\ Goto(c, "prune")
  /\ loc' = [loc EXCEPT ![c].map = online', ![c].todo = IPs] /\ OnlineOnly

UserSpeed(c) == IF loc[c].u = None THEN 0 ELSE loc[c].u.speed
UserDev(c) == IF loc[c].u = None THEN 0 ELSE loc[c].u.dev

\* Faulty variant: a device that is in the map already is counted as well.
CountAlways(c) ==
  /\ EndOf(c, "prune", "bucket")
  /\ \/ UserDev(c) = 0 /\ Again(c, "store", {})
     \/ UserDev(c) > 0 /\ Again(c, "count", IPs)
  /\ Local

FindIP(c) ==
  /\ EndOf(c, "prune", "bucket")
  /\ \/ LastSeen(c, loc[c].ip) # None /\ Again(c, "store", {})
     \/ LastSeen(c, loc[c].ip) = None /\ UserDev(c) = 0 /\ Again(c, "store", {})
     \/ LastSeen(c, loc[c].ip) = None /\ UserDev(c) > 0 /\ Again(c, "count", IPs)
  /\ Local

\* Faulty variant: one device too many.
TooManyOffByOne(c) == loc[c].n > UserDev(c)
TooMany(c) == loc[c].n >= UserDev(c)

Reject(c) ==
  /\ EndOf(c, "count", "bucket") /\ TooMany(c)
  /\ Return(c) /\ Local

Allow(c) ==
  /\ EndOf(c, "count", "bucket") /\ ~TooMany(c)
  /\ Goto(c, "store") /\ Local /\ UNCHANGED loc

StoreIP(c) ==
  /\ At(c, "store")
  /\ seen' = [seen EXCEPT ![loc[c].map][loc[c].ip] = loc[c].at]
  /\ admitted' = [admitted EXCEPT ![loc[c].ip] = loc[c].at]
  /\ Goto(c, "take")
  /\ UNCHANGED <<now, nodeLimit, info, hub, online, fresh, loc, applied, deleted, dropped,
                 budgets>>

\* Faulty variant: a bucket is made for an unlimited user as well.
TakeZeroBucket(c) ==
  /\ At(c, "take")
  /\ hub' = IF hub = None THEN Rate(loc[c].node, UserSpeed(c)) ELSE hub
  /\ Return(c) /\ HubOnly

\* BucketHub.LoadOrStore, with the limits read at the start of the call.
TakeBucket(c) ==
  /\ At(c, "take")
  /\ LET r == Rate(loc[c].node, UserSpeed(c)) IN
       hub' = IF hub = None /\ r > 0 THEN r ELSE hub
  /\ Return(c) /\ HubOnly

GetUserBucket(c) ==
  \/ Connect(c) \/ LoadUser(c) \/ TouchUser(c) \/ LoadMap(c)
  \/ PruneKey(c) \/ DropKey(c) \/ FindIP(c)
  \/ CountKey(c) \/ Reject(c) \/ Allow(c) \/ StoreIP(c) \/ TakeBucket(c)
-----------------------------------------------------------------------------
(* The sweep of userInfoMonitor: GetOnlineDevice, then CleanupInactive.    *)

GetOnlineDevice ==
  /\ Enter(Sweeper, "idle") /\ sweeps < MaxSweeps /\ sweeps' = sweeps + 1
  /\ loc' = [loc EXCEPT ![Sweeper].at = now, ![Sweeper].map = online,
                        ![Sweeper].todo = IPs, ![Sweeper].for = "report"]
  /\ Goto(Sweeper, IF online = None THEN "clean" ELSE "prune")
  /\ UNCHANGED <<now, shared, history, calls, updates>>

\* Faulty variant: every report wipes the online state.
WipeReport ==
  /\ EndOf(Sweeper, "prune", "report")
  /\ Goto(Sweeper, "forget") /\ Local /\ UNCHANGED loc

\* No IP was active: the key goes, whatever map it holds by now.
EndReport ==
  /\ EndOf(Sweeper, "prune", "report")
  /\ Goto(Sweeper, IF loc[Sweeper].n = 0 THEN "forget" ELSE "clean")
  /\ Local /\ UNCHANGED loc

ForgetUser ==
  /\ At(Sweeper, "forget")
  /\ online' = None
  /\ Goto(Sweeper, IF loc[Sweeper].for = "report" THEN "clean" ELSE "stale")
  /\ OnlineOnly /\ UNCHANGED <<fresh, loc>>

CleanupInactive ==
  /\ Enter(Sweeper, "clean")
  /\ loc' = [loc EXCEPT ![Sweeper].at = now, ![Sweeper].map = online,
                        ![Sweeper].todo = IPs, ![Sweeper].for = "clean", ![Sweeper].n = 0]
  /\ Goto(Sweeper, IF online = None THEN "stale" ELSE "prune")
  /\ Local

EndPrune ==
  /\ EndOf(Sweeper, "prune", "clean") /\ Again(Sweeper, "count", IPs) /\ Local

EndCount ==
  /\ EndOf(Sweeper, "count", "clean")
  /\ Goto(Sweeper, IF loc[Sweeper].n = 0 THEN "forget" ELSE "stale")
  /\ Local /\ UNCHANGED loc

\* The bucket of an idle user goes: idle for longer than the TTL, not online.
IdleUser ==
  /\ At(Sweeper, "stale")
  /\ Goto(Sweeper, IF info # None /\ info.last + TTL < loc[Sweeper].at
                     THEN "offline" ELSE "orphan")
  /\ Local /\ UNCHANGED loc
OfflineUser ==
  /\ At(Sweeper, "offline")
  /\ Goto(Sweeper, IF online = None THEN "dropbucket" ELSE "orphan")
  /\ Local /\ UNCHANGED loc
DropBucket ==
  /\ At(Sweeper, "dropbucket")
  /\ hub' = None /\ Goto(Sweeper, "orphan") /\ HubOnly /\ UNCHANGED loc

\* The bucket of a user that is gone goes as well.
OrphanBucket ==
  /\ At(Sweeper, "orphan")
  /\ \/ hub # None /\ info = None /\ Goto(Sweeper, "dropbucket") /\ UNCHANGED loc
     \/ (hub = None \/ info # None) /\ Return(Sweeper)
  /\ Local

Sweep ==
  \/ GetOnlineDevice \/ PruneKey(Sweeper) \/ DropKey(Sweeper) \/ EndReport \/ ForgetUser
  \/ CleanupInactive \/ EndPrune \/ CountKey(Sweeper) \/ EndCount
  \/ IdleUser \/ OfflineUser \/ DropBucket \/ OrphanBucket
-----------------------------------------------------------------------------
(* The calls of nodeInfoMonitor.                                           *)

EnterAdmin == Enter(Admin, "idle") /\ updates < MaxUpdates /\ updates' = updates + 1
NoneAdmitted == admitted' = [i \in IPs |-> None]

\* UpdateInboundLimiter for the user, new or changed.
UpdateInboundLimiter ==
  /\ EnterAdmin
  /\ \E l \in Limits :
       /\ applied' = l
       /\ loc' = [loc EXCEPT ![Admin].u = info, ![Admin].at = now]
  /\ IF applied = None THEN NoneAdmitted ELSE UNCHANGED admitted
  /\ Goto(Admin, "write")
  /\ UNCHANGED <<now, shared, deleted, dropped, calls, sweeps>>

\* Faulty variant: limits that are there already are kept.
WriteOnce ==
  /\ At(Admin, "write")
  /\ info' = IF loc[Admin].u # None THEN loc[Admin].u
             ELSE [speed |-> applied.speed, dev |-> applied.dev, last |-> loc[Admin].at]
  /\ Goto(Admin, "rate") /\ loc' = [loc EXCEPT ![Admin].u = info'] /\ InfoOnly

WriteUser ==
  /\ At(Admin, "write")
  /\ info' = [speed |-> applied.speed, dev |-> applied.dev,
              last |-> IF loc[Admin].u = None THEN loc[Admin].at ELSE loc[Admin].u.last]
  /\ Goto(Admin, "rate") /\ loc' = [loc EXCEPT ![Admin].u = info'] /\ InfoOnly

SetUserRate ==
  /\ At(Admin, "rate")
  /\ hub' = SetBucket(Rate(nodeLimit, loc[Admin].u.speed))
  /\ Return(Admin) /\ HubOnly

\* UpdateNodeSpeedLimit: the limit, then the buckets of the users in UserInfo.
UpdateNodeSpeedLimit ==
  /\ EnterAdmin
  /\ nodeLimit' \in NodeLimits \ {nodeLimit}
  /\ Goto(Admin, "range")
  /\ UNCHANGED <<now, info, hub, online, seen, fresh, loc, history, calls, sweeps>>
RangeUsers ==
  /\ At(Admin, "range")
  /\ \/ info = None /\ Return(Admin)
     \/ info # None /\ Goto(Admin, "rate") /\ loc' = [loc EXCEPT ![Admin].u = info]
  /\ Local

\* DeleteUsers: three maps, one after the other.
DeleteUsers ==
  /\ EnterAdmin /\ applied # None
  /\ applied' = None /\ NoneAdmitted /\ deleted' = TRUE
  /\ info' = None
  /\ Goto(Admin, "delbucket")
  /\ UNCHANGED <<now, nodeLimit, hub, online, seen, fresh, loc, dropped, calls, sweeps>>
DeleteBucket ==
  /\ At(Admin, "delbucket")
  /\ hub' = None /\ Goto(Admin, "delonline") /\ HubOnly /\ UNCHANGED loc
DeleteOnline ==
  /\ At(Admin, "delonline")
  /\ online' = None /\ Return(Admin) /\ OnlineOnly /\ UNCHANGED fresh

Administer ==
  \/ UpdateInboundLimiter \/ WriteUser \/ SetUserRate
  \/ UpdateNodeSpeedLimit \/ RangeUsers
  \/ DeleteUsers \/ DeleteBucket \/ DeleteOnline

Next == Tick \/ (\E c \in Callers : GetUserBucket(c)) \/ Sweep \/ Administer
Spec == Init /\ [][Next]_vars
-----------------------------------------------------------------------------
\* The address was admitted no longer than a window before time t.
Recent(i, t) == admitted[i] # None /\ t <= admitted[i] + Window

\* Connections racing from the count to the store overshoot the largest limit of
\* the user by less than their number, through changes of the limit - unless an
\* address expired under one of them, which may then store it, found already,
\* beside those that were counted in its absence.
OvershootBounded ==
  ~deleted /\ ~dropped /\ online # None =>
    \A d \in {l.dev : l \in Limits} :
      (\A l \in Limits : l.dev \in 1..d) =>
        Cardinality({i \in IPs : seen[online][i] # None}) < d + Cardinality(Callers)

\* When no call is in progress, the limits in force are those the controller
\* set last ("UpdateInboundLimiter updates speed/device limits").
LimitsAsApplied ==
  Quiescent =>
    IF applied = None THEN info = None
    ELSE info # None /\ info.speed = applied.speed /\ info.dev = applied.dev

\* The bucket runs at the rate the limits give, once no call is in progress.
BucketFollows ==
  Quiescent /\ info # None /\ hub # None => hub = Rate(nodeLimit, info.speed)

\* A device admitted within the window is still known: neither a report nor a
\* cleanup wipes it ("does NOT wipe online state each period").
OnlineKept ==
  Quiescent => \A i \in IPs : Recent(i, now) => online # None /\ seen[online][i] # None

\* A device that was admitted within the window is not rejected.
KnownDeviceAdmitted ==
  [][\A c \in Callers : Reject(c) => ~Recent(loc[c].ip, loc[c].at)]_vars

\* An address that was not admitted within the window is admitted only while
\* fewer than DeviceLimit addresses were ("enforces speed + sliding-window device
\* limits"), if the user was never deleted.
DeviceLimit ==
  [][\A c \in Callers :
       StoreIP(c) /\ ~deleted /\ ~Recent(loc[c].ip, loc[c].at) /\ applied # None /\ applied.dev > 0
         => Cardinality({i \in IPs : Recent(i, loc[c].at)}) < applied.dev]_vars
=============================================================================
