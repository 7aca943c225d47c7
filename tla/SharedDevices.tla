--------------------------- MODULE SharedDevices ---------------------------
(***************************************************************************)
(* One user's device limit on several nodes. Two mechanisms share it:      *)
(*                                                                         *)
(*  - sspanel and bunpanel count the addresses all nodes have reported; a  *)
(*    node takes its own limit from that count and from what it reported   *)
(*    itself (ParseUserListResponse, ReportNodeOnlineUsers);               *)
(*  - the limiter of every node reads and writes one map of addresses in   *)
(*    redis, behind a cache of its own (globalLimit, pushIP).              *)
(*                                                                         *)
(* Both work on copies: the answer and the report of a node cross, reports *)
(* fail, and the map is read, checked, extended and written back, first to *)
(* the node's cache and then to redis, with no lock. The races inside the  *)
(* limiter of one node are those of module Limiter.                        *)
(***************************************************************************)
EXTENDS Naturals, FiniteSets

CONSTANTS
  Nodes, IPs,
  Setups,      \* what the panel and the configuration say: see Setup
  None, Gone,  \* no value; no entry for the user
  MaxLimit, MaxPushes, MaxFaults   \* bounds for model checking

\* Whether the panel counts addresses, whether GlobalDeviceLimitConfig is
\* enabled, the device limit of the user and the addresses the user comes from.
Setup == [counts : BOOLEAN, redis : BOOLEAN, dev : 1..MaxLimit, ips : SUBSET IPs]

ASSUME SharedAssumption ==
  /\ MaxLimit \in Nat /\ MaxFaults \in Nat /\ Setups \subseteq Setup /\ IsFiniteSet(IPs)
  /\ None \notin Nat /\ Gone \notin Nat /\ None # Gone

VARIABLES
  setup,
  alive,      \* the panel: addresses each node reported and that still count
  answer,     \* AliveIP in the answer a node is waiting for
  last,       \* APIClient.LastReportOnline
  posting,    \* addresses in the report a node is sending
  limit,      \* DeviceLimit in the node's limiter
  online,     \* UserOnlineIP in the node's limiter
  cache,      \* a node's go-cache of the maps
  redis,      \* the maps in redis, by the limit that is part of their key
  pushes,     \* maps on their way to a cache or to redis
  report,     \* history: the node's last report since the list before, if it names
              \* the user: "sent" only, or "counted" by the panel
  counted,    \* history: the answer leaves out nothing of that report
  used,       \* history: addresses that ever connected; both only where the
  refused,    \* history: some was turned away;   panel does not count addresses
  faults

panel == <<alive, answer, last, posting, limit>>
global == <<cache, redis, pushes>>
history == <<report, counted, used, refused>>
vars == <<setup, panel, online, global, history, faults>>

Keys == 0..MaxLimit
Copy == (SUBSET IPs) \cup {None}
Stores == {"cache", "redis"}
Push == [node : Nodes, key : Keys, ips : SUBSET IPs, to : SUBSET Stores]

\* LastReportOnline is what a report in progress tells.
TypeOK ==
  /\ setup \in Setups /\ alive \in [Nodes -> SUBSET IPs]
  /\ answer \in [Nodes -> Nat \cup {None}]
  /\ last \in [Nodes -> Nat] /\ posting \in [Nodes -> SUBSET IPs]
  /\ \A n \in Nodes : posting[n] # {} => last[n] = Cardinality(posting[n])
  /\ limit \in [Nodes -> Keys \cup {Gone}] /\ online \in [Nodes -> SUBSET IPs]
  /\ cache \in [Nodes -> [Keys -> Copy]] /\ redis \in [Keys -> Copy] /\ pushes \subseteq Push
  /\ report \in [Nodes -> {"no", "sent", "counted"}] /\ counted \in [Nodes -> BOOLEAN]
  /\ used \subseteq IPs /\ refused \in BOOLEAN /\ faults \in 0..MaxFaults

Init ==
  /\ setup \in Setups /\ alive = [n \in Nodes |-> {}]
  /\ answer = [n \in Nodes |-> None]
  /\ last = [n \in Nodes |-> 0] /\ posting = alive
  /\ limit = [n \in Nodes |-> setup.dev] /\ online = alive
  /\ cache = [n \in Nodes |-> [k \in Keys |-> None]] /\ redis = [k \in Keys |-> None] /\ pushes = {}
  /\ counted = [n \in Nodes |-> TRUE]
  /\ report = [n \in Nodes |-> "no"] /\ used = {} /\ refused = FALSE /\ faults = 0
-----------------------------------------------------------------------------
(* The panel's count.                                                      *)

Set(f, n, v) == f' = [f EXCEPT ![n] = v]
AliveIP == Cardinality(UNION {alive[n] : n \in Nodes})
PanelOnly == UNCHANGED <<setup, global, used, refused>>

\* Faulty variant: a list is parsed while a report is on its way.
NoLock(n) == FALSE
\* APIClient.access, which a report holds to its end.
Locked(n) == posting[n] # {}

\* userInfoMonitor: GetOnlineDevice, and the node notes what it is about to
\* report, which may be other users only.
BeginReport(n) ==
  /\ setup.counts /\ ~Locked(n)
  /\ Set(posting, n, online[n]) /\ Set(last, n, Cardinality(online[n]))
  /\ Set(counted, n, online[n] = {}) /\ Set(report, n, IF online[n] = {} THEN "no" ELSE "sent")
  /\ UNCHANGED <<alive, answer, limit, online, faults>> /\ PanelOnly

\* The report reaches the panel, or fails: LastReportOnline stays either way.
EndReport(n) ==
  /\ posting[n] # {} /\ Set(posting, n, {})
  /\ \/ Set(alive, n, posting[n]) /\ Set(report, n, "counted") /\ UNCHANGED faults
     \/ faults < MaxFaults /\ faults' = faults + 1 /\ UNCHANGED <<alive, report>>
  /\ UNCHANGED <<answer, last, limit, online, counted>> /\ PanelOnly

\* The panel counts an address for a while only.
Forget(n) ==
  /\ alive[n] # {} /\ Set(alive, n, {})
  /\ Set(report, n, IF report[n] = "counted" THEN "sent" ELSE report[n])
  /\ UNCHANGED <<answer, last, posting, limit, online, counted, faults>> /\ PanelOnly

\* GetUserList: the panel answers, ...
Fetch(n) ==
  /\ setup.counts /\ answer[n] = None
  /\ Set(answer, n, AliveIP) /\ Set(counted, n, report[n] # "sent")
  /\ UNCHANGED <<alive, last, posting, limit, online, report, faults>> /\ PanelOnly

\* Faulty variant: only free devices count, not those the node has itself.
FreeOnly(dev, count, mine) ==
  IF count = 0 THEN dev ELSE IF dev + mine > count THEN dev + mine - count ELSE Gone
\* The device limit in the list: none is left, but for what the node reported.
LocalLimit(dev, count, mine) ==
  IF count = 0 THEN dev
  ELSE IF dev + mine > count THEN dev + mine - count
  ELSE IF mine > 0 THEN mine ELSE Gone

\* Faulty variant: the last report is remembered.
KeepLast(n) == UNCHANGED last
ClearLast(n) == Set(last, n, 0)

\* ... the list is parsed, under the same lock, and applied: a user whose limit
\* has changed is deleted and added again, and the limiter forgets the addresses
\* of its open connections. (A report that starts in between notes addresses of
\* which the limiter will know nothing, as one does that starts later and whose
\* addresses then leave.)
Apply(n) ==
  /\ answer[n] # None /\ ~Locked(n)
  /\ LET l == LocalLimit(setup.dev, answer[n], last[n]) IN
       /\ l \in Keys \cup {Gone}
       /\ IF l = limit[n] THEN UNCHANGED <<limit, online>>
          ELSE Set(limit, n, l) /\ Set(online, n, {})
  /\ ClearLast(n)
  /\ Set(answer, n, None) /\ Set(counted, n, TRUE) /\ Set(report, n, "no")
  /\ UNCHANGED <<alive, posting, faults>> /\ PanelOnly
-----------------------------------------------------------------------------
(* The map in redis.                                                       *)

\* What the chain of caches finds.
Found(n, k) == IF cache[n][k] # None THEN cache[n][k] ELSE redis[k]
\* A map found in redis only is put into the node's cache on the side.
Backfill(n, k) ==
  IF cache[n][k] # None \/ redis[k] = None THEN {}
  ELSE {[node |-> n, key |-> k, ips |-> redis[k], to |-> {"cache"}]}
PushIPs(n, k, ips) == {[node |-> n, key |-> k, ips |-> ips, to |-> Stores]}

\* Faulty variant: the limit is reached one address too early.
FullEarly(k, ips) == k > 0 /\ Cardinality(ips) >= k
\* Faulty variant: no map is ever full.
NeverFull(k, ips) == FALSE
Full(k, ips) == k > 0 /\ Cardinality(ips) > k

Refuse(b) == refused' = (refused \/ (b /\ ~setup.counts))

\* globalLimit: the connection is turned away, or the address is in the map,
\* or is added to the copy that was read and pushed. No map, a map with this
\* address alone; no answer, no limit.
GlobalLimit(n, ip) ==
  LET k == limit[n]
      v == Found(n, k)
      new == IF v = None THEN PushIPs(n, k, {ip})
             ELSE IF Full(k, v) \/ ip \in v THEN {} ELSE PushIPs(n, k, v \cup {ip})
  IN \/ /\ pushes' = pushes \cup Backfill(n, k) \cup new
        /\ Cardinality(pushes') <= MaxPushes
        /\ Refuse(v # None /\ Full(k, v))
        /\ UNCHANGED <<cache, redis, faults>>
     \/ /\ faults < MaxFaults /\ faults' = faults + 1
        /\ UNCHANGED <<global, refused>>

\* GetUserBucket: an address the limiter does not know needs a free device, and
\* is known from then on even if the global limit turns it away.
Connect(n, ip) ==
  /\ limit[n] # Gone /\ ip \in setup.ips
  /\ used' = IF setup.counts THEN {} ELSE used \cup {ip}
  /\ IF ip \notin online[n] /\ limit[n] > 0 /\ Cardinality(online[n]) >= limit[n]
       THEN Refuse(TRUE) /\ UNCHANGED <<online, global, faults>>
       ELSE /\ Set(online, n, online[n] \cup {ip})
            /\ IF setup.redis THEN GlobalLimit(n, ip) ELSE UNCHANGED <<refused, global, faults>>
  /\ UNCHANGED <<setup, panel, report, counted>>

\* The address has been silent for the window: sweeps and calls drop it.
Leave(n, ip) ==
  /\ ip \in online[n] /\ Set(online, n, online[n] \ {ip})
  /\ UNCHANGED <<setup, panel, global, history, faults>>

GlobalOnly == UNCHANGED <<setup, panel, online, history>>

\* The chain sets the cache first, then redis, which may fail.
Write(p) ==
  /\ p \in pushes
  /\ \/ /\ "cache" \in p.to /\ cache' = [cache EXCEPT ![p.node][p.key] = p.ips]
        /\ pushes' = (pushes \ {p})
             \cup (IF "redis" \in p.to THEN {[p EXCEPT !.to = {"redis"}]} ELSE {})
        /\ UNCHANGED <<redis, faults>>
     \/ /\ p.to = {"redis"} /\ pushes' = pushes \ {p} /\ UNCHANGED cache
        /\ \/ redis' = [redis EXCEPT ![p.key] = p.ips] /\ UNCHANGED faults
           \/ faults < MaxFaults /\ faults' = faults + 1 /\ UNCHANGED redis
  /\ GlobalOnly

\* GlobalDeviceLimitConfig.Expiry after it was written a map is gone.
ExpireCache(n, k) ==
  /\ cache[n][k] # None /\ cache' = [cache EXCEPT ![n][k] = None]
  /\ UNCHANGED <<redis, pushes, faults>> /\ GlobalOnly
ExpireRedis(k) ==
  /\ redis[k] # None /\ redis' = [redis EXCEPT ![k] = None]
  /\ UNCHANGED <<cache, pushes, faults>> /\ GlobalOnly

Monitors(n) == BeginReport(n) \/ EndReport(n) \/ Fetch(n) \/ Apply(n)
Next ==
  \/ \E n \in Nodes : Monitors(n) \/ Forget(n) \/ \E ip \in IPs : Connect(n, ip) \/ Leave(n, ip)
  \/ \E p \in pushes : Write(p)
  \/ \E k \in Keys : ExpireRedis(k) \/ \E n \in Nodes : ExpireCache(n, k)

Spec == Init /\ [][Next]_vars
-----------------------------------------------------------------------------
\* The copies of the map of limit k: in redis, in a cache, on their way.
Copies(k) ==
  {redis[k]} \cup {cache[n][k] : n \in Nodes} \cup {p.ips : p \in {q \in pushes : q.key = k}}

\* Whatever copies of the map are read, extended and written back by whom and
\* in which order, none ever holds more than one address above the limit it is
\* kept for ("len(*ipMap) > deviceLimit" is checked on the copy that is read).
GlobalMapBounded ==
  \A k \in Keys \ {0} : \A ips \in Copies(k) \ {None} : Cardinality(ips) <= k + 1

\* A user with no more addresses than the device limit is never turned away,
\* however stale the maps are, where the panel hands out the limit itself.
RefusedOnlyIfOver == ~setup.counts /\ refused => Cardinality(used) > setup.dev

\* A list raises a node's limit above the user's own only if the count in it
\* missed some of what the node had reported; otherwise a limit that is above it
\* can only come down.
LimitWithinPanel ==
  [][\A n \in Nodes : counted[n] /\ limit'[n] # Gone /\ limit'[n] > setup.dev
       => limit[n] # Gone /\ limit'[n] <= limit[n]]_vars

\* A node loses the user only if its last report since the list before does not
\* name the user ("If this backend server has reported any user in the last reporting
\* period"), even if the report never arrived.
ReportedUserKept ==
  [][\A n \in Nodes : limit[n] # Gone /\ limit'[n] = Gone => report[n] = "no"]_vars
=============================================================================
