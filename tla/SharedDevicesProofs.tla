------------------------ MODULE SharedDevicesProofs ------------------------
(***************************************************************************)
(* Proofs about the map of addresses that nodes share through redis: no    *)
(* copy of it outgrows the limit by more than one address, and a user with *)
(* no more addresses than the limit is never turned away.                  *)
(***************************************************************************)
EXTENDS SharedDevices, FiniteSetTheorems, TLAPS

MapsTyped ==
  /\ setup \in Setup /\ refused \in BOOLEAN /\ used \in SUBSET IPs
  /\ limit \in [Nodes -> Keys \cup {Gone}] /\ online \in [Nodes -> SUBSET IPs]
  /\ cache \in [Nodes -> [Keys -> Copy]] /\ redis \in [Keys -> Copy] /\ pushes \in SUBSET Push

\* What is known of a copy of the map of limit k.
Sound(k, v) ==
  v = None \/ /\ v \in SUBSET IPs
              /\ k > 0 => Cardinality(v) <= k + 1
              /\ ~setup.counts => v \subseteq used

MapsInv ==
  /\ \A k \in Keys : Sound(k, redis[k])
  /\ \A n \in Nodes, k \in Keys : Sound(k, cache[n][k])
  /\ \A p \in pushes : Sound(p.key, p.ips)

\* Where the panel does not count, the limit is the user's own, and what the
\* limiter knows has connected.
LimitInv ==
  ~setup.counts =>
    \A n \in Nodes : limit[n] = setup.dev /\ online[n] \subseteq used /\ answer[n] = None

AnswerTyped == DOMAIN answer = Nodes

MapInv == MapsTyped /\ AnswerTyped /\ MapsInv /\ LimitInv /\ RefusedOnlyIfOver
-----------------------------------------------------------------------------
LEMMA SizeOfSubset ==
  ASSUME NEW s \in SUBSET IPs
  PROVE  IsFiniteSet(s) /\ Cardinality(s) \in Nat
BY SharedAssumption, FS_Subset, FS_CardinalityType

LEMMA OneMore ==
  ASSUME NEW s \in SUBSET IPs, NEW ip \in IPs
  PROVE  /\ Cardinality(s \cup {ip}) \in Nat
         /\ Cardinality(s \cup {ip}) <= Cardinality(s) + 1
         /\ ip \notin s => Cardinality(s \cup {ip}) = Cardinality(s) + 1
BY SizeOfSubset, FS_AddElement

LEMMA NoMore ==
  ASSUME NEW s \in SUBSET IPs, NEW t \in SUBSET s
  PROVE  Cardinality(t) <= Cardinality(s)
BY SizeOfSubset, FS_Subset

LEMMA InitMaps == ASSUME Init PROVE MapInv
<1>1. setup \in Setup /\ setup.dev \in Keys
  BY SharedAssumption DEF Init, Setup, Keys
<1>2. MapsTyped /\ AnswerTyped
  BY <1>1 DEF Init, MapsTyped, AnswerTyped, Copy
<1>3. MapsInv /\ LimitInv /\ RefusedOnlyIfOver
  BY DEF Init, MapsInv, Sound, LimitInv, RefusedOnlyIfOver
<1> QED BY <1>2, <1>3 DEF MapInv

\* What was sound stays so while the addresses that connected only grow.
LEMMA SoundKept ==
  ASSUME UNCHANGED setup, used \subseteq used', NEW k, NEW v, Sound(k, v)
  PROVE  Sound(k, v)'
BY DEF Sound
-----------------------------------------------------------------------------
(* The panel's count.                                                      *)

LEMMA PanelMaps ==
  ASSUME MapInv, NEW n \in Nodes, Monitors(n) \/ Forget(n)
  PROVE  MapInv'
<1>1. UNCHANGED <<setup, cache, redis, pushes, used, refused>>
  BY DEF Monitors, Forget, BeginReport, EndReport, Fetch, Apply, PanelOnly, global
<1>2. limit' \in [Nodes -> Keys \cup {Gone}] /\ online' \in [Nodes -> SUBSET IPs]
  BY DEF MapInv, MapsTyped, Monitors, Forget, BeginReport, EndReport, Fetch, Apply, Set
<1>3. MapsTyped' /\ MapsInv' /\ RefusedOnlyIfOver'
  BY <1>1, <1>2 DEF MapInv, MapsTyped, MapsInv, Sound, RefusedOnlyIfOver
<1>4. AnswerTyped'
  BY DEF MapInv, AnswerTyped, Monitors, Forget, BeginReport, EndReport, Fetch, Apply, Set
<1>5. setup.counts \/ UNCHANGED <<limit, online, answer>>
  BY DEF MapInv, LimitInv, Monitors, Forget, BeginReport, EndReport, Fetch, Apply
<1>6. LimitInv'
  BY <1>1, <1>5 DEF MapInv, LimitInv
<1> QED BY <1>3, <1>4, <1>6 DEF MapInv
-----------------------------------------------------------------------------
(* The map.                                                                *)

LEMMA WriteMaps ==
  ASSUME MapInv, NEW p \in pushes, Write(p)
  PROVE  MapInv'
<1>1. UNCHANGED <<setup, limit, online, answer, used, refused>>
  BY DEF Write, GlobalOnly, panel, history
<1>2. p \in Push /\ Sound(p.key, p.ips) /\ p.ips \in Copy
  BY DEF MapInv, MapsTyped, MapsInv, Push, Copy
<1>3. \A q \in pushes' : q \in Push /\ Sound(q.key, q.ips)
  <2> DEFINE rest == [p EXCEPT !.to = {"redis"}]
  <2>1. ASSUME NEW q \in pushes', q \notin pushes PROVE q = rest
    BY <2>1 DEF Write
  <2>2. rest \in Push
    BY <1>2 DEF Push, Stores
  <2>3. rest.key = p.key /\ rest.ips = p.ips
    BY <1>2 DEF Push
  <2> QED BY <1>2, <2>1, <2>2, <2>3 DEF MapInv, MapsTyped, MapsInv
<1>4. /\ cache' \in [Nodes -> [Keys -> Copy]]
      /\ \A n \in Nodes, k \in Keys : Sound(k, cache'[n][k])
  <2>1. CASE UNCHANGED cache
    BY <2>1 DEF MapInv, MapsTyped, MapsInv
  <2>2. CASE cache' = [cache EXCEPT ![p.node][p.key] = p.ips]
    BY <1>2, <2>2 DEF MapInv, MapsTyped, MapsInv
  <2> QED BY <2>1, <2>2 DEF Write
<1>5. redis' \in [Keys -> Copy] /\ \A k \in Keys : Sound(k, redis'[k])
  <2>1. CASE UNCHANGED redis
    BY <2>1 DEF MapInv, MapsTyped, MapsInv
  <2>2. CASE redis' = [redis EXCEPT ![p.key] = p.ips]
    BY <1>2, <2>2 DEF MapInv, MapsTyped, MapsInv
  <2> QED BY <2>1, <2>2 DEF Write
<1> QED BY <1>1, <1>3, <1>4, <1>5
    DEF MapInv, MapsTyped, AnswerTyped, MapsInv, Sound, LimitInv, RefusedOnlyIfOver

LEMMA ExpireMaps ==
  ASSUME MapInv, NEW k \in Keys, ExpireRedis(k) \/ \E n \in Nodes : ExpireCache(n, k)
  PROVE  MapInv'
<1>1. UNCHANGED <<setup, limit, online, answer, used, refused, pushes>>
  BY DEF ExpireRedis, ExpireCache, GlobalOnly, panel, history
<1>2. None \in Copy /\ Sound(k, None)
  BY DEF Copy, Sound
<1>3. /\ cache' \in [Nodes -> [Keys -> Copy]]
      /\ \A n \in Nodes, m \in Keys : cache'[n][m] \in {cache[n][m], None}
  <2>1. cache \in [Nodes -> [Keys -> Copy]]
    BY DEF MapInv, MapsTyped
  <2>2. CASE UNCHANGED cache
    BY <2>1, <2>2
  <2>3. CASE \E n \in Nodes : cache' = [cache EXCEPT ![n][k] = None]
    BY <1>2, <2>1, <2>3
  <2> QED BY <2>2, <2>3 DEF ExpireRedis, ExpireCache
<1>4. /\ redis' \in [Keys -> Copy] /\ \A m \in Keys : redis'[m] \in {redis[m], None}
  BY <1>2 DEF ExpireRedis, ExpireCache, MapInv, MapsTyped
<1> QED BY <1>1, <1>3, <1>4
    DEF MapInv, MapsTyped, AnswerTyped, MapsInv, Sound, LimitInv, RefusedOnlyIfOver

\* What the chain of caches finds is sound, and so is what is pushed.
LEMMA FoundSound ==
  ASSUME MapInv, NEW n \in Nodes, NEW k \in Keys
  PROVE  Sound(k, Found(n, k))
BY DEF MapInv, MapsInv, Found

LEMMA BackfillSound ==
  ASSUME MapInv, NEW n \in Nodes, NEW k \in Keys, NEW p \in Backfill(n, k)
  PROVE  p \in Push /\ Sound(p.key, p.ips)
<1>1. p = [node |-> n, key |-> k, ips |-> redis[k], to |-> {"cache"}] /\ redis[k] # None
  BY DEF Backfill
<1>2. Sound(k, redis[k])
  BY DEF MapInv, MapsInv
<1> QED BY <1>1, <1>2 DEF Push, Stores, Sound

\* An address joins a map that is not full.
LEMMA PushSound ==
  ASSUME MapInv, NEW n \in Nodes, NEW k \in Keys, NEW v, Sound(k, v),
         v = None \/ ~Full(k, v), NEW ip \in IPs, used' = used \cup {ip} \/ setup.counts,
         UNCHANGED setup,
         NEW p \in PushIPs(n, k, IF v = None THEN {ip} ELSE v \cup {ip})
  PROVE  p \in Push /\ Sound(p.key, p.ips)'
<1>1. k \in Nat
  BY SharedAssumption DEF Keys
<1> DEFINE s == IF v = None THEN {ip} ELSE v \cup {ip}
<1>2. p = [node |-> n, key |-> k, ips |-> s, to |-> Stores]
  BY DEF PushIPs
<1>3. s \in SUBSET IPs
  BY DEF Sound
<1>4. k > 0 => Cardinality(s) <= k + 1
  <2>1. CASE v = None
    <3>1. Cardinality({ip}) = 1
      BY FS_Singleton
    <3> QED BY <1>1, <2>1, <3>1
  <2>2. CASE v # None
    <3>1. v \in SUBSET IPs
      BY <2>2 DEF Sound
    <3>2. k > 0 => Cardinality(v) <= k
      BY <1>1, <2>2, <3>1, SizeOfSubset DEF Full
    <3>3. /\ Cardinality(v) \in Nat /\ Cardinality(v \cup {ip}) \in Nat
          /\ Cardinality(v \cup {ip}) <= Cardinality(v) + 1
      BY <3>1, SizeOfSubset, OneMore
    <3> QED BY <1>1, <2>2, <3>2, <3>3
  <2> QED BY <2>1, <2>2
<1>5. ~setup.counts => s \subseteq used'
  BY DEF Sound
<1>6. Sound(k, s)'
  BY <1>3, <1>4, <1>5 DEF Sound
<1>7. p \in Push
  BY <1>2, <1>3 DEF Push, Stores
<1> QED BY <1>2, <1>6, <1>7

\* A map that is full of addresses that connected has more of them than the limit.
LEMMA FullIsOver ==
  ASSUME MapInv, NEW k \in Keys, NEW v, v # None, Sound(k, v), Full(k, v),
         ~setup.counts, k = setup.dev, used' \in SUBSET IPs, used \subseteq used'
  PROVE  Cardinality(used') > setup.dev
<1>1. k \in Nat /\ v \in SUBSET used' /\ v \in SUBSET IPs
  BY SharedAssumption DEF Keys, Sound
<1>2. Cardinality(v) <= Cardinality(used') /\ Cardinality(v) > k
  BY <1>1, NoMore DEF Full
<1> QED BY <1>1, <1>2, SizeOfSubset

LEMMA UsedGrows ==
  ASSUME used' \in SUBSET IPs, used \subseteq used', ~setup.counts, setup \in Setup,
         Cardinality(used) > setup.dev
  PROVE  Cardinality(used') > setup.dev
<1>1. setup.dev \in Nat
  BY SharedAssumption DEF Setup
<1>2. Cardinality(used) <= Cardinality(used') /\ used \in SUBSET IPs
  BY NoMore
<1> QED BY <1>1, <1>2, SizeOfSubset
-----------------------------------------------------------------------------
\* Who is turned away, by the limiter or by the map, comes from one address
\* more than the limit.
LEMMA RefusedSound ==
  ASSUME MapInv, NEW n \in Nodes, NEW ip \in IPs, Connect(n, ip), used' \in SUBSET IPs
  PROVE  RefusedOnlyIfOver'
<1> SUFFICES ASSUME ~setup.counts, refused' PROVE Cardinality(used') > setup.dev
  BY DEF RefusedOnlyIfOver, Connect
<1>1. /\ setup \in Setup /\ limit[n] = setup.dev /\ online[n] \in SUBSET used
      /\ used' = used \cup {ip} /\ limit[n] \in Keys /\ limit[n] # Gone
      /\ setup.dev \in Nat /\ UNCHANGED setup /\ used \in SUBSET IPs
  BY SharedAssumption DEF MapInv, MapsTyped, LimitInv, Connect, Setup
<1>2. CASE refused
  BY <1>1, <1>2, UsedGrows DEF MapInv, RefusedOnlyIfOver
<1>3. CASE ip \notin online[n] /\ Cardinality(online[n]) >= limit[n]
  <2>1. Cardinality(online[n] \cup {ip}) = Cardinality(online[n]) + 1
    BY <1>1, <1>3, OneMore
  <2>2. Cardinality(online[n] \cup {ip}) <= Cardinality(used')
    BY <1>1, NoMore
  <2>3. Cardinality(online[n]) \in Nat /\ Cardinality(used') \in Nat
    BY <1>1, SizeOfSubset
  <2> QED BY <1>1, <1>3, <2>1, <2>2, <2>3
<1>4. CASE Found(n, limit[n]) # None /\ Full(limit[n], Found(n, limit[n]))
  <2>1. Sound(limit[n], Found(n, limit[n]))
    BY <1>1, FoundSound
  <2> QED BY <1>1, <1>4, <2>1, FullIsOver
<1> QED BY <1>2, <1>3, <1>4 DEF Connect, GlobalLimit, Refuse

LEMMA ConnectMaps ==
  ASSUME MapInv, NEW n \in Nodes, NEW ip \in IPs, Connect(n, ip)
  PROVE  MapInv'
<1>1. /\ UNCHANGED <<setup, limit, answer, cache, redis>>
      /\ limit[n] \in Keys
      /\ used' = used \cup {ip} \/ setup.counts
  BY DEF MapInv, MapsTyped, Connect, GlobalLimit, panel, global
<1>2. used' \in SUBSET IPs /\ (~setup.counts => used \subseteq used') /\ refused' \in BOOLEAN
  BY DEF MapInv, MapsTyped, Connect, GlobalLimit, Refuse
<1>3. /\ online' \in [Nodes -> SUBSET IPs]
      /\ \A m \in Nodes : online'[m] \subseteq online[m] \cup {ip}
  <2>1. online \in [Nodes -> SUBSET IPs]
    BY DEF MapInv, MapsTyped
  <2>2. UNCHANGED online \/ online' = [online EXCEPT ![n] = online[n] \cup {ip}]
    BY DEF Connect, Set
  <2> QED BY <2>1, <2>2
<1>4. LimitInv'
  BY <1>1, <1>3 DEF MapInv, LimitInv
<1>5. RefusedOnlyIfOver'
  BY <1>2, RefusedSound
<1>6. \A k, v : Sound(k, v) => Sound(k, v)'
  BY <1>1, <1>2 DEF Sound
<1>7. \A p \in pushes' : p \in Push /\ Sound(p.key, p.ips)'
  <2> SUFFICES ASSUME NEW p \in pushes' PROVE p \in Push /\ Sound(p.key, p.ips)'
    OBVIOUS
  <2>0. PICK k \in Keys : k = limit[n]
    BY <1>1
  <2> DEFINE v == Found(n, k)
  <2>1. CASE p \in pushes \cup Backfill(n, k)
    <3>1. p \in Push /\ Sound(p.key, p.ips)
      BY <2>1, BackfillSound DEF MapInv, MapsTyped, MapsInv
    <3> QED BY <1>6, <3>1 DEF Push
  <2>2. CASE p \notin pushes \cup Backfill(n, k)
    <3>1. /\ p \in PushIPs(n, k, IF v = None THEN {ip} ELSE v \cup {ip})
          /\ v = None \/ ~Full(k, v)
      BY <2>0, <2>2 DEF Connect, GlobalLimit, global
    <3>2. Sound(k, v)
      BY FoundSound
    <3> QED BY <1>1, <3>1, <3>2, PushSound
  <2> QED BY <2>1, <2>2
<1>8. MapsInv'
  BY <1>1, <1>6, <1>7 DEF MapInv, MapsInv
<1> QED BY <1>1, <1>2, <1>3, <1>4, <1>5, <1>7, <1>8 DEF MapInv, MapsTyped, AnswerTyped

LEMMA LeaveMaps ==
  ASSUME MapInv, NEW n \in Nodes, NEW ip \in IPs, Leave(n, ip)
  PROVE  MapInv'
<1>1. UNCHANGED <<setup, limit, answer, cache, redis, pushes, used, refused>>
  BY DEF Leave, panel, global, history
<1>2. /\ online' \in [Nodes -> SUBSET IPs]
      /\ \A m \in Nodes : online'[m] \subseteq online[m]
  BY DEF MapInv, MapsTyped, Leave, Set
<1> QED BY <1>1, <1>2
    DEF MapInv, MapsTyped, AnswerTyped, MapsInv, Sound, LimitInv, RefusedOnlyIfOver

LEMMA NextMaps == ASSUME MapInv, [Next]_vars PROVE MapInv'
<1>1. CASE UNCHANGED vars
  BY <1>1 DEF vars, panel, global, history, MapInv, MapsTyped, AnswerTyped, MapsInv, Sound,
              LimitInv, RefusedOnlyIfOver
<1>2. CASE Next
  BY <1>2, PanelMaps, ConnectMaps, LeaveMaps, WriteMaps, ExpireMaps DEF Next
<1> QED BY <1>1, <1>2

LEMMA MapInvariant == Spec => []MapInv
BY InitMaps, NextMaps, PTL DEF Spec

\* Whatever number of nodes read, extend and write back copies of the shared
\* map, in any order and with any failures, none holds more than one address
\* above the limit.
THEOREM MapsStayBounded == Spec => []GlobalMapBounded
<1>1. MapInv => GlobalMapBounded
  BY DEF MapInv, MapsInv, Sound, GlobalMapBounded, Copies, Keys, MapsTyped, Push
<1> QED BY <1>1, MapInvariant, PTL

\* A user with no more addresses than the device limit is never turned away, by
\* no node's limiter and by no copy of the map.
THEOREM NobodyRefusedEarly == Spec => []RefusedOnlyIfOver
<1>1. MapInv => RefusedOnlyIfOver
  BY DEF MapInv
<1> QED BY <1>1, MapInvariant, PTL
-----------------------------------------------------------------------------
(* The panel's count and the nodes' reports.                               *)

PanelTyped ==
  /\ setup \in Setups /\ alive \in [Nodes -> SUBSET IPs]
  /\ answer \in [Nodes -> Nat \cup {None}]
  /\ last \in [Nodes -> Nat] /\ posting \in [Nodes -> SUBSET IPs]
  /\ report \in [Nodes -> {"no", "sent", "counted"}] /\ counted \in [Nodes -> BOOLEAN]
  /\ faults \in 0..MaxFaults

\* What a node has reported and what the panel knows of it: LastReportOnline is
\* the number of addresses in the last report, a list that was asked for later
\* counts them, and the limiter never holds more than the limit it was given.
Counts(n) ==
  /\ posting[n] # {} => last[n] = Cardinality(posting[n])
  /\ report[n] = "no" <=> last[n] = 0
  /\ report[n] = "counted" => last[n] = Cardinality(alive[n])
  /\ answer[n] # None /\ counted[n] => last[n] <= answer[n]
  /\ IF limit[n] = Gone THEN online[n] = {} /\ last[n] = 0
     ELSE /\ limit[n] >= 1 /\ last[n] <= limit[n]
          /\ Cardinality(online[n]) <= limit[n]

CountInv == \A n \in Nodes : Counts(n)
ShareInv == MapInv /\ PanelTyped /\ CountInv

LEMMA SizeZero == ASSUME NEW s \in SUBSET IPs PROVE Cardinality(s) = 0 <=> s = {}
BY SizeOfSubset, FS_EmptySet

LEMMA AliveSize ==
  ASSUME PanelTyped
  PROVE  /\ AliveIP \in Nat
         /\ \A n \in Nodes : Cardinality(alive[n]) <= AliveIP
<1>1. UNION {alive[n] : n \in Nodes} \in SUBSET IPs
  BY DEF PanelTyped
<1>2. \A n \in Nodes : alive[n] \subseteq UNION {alive[m] : m \in Nodes}
  OBVIOUS
<1> QED BY <1>1, <1>2, SizeOfSubset, NoMore DEF AliveIP

LEMMA CountTypes ==
  ASSUME MapInv, PanelTyped, NEW n \in Nodes
  PROVE  /\ last[n] \in Nat /\ answer[n] \in Nat \cup {None} /\ limit[n] \in Nat \cup {Gone}
         /\ Cardinality(online[n]) \in Nat /\ Cardinality(alive[n]) \in Nat
         /\ Cardinality(posting[n]) \in Nat /\ setup.dev \in Nat /\ setup.dev >= 1
         /\ limit[n] # Gone => limit[n] \in Nat
<1>1. setup.dev \in 1..MaxLimit /\ limit[n] \in Keys \cup {Gone}
  BY DEF MapInv, MapsTyped, Setup
<1>2. online[n] \in SUBSET IPs /\ alive[n] \in SUBSET IPs /\ posting[n] \in SUBSET IPs
  BY DEF MapInv, MapsTyped, PanelTyped
<1> QED BY <1>1, <1>2, SharedAssumption, SizeOfSubset DEF PanelTyped, Keys

LEMMA InitCounts == ASSUME Init PROVE PanelTyped /\ CountInv
<1>1. PanelTyped
  BY SharedAssumption DEF Init, PanelTyped
<1>2. setup.dev \in 1..MaxLimit /\ setup.dev # Gone
  BY SharedAssumption DEF Init, Setup
<1>3. CountInv
  BY <1>2, SharedAssumption, FS_EmptySet DEF Init, CountInv, Counts
<1> QED BY <1>1, <1>3

\* What belongs to another node stays.
LEMMA CountsStay ==
  ASSUME NEW n \in Nodes, Counts(n), alive'[n] = alive[n], answer'[n] = answer[n],
         last'[n] = last[n], posting'[n] = posting[n], limit'[n] = limit[n],
         online'[n] = online[n], report'[n] = report[n], counted'[n] = counted[n]
  PROVE  Counts(n)'
BY DEF Counts

LEMMA BeginReportCounts ==
  ASSUME ShareInv, NEW n \in Nodes, BeginReport(n) PROVE (PanelTyped /\ CountInv)'
<1>1. /\ posting' = [posting EXCEPT ![n] = online[n]]
      /\ last' = [last EXCEPT ![n] = Cardinality(online[n])]
      /\ counted' = [counted EXCEPT ![n] = (online[n] = {})]
      /\ report' = [report EXCEPT ![n] = IF online[n] = {} THEN "no" ELSE "sent"]
      /\ UNCHANGED <<setup, alive, answer, limit, online, faults>>
  BY DEF BeginReport, Set, PanelOnly
<1>2. online[n] \in SUBSET IPs /\ Cardinality(online[n]) \in Nat /\ (Cardinality(online[n]) = 0 <=> online[n] = {})
  BY SizeOfSubset, SizeZero DEF ShareInv, MapInv, MapsTyped
<1>3. PanelTyped'
  <2>1. counted' \in [Nodes -> BOOLEAN]
    BY <1>1 DEF ShareInv, PanelTyped
  <2> QED BY <1>1, <1>2, <2>1 DEF ShareInv, PanelTyped
<1>4. ASSUME NEW m \in Nodes PROVE Counts(m)'
  <2>1. CASE m # n
    BY <1>1, <2>1, CountsStay DEF ShareInv, PanelTyped, CountInv
  <2>2. CASE m = n
    <3>1. /\ posting'[m] = online[m] /\ last'[m] = Cardinality(online[m])
          /\ counted'[m] = (online[m] = {})
          /\ report'[m] = IF online[m] = {} THEN "no" ELSE "sent"
      BY <1>1, <2>2 DEF ShareInv, PanelTyped
    <3>2. Counts(m) /\ (answer[m] \in Nat \/ answer[m] = None)
      BY DEF ShareInv, CountInv, PanelTyped
    <3>3. UNCHANGED <<alive, answer, limit, online>>
      BY <1>1
    <3>4. CASE online[m] = {}
      <4>1. /\ posting'[m] = {} /\ last'[m] = 0 /\ report'[m] = "no"
        BY <1>2, <2>2, <3>1, <3>4
      <4> QED BY <3>2, <3>3, <3>4, <4>1, CountTypes DEF Counts, ShareInv
    <3>5. CASE online[m] # {}
      <4>1. ~counted'[m]
        BY <3>1, <3>5, Zenon
      <4>2. /\ posting'[m] = online[m] /\ last'[m] = Cardinality(online[m]) /\ last'[m] # 0
            /\ report'[m] = "sent"
        BY <1>2, <2>2, <3>1, <3>5
      <4> QED BY <3>2, <3>3, <3>5, <4>1, <4>2 DEF Counts
    <3> QED BY <3>4, <3>5
  <2> QED BY <2>1, <2>2
<1> QED BY <1>3, <1>4 DEF CountInv

LEMMA EndReportCounts ==
  ASSUME ShareInv, NEW n \in Nodes, EndReport(n) PROVE (PanelTyped /\ CountInv)'
<1>1. /\ posting[n] # {} /\ posting' = [posting EXCEPT ![n] = {}]
      /\ \/ /\ alive' = [alive EXCEPT ![n] = posting[n]]
            /\ report' = [report EXCEPT ![n] = "counted"] /\ UNCHANGED faults
         \/ faults < MaxFaults /\ faults' = faults + 1 /\ UNCHANGED <<alive, report>>
      /\ UNCHANGED <<setup, answer, last, limit, online, counted>>
  BY DEF EndReport, Set, PanelOnly
<1>2. faults' \in 0..MaxFaults
  BY <1>1, SharedAssumption DEF ShareInv, PanelTyped
<1>3. PanelTyped'
  BY <1>1, <1>2 DEF ShareInv, PanelTyped
<1>4. ASSUME NEW m \in Nodes PROVE Counts(m)'
  <2>1. CASE m # n
    BY <1>1, <2>1, CountsStay DEF ShareInv, PanelTyped, CountInv
  <2>2. CASE m = n
    <3>1. /\ posting'[m] = {} /\ posting[m] \in SUBSET IPs
          /\ \/ alive'[m] = posting[m] /\ report'[m] = "counted"
             \/ alive'[m] = alive[m] /\ report'[m] = report[m]
      BY <1>1, <2>2 DEF ShareInv, PanelTyped
    <3>2. Counts(m) /\ last[m] = Cardinality(posting[m]) /\ last[m] # 0
      BY <1>1, <2>2, <3>1, SizeZero DEF ShareInv, CountInv, Counts
    <3> QED BY <1>1, <3>1, <3>2 DEF Counts
  <2> QED BY <2>1, <2>2
<1> QED BY <1>3, <1>4 DEF CountInv

LEMMA ForgetCounts ==
  ASSUME ShareInv, NEW n \in Nodes, Forget(n) PROVE (PanelTyped /\ CountInv)'
<1>1. /\ alive' = [alive EXCEPT ![n] = {}]
      /\ report' = [report EXCEPT ![n] = IF report[n] = "counted" THEN "sent" ELSE report[n]]
      /\ UNCHANGED <<setup, answer, last, posting, limit, online, counted, faults>>
  BY DEF Forget, Set, PanelOnly
<1>2. PanelTyped'
  BY <1>1 DEF ShareInv, PanelTyped
<1>3. ASSUME NEW m \in Nodes PROVE Counts(m)'
  <2>1. CASE m # n
    BY <1>1, <2>1, CountsStay DEF ShareInv, PanelTyped, CountInv
  <2>2. CASE m = n
    <3>1. report'[m] = IF report[m] = "counted" THEN "sent" ELSE report[m]
      BY <1>1, <2>2 DEF ShareInv, PanelTyped
    <3> QED BY <1>1, <3>1 DEF ShareInv, CountInv, Counts
  <2> QED BY <2>1, <2>2
<1> QED BY <1>2, <1>3 DEF CountInv

\* The answer counts the addresses of a report that has arrived.
LEMMA FetchCounts ==
  ASSUME ShareInv, NEW n \in Nodes, Fetch(n) PROVE (PanelTyped /\ CountInv)'
<1>1. /\ answer' = [answer EXCEPT ![n] = AliveIP]
      /\ counted' = [counted EXCEPT ![n] = (report[n] # "sent")]
      /\ UNCHANGED <<setup, alive, last, posting, limit, online, report, faults>>
  BY DEF Fetch, Set, PanelOnly
<1>2. AliveIP \in Nat /\ Cardinality(alive[n]) <= AliveIP
  BY AliveSize DEF ShareInv
<1>3. PanelTyped'
  <2>1. counted' \in [Nodes -> BOOLEAN]
    BY <1>1 DEF ShareInv, PanelTyped
  <2> QED BY <1>1, <1>2, <2>1 DEF ShareInv, PanelTyped
<1>4. ASSUME NEW m \in Nodes PROVE Counts(m)'
  <2>1. CASE m # n
    BY <1>1, <2>1, CountsStay DEF ShareInv, PanelTyped, CountInv
  <2>2. CASE m = n
    <3>1. /\ answer'[m] = AliveIP /\ counted'[m] = (report[m] # "sent")
          /\ report[m] \in {"no", "sent", "counted"}
      BY <1>1, <2>2 DEF ShareInv, PanelTyped
    <3>2. Counts(m) /\ last[m] \in Nat
      BY CountTypes DEF ShareInv, CountInv
    <3>3. UNCHANGED <<alive, last, posting, limit, online, report>>
      BY <1>1
    <3>4. counted'[m] => report[m] # "sent"
      BY <3>1, Zenon
    <3>5. counted'[m] => last[m] <= answer'[m]
      <4>1. counted'[m] => report[m] = "no" \/ report[m] = "counted"
        BY <3>1, <3>4
      <4> QED BY <1>2, <2>2, <3>1, <3>2, <4>1 DEF Counts
    <3> QED BY <3>2, <3>3, <3>5 DEF Counts
  <2> QED BY <2>1, <2>2
<1> QED BY <1>3, <1>4 DEF CountInv

\* What a list does to a node's limit.
LEMMA ApplyShape ==
  ASSUME ShareInv, NEW n \in Nodes, Apply(n)
  PROVE  \E l \in Keys \cup {Gone} :
           /\ l = LocalLimit(setup.dev, answer[n], last[n]) /\ limit' = [limit EXCEPT ![n] = l]
           /\ online' = IF l = limit[n] THEN online ELSE [online EXCEPT ![n] = {}]
           /\ answer[n] \in Nat /\ posting[n] = {}
           /\ last' = [last EXCEPT ![n] = 0] /\ answer' = [answer EXCEPT ![n] = None]
           /\ counted' = [counted EXCEPT ![n] = TRUE] /\ report' = [report EXCEPT ![n] = "no"]
           /\ UNCHANGED <<setup, alive, posting, faults>>
<1> DEFINE l == LocalLimit(setup.dev, answer[n], last[n])
<1>1. l \in Keys \cup {Gone}
  BY DEF Apply
<1>2. answer[n] \in Nat /\ posting[n] = {} /\ limit \in [Nodes -> Keys \cup {Gone}]
  BY DEF Apply, Locked, ShareInv, PanelTyped, MapInv, MapsTyped
<1>3. /\ IF l = limit[n] THEN UNCHANGED <<limit, online>>
         ELSE limit' = [limit EXCEPT ![n] = l] /\ online' = [online EXCEPT ![n] = {}]
      /\ last' = [last EXCEPT ![n] = 0] /\ answer' = [answer EXCEPT ![n] = None]
      /\ counted' = [counted EXCEPT ![n] = TRUE] /\ report' = [report EXCEPT ![n] = "no"]
      /\ UNCHANGED <<setup, alive, posting, faults>>
  BY DEF Apply, Set, ClearLast, PanelOnly
<1> HIDE DEF l
<1>4. limit' = [limit EXCEPT ![n] = l]
  BY <1>2, <1>3
<1> QED BY <1>1, <1>2, <1>3, <1>4 DEF l

\* A limit of the list is a positive number.
LEMMA LimitPositive ==
  ASSUME NEW dev \in Nat, dev >= 1, NEW count \in Nat, NEW mine \in Nat,
         LocalLimit(dev, count, mine) # Gone
  PROVE  LocalLimit(dev, count, mine) \in Nat /\ LocalLimit(dev, count, mine) >= 1
BY DEF LocalLimit

LEMMA ApplyCounts ==
  ASSUME ShareInv, NEW n \in Nodes, Apply(n) PROVE (PanelTyped /\ CountInv)'
<1>1. PICK l \in Keys \cup {Gone} :
        /\ l = LocalLimit(setup.dev, answer[n], last[n]) /\ limit' = [limit EXCEPT ![n] = l]
        /\ online' = IF l = limit[n] THEN online ELSE [online EXCEPT ![n] = {}]
        /\ answer[n] \in Nat /\ posting[n] = {}
        /\ last' = [last EXCEPT ![n] = 0] /\ answer' = [answer EXCEPT ![n] = None]
        /\ counted' = [counted EXCEPT ![n] = TRUE] /\ report' = [report EXCEPT ![n] = "no"]
        /\ UNCHANGED <<setup, alive, posting, faults>>
  BY ApplyShape
<1>2. PanelTyped'
  BY <1>1 DEF ShareInv, PanelTyped
<1>3. ASSUME NEW m \in Nodes PROVE Counts(m)'
  <2>1. limit \in [Nodes -> Keys \cup {Gone}] /\ online \in [Nodes -> SUBSET IPs]
    BY DEF ShareInv, MapInv, MapsTyped
  <2>2. CASE m # n
    BY <1>1, <2>1, <2>2, CountsStay DEF ShareInv, PanelTyped, CountInv
  <2>3. CASE m = n
    <3>1. /\ last'[m] = 0 /\ answer'[m] = None /\ counted'[m] = TRUE /\ report'[m] = "no"
          /\ limit'[m] = l /\ posting'[m] = {}
          /\ online'[m] = IF l = limit[m] THEN online[m] ELSE {}
      BY <1>1, <2>1, <2>3 DEF ShareInv, PanelTyped
    <3>2. l # Gone => l \in Nat /\ l >= 1
      BY <1>1, LimitPositive, CountTypes DEF ShareInv
    <3>3. Counts(m) /\ Cardinality({}) = 0
      BY FS_EmptySet DEF ShareInv, CountInv
    <3> QED BY <3>1, <3>2, <3>3 DEF Counts
  <2> QED BY <2>2, <2>3
<1> QED BY <1>2, <1>3 DEF CountInv

\* An address joins only below the limit.
LEMMA ConnectCounts ==
  ASSUME ShareInv, NEW n \in Nodes, NEW ip \in IPs, Connect(n, ip) PROVE (PanelTyped /\ CountInv)'
<1>1. /\ limit[n] # Gone /\ UNCHANGED <<setup, alive, answer, last, posting, limit, report, counted>>
      /\ \/ UNCHANGED online
         \/ /\ online' = [online EXCEPT ![n] = online[n] \cup {ip}]
            /\ ip \in online[n] \/ ~(limit[n] > 0) \/ ~(Cardinality(online[n]) >= limit[n])
      /\ faults' \in {faults, faults + 1} /\ (faults' # faults => faults < MaxFaults)
  BY DEF Connect, GlobalLimit, Set, panel
<1>2. faults' \in 0..MaxFaults
  BY <1>1, SharedAssumption DEF ShareInv, PanelTyped
<1>3. PanelTyped'
  BY <1>1, <1>2 DEF ShareInv, PanelTyped
<1>4. ASSUME NEW m \in Nodes PROVE Counts(m)'
  <2>1. online \in [Nodes -> SUBSET IPs] /\ Counts(m)
    BY DEF ShareInv, MapInv, MapsTyped, CountInv
  <2>2. CASE m # n \/ UNCHANGED online
    BY <1>1, <2>1, <2>2, CountsStay
  <2>3. CASE m = n /\ online' # online
    <3>1. online'[m] = online[m] \cup {ip}
      BY <1>1, <2>1, <2>3
    <3>2. /\ limit[m] \in Nat /\ limit[m] >= 1 /\ Cardinality(online[m]) \in Nat
          /\ Cardinality(online[m]) <= limit[m]
      BY <1>1, <2>1, <2>3, CountTypes DEF ShareInv, Counts
    <3>3. Cardinality(online[m] \cup {ip}) <= limit[m]
      <4>1. CASE ip \in online[m]
        <5>1. online[m] \cup {ip} = online[m]
          BY <4>1
        <5> QED BY <3>2, <5>1
      <4>2. CASE ip \notin online[m]
        <5>1. Cardinality(online[m]) < limit[m]
          BY <1>1, <2>3, <3>2, <4>2
        <5>2. Cardinality(online[m] \cup {ip}) = Cardinality(online[m]) + 1
          BY <2>1, <4>2, OneMore
        <5> QED BY <3>2, <5>1, <5>2
      <4> QED BY <4>1, <4>2
    <3> QED BY <1>1, <2>1, <2>3, <3>1, <3>3 DEF Counts
  <2> QED BY <2>2, <2>3
<1> QED BY <1>3, <1>4 DEF CountInv

LEMMA LeaveCounts ==
  ASSUME ShareInv, NEW n \in Nodes, NEW ip \in IPs, Leave(n, ip) PROVE (PanelTyped /\ CountInv)'
<1>1. /\ online' = [online EXCEPT ![n] = online[n] \ {ip}] /\ ip \in online[n]
      /\ UNCHANGED <<setup, alive, answer, last, posting, limit, report, counted, faults>>
  BY DEF Leave, Set, panel, history
<1>2. PanelTyped'
  BY <1>1 DEF ShareInv, PanelTyped
<1>3. ASSUME NEW m \in Nodes PROVE Counts(m)'
  <2>1. online \in [Nodes -> SUBSET IPs] /\ Counts(m)
    BY DEF ShareInv, MapInv, MapsTyped, CountInv
  <2>2. CASE m # n
    BY <1>1, <2>1, <2>2, CountsStay
  <2>3. CASE m = n
    <3>1. online'[m] = online[m] \ {ip} /\ online[m] # {}
      BY <1>1, <2>1, <2>3
    <3>2. /\ Cardinality(online[m] \ {ip}) <= Cardinality(online[m])
          /\ Cardinality(online[m] \ {ip}) \in Nat /\ Cardinality(online[m]) \in Nat
      BY <2>1, NoMore, SizeOfSubset
    <3>3. limit[m] # Gone => limit[m] \in Nat
      BY CountTypes DEF ShareInv
    <3> QED BY <1>1, <2>1, <3>1, <3>2, <3>3 DEF Counts
  <2> QED BY <2>2, <2>3
<1> QED BY <1>2, <1>3 DEF CountInv

LEMMA StoreCounts ==
  ASSUME ShareInv,
         \/ \E p \in pushes : Write(p)
         \/ \E k \in Keys : ExpireRedis(k) \/ \E n \in Nodes : ExpireCache(n, k)
         \/ UNCHANGED vars
  PROVE  (PanelTyped /\ CountInv)'
<1>1. /\ UNCHANGED <<setup, alive, answer, last, posting, limit, online, report, counted>>
      /\ faults' \in {faults, faults + 1} /\ (faults' # faults => faults < MaxFaults)
  BY DEF Write, ExpireRedis, ExpireCache, GlobalOnly, vars, panel, history
<1>2. faults' \in 0..MaxFaults
  BY <1>1, SharedAssumption DEF ShareInv, PanelTyped
<1>3. PanelTyped'
  BY <1>1, <1>2 DEF ShareInv, PanelTyped
<1> QED BY <1>1, <1>3, CountsStay DEF ShareInv, CountInv

LEMMA NextShare == ASSUME ShareInv, [Next]_vars PROVE ShareInv'
<1>1. MapInv'
  BY NextMaps DEF ShareInv
<1>2. ASSUME NEW n \in Nodes, Monitors(n) \/ Forget(n) PROVE (PanelTyped /\ CountInv)'
  BY <1>2, BeginReportCounts, EndReportCounts, FetchCounts, ApplyCounts, ForgetCounts DEF Monitors
<1> QED BY <1>1, <1>2, ConnectCounts, LeaveCounts, StoreCounts DEF Next, ShareInv

LEMMA ShareInvariant == Spec => []ShareInv
<1>1. Init => ShareInv
  BY InitMaps, InitCounts DEF ShareInv
<1> QED BY <1>1, NextShare, PTL DEF Spec

\* The panel's count, the reports and the limits taken from them are well typed
\* (ParseUserListResponse, ReportNodeOnlineUsers): a limit is never negative,
\* and a report in progress is what LastReportOnline tells.
THEOREM SharedDevicesTypes == Spec => []TypeOK
<1>1. ShareInv => TypeOK
  BY DEF ShareInv, MapInv, MapsTyped, PanelTyped, CountInv, Counts, TypeOK
<1> QED BY <1>1, ShareInvariant, PTL

\* Only a list changes a node's limit.
LEMMA OnlyApplyLimits ==
  ASSUME ShareInv, [Next]_vars, NEW n \in Nodes, limit'[n] # limit[n]
  PROVE  Apply(n)
<1>1. \A m \in Nodes : BeginReport(m) \/ EndReport(m) \/ Forget(m) \/ Fetch(m) => UNCHANGED limit
  BY DEF BeginReport, EndReport, Forget, Fetch
<1>2. \A m \in Nodes, ip \in IPs : Connect(m, ip) \/ Leave(m, ip) => UNCHANGED limit
  BY DEF Connect, Leave, panel
<1>3. (\E p \in pushes : Write(p)) \/ UNCHANGED vars => UNCHANGED limit
  BY DEF Write, GlobalOnly, vars, panel
<1>4. \A k \in Keys : ExpireRedis(k) \/ (\E m \in Nodes : ExpireCache(m, k)) => UNCHANGED limit
  BY DEF ExpireRedis, ExpireCache, GlobalOnly, panel
<1>5. PICK m \in Nodes : Apply(m)
  BY <1>1, <1>2, <1>3, <1>4 DEF Next, Monitors
<1>6. m = n
  <2> SUFFICES ASSUME m # n PROVE FALSE
    OBVIOUS
  <2>1. PICK l \in Keys \cup {Gone} : limit' = [limit EXCEPT ![m] = l]
    BY <1>5, ApplyShape
  <2> QED BY <2>1 DEF ShareInv, MapInv, MapsTyped
<1> QED BY <1>5, <1>6

\* A list whose count misses nothing of the node's report never raises the
\* node's limit above the user's own (ParseUserListResponse).
THEOREM LimitsStayWithin == Spec => LimitWithinPanel
<1>1. ASSUME ShareInv, [Next]_vars, NEW n \in Nodes, counted[n], limit'[n] # Gone, limit'[n] > setup.dev
      PROVE  limit[n] # Gone /\ limit'[n] <= limit[n]
  <2>0. limit'[n] \in Keys
    <3>1. MapInv'
      BY <1>1, NextMaps DEF ShareInv
    <3> QED BY <1>1, <3>1 DEF MapInv, MapsTyped
  <2>1. CASE limit'[n] = limit[n]
    BY <1>1, <2>0, <2>1 DEF Keys
  <2>2. CASE limit'[n] # limit[n]
    <3>1. PICK l \in Keys \cup {Gone} :
            /\ l = LocalLimit(setup.dev, answer[n], last[n]) /\ limit' = [limit EXCEPT ![n] = l]
            /\ answer[n] \in Nat
      BY <1>1, <2>2, OnlyApplyLimits, ApplyShape
    <3>2. limit'[n] = l
      BY <1>1, <3>1 DEF ShareInv, MapInv, MapsTyped
    <3>3. last[n] <= answer[n] /\ Counts(n) /\ answer[n] # None
      BY <1>1, <3>1, SharedAssumption DEF ShareInv, CountInv, Counts
    <3>4. last[n] \in Nat /\ setup.dev \in Nat /\ setup.dev >= 1
      BY <1>1, CountTypes DEF ShareInv
    <3>5. l = last[n] /\ last[n] > 0
      BY <1>1, <3>1, <3>2, <3>3, <3>4 DEF LocalLimit
    <3> QED BY <3>2, <3>3, <3>4, <3>5 DEF Counts
  <2> QED BY <2>1, <2>2
<1>2. ASSUME ShareInv, [Next]_vars
      PROVE  [\A n \in Nodes : counted[n] /\ limit'[n] # Gone /\ limit'[n] > setup.dev
                => limit[n] # Gone /\ limit'[n] <= limit[n]]_vars
  BY <1>1, <1>2
<1> QED BY <1>2, ShareInvariant, PTL DEF Spec, LimitWithinPanel

\* A node drops a user only if its last report does not name the user, whether
\* or not the report has arrived (ParseUserListResponse, ReportNodeOnlineUsers).
THEOREM ReportedUsersStay == Spec => ReportedUserKept
<1>1. ASSUME ShareInv, [Next]_vars, NEW n \in Nodes, limit[n] # Gone, limit'[n] = Gone
      PROVE  report[n] = "no"
  <2>1. PICK l \in Keys \cup {Gone} :
          /\ l = LocalLimit(setup.dev, answer[n], last[n]) /\ limit' = [limit EXCEPT ![n] = l]
          /\ answer[n] \in Nat
    BY <1>1, OnlyApplyLimits, ApplyShape
  <2>2. LocalLimit(setup.dev, answer[n], last[n]) = Gone
    BY <1>1, <2>1 DEF ShareInv, MapInv, MapsTyped
  <2>3. last[n] \in Nat /\ setup.dev \in Nat /\ setup.dev >= 1
    BY <1>1, CountTypes DEF ShareInv
  <2>4. last[n] = 0
    BY <2>1, <2>2, <2>3, SharedAssumption DEF LocalLimit
  <2> QED BY <1>1, <2>4 DEF ShareInv, CountInv, Counts
<1>2. ASSUME ShareInv, [Next]_vars
      PROVE  [\A n \in Nodes : limit[n] # Gone /\ limit'[n] = Gone => report[n] = "no"]_vars
  BY <1>1, <1>2
<1> QED BY <1>2, ShareInvariant, PTL DEF Spec, ReportedUserKept
=============================================================================
