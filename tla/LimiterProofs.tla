---------------------------- MODULE LimiterProofs ----------------------------
(***************************************************************************)
(* Proofs about the limiter: its state is well typed however calls         *)
(* overlap, and it does what it promises when they do not.                 *)
(***************************************************************************)
EXTENDS Limiter, FiniteSetTheorems, TLAPS

\* Each goroutine stays in the operations that are its own, and holds the limits
\* it is about to store or to take a rate from.
PlaceInv ==
  /\ \A c \in Callers :
       pc[c] \in {"idle", "load", "touch", "map", "prune", "drop", "count", "store", "take"}
  /\ pc[Sweeper] \in {"idle", "prune", "drop", "forget", "clean", "count", "stale", "offline",
                      "dropbucket", "orphan"}
  /\ pc[Admin] \in {"idle", "write", "rate", "range", "delbucket", "delonline"}
HoldInv ==
  /\ \A c \in Callers : At(c, "touch") => loc[c].u # None
  /\ At(Admin, "write") => applied # None
  /\ At(Admin, "rate") => loc[Admin].u # None
TypeInv == TypeOK /\ PlaceInv /\ HoldInv

LEMMA ProcFacts ==
  /\ Sweeper \in Procs /\ Admin \in Procs /\ Callers \subseteq Procs
  /\ Sweeper \notin Callers /\ Admin \notin Callers /\ Sweeper # Admin
BY ProcsAssumption DEF Procs

LEMMA LocTypes ==
  ASSUME TypeInv, NEW p \in Procs
  PROVE  /\ loc[p] \in Locals /\ loc[p].at \in Nat /\ loc[p].ip \in IPs \cup {None}
         /\ loc[p].node \in Nat /\ loc[p].u \in Info \cup {None} /\ loc[p].map \in Maps \cup {None}
         /\ loc[p].todo \subseteq IPs /\ loc[p].key \in IPs \cup {None} /\ loc[p].n \in Nat
         /\ loc[p].for \in {"bucket", "report", "clean"} /\ pc[p] \in Labels
<1>1. loc[p] \in Locals /\ pc[p] \in Labels
  BY DEF TypeInv, TypeOK
<1> QED BY <1>1 DEF Locals

LEMMA NoLocalsType == NoLocals \in Locals
BY DEF NoLocals, Locals

\* A step of a goroutine changes nobody else's place and locals.
Moves(p, l, r) == pc' = [pc EXCEPT ![p] = l] /\ loc' = [loc EXCEPT ![p] = r]

LEMMA MovesPoint ==
  ASSUME TypeInv, NEW p \in Procs, NEW l \in Labels, NEW r \in Locals, Moves(p, l, r)
  PROVE  /\ pc' \in [Procs -> Labels] /\ loc' \in [Procs -> Locals]
         /\ pc'[p] = l /\ loc'[p] = r
         /\ \A q \in Procs \ {p} : pc'[q] = pc[q] /\ loc'[q] = loc[q]
BY DEF TypeInv, TypeOK, Moves

LEMMA MovesPlace ==
  ASSUME TypeInv, NEW p \in Procs, NEW l \in Labels, NEW r \in Locals, Moves(p, l, r),
         p \in Callers =>
           l \in {"idle", "load", "touch", "map", "prune", "drop", "count", "store", "take"},
         p = Sweeper =>
           l \in {"idle", "prune", "drop", "forget", "clean", "count", "stale", "offline",
                  "dropbucket", "orphan"},
         p = Admin => l \in {"idle", "write", "rate", "range", "delbucket", "delonline"},
         l \in {"touch", "rate"} => r.u # None,
         IF l = "write" THEN applied' # None ELSE p = Admin \/ applied' = applied
  PROVE  PlaceInv' /\ HoldInv'
<1>1. /\ pc'[p] = l /\ loc'[p] = r
      /\ \A q \in Procs \ {p} : pc'[q] = pc[q] /\ loc'[q] = loc[q]
  BY MovesPoint
<1>2. PlaceInv'
  BY <1>1, ProcFacts DEF TypeInv, PlaceInv
<1>3. HoldInv'
  BY <1>1, ProcFacts DEF TypeInv, HoldInv, At
<1> QED BY <1>2, <1>3

LEMMA RateType == ASSUME NEW a \in Nat, NEW b \in Nat PROVE Rate(a, b) \in Nat
BY DEF Rate
-----------------------------------------------------------------------------
(* The shapes of the steps: where they lead, and with which locals.        *)

LEMMA PruneKeyMoves ==
  ASSUME TypeInv, NEW p \in Procs, PruneKey(p)
  PROVE  \E i \in loc[p].todo, r \in Locals, l \in {"drop", "prune"} :
           /\ Moves(p, l, r) /\ At(p, "prune") /\ Local
           /\ r.at = loc[p].at /\ r.ip = loc[p].ip /\ r.node = loc[p].node /\ r.u = loc[p].u
           /\ r.map = loc[p].map /\ r.for = loc[p].for /\ r.todo = loc[p].todo \ {i}
           /\ IF LastSeen(p, i) # None /\ Expired(LastSeen(p, i), loc[p].at)
                THEN l = "drop" /\ r.key = i /\ r.n = loc[p].n
                ELSE /\ l = "prune"
                     /\ r.n = IF LastSeen(p, i) = None THEN loc[p].n ELSE loc[p].n + 1
<1>1. PICK i \in loc[p].todo :
        IF LastSeen(p, i) # None /\ Expired(LastSeen(p, i), loc[p].at)
          THEN /\ Goto(p, "drop")
               /\ loc' = [loc EXCEPT ![p].todo = @ \ {i}, ![p].key = i]
          ELSE /\ UNCHANGED pc
               /\ loc' = [loc EXCEPT ![p].todo = @ \ {i},
                                     ![p].n = IF LastSeen(p, i) = None THEN @ ELSE @ + 1]
  BY DEF PruneKey
<1>2. At(p, "prune") /\ Local /\ i \in IPs
  BY LocTypes DEF PruneKey
<1>3. CASE LastSeen(p, i) # None /\ Expired(LastSeen(p, i), loc[p].at)
  <2> DEFINE r == [loc[p] EXCEPT !.todo = @ \ {i}, !.key = i]
  <2>1. loc' = [loc EXCEPT ![p] = r]
    BY <1>1, <1>3
  <2>2. /\ r \in Locals
        /\ r.at = loc[p].at /\ r.ip = loc[p].ip /\ r.node = loc[p].node /\ r.u = loc[p].u
        /\ r.map = loc[p].map /\ r.for = loc[p].for /\ r.todo = loc[p].todo \ {i}
        /\ r.key = i /\ r.n = loc[p].n
    BY <1>2, LocTypes DEF Locals
  <2> QED BY <1>1, <1>2, <1>3, <2>1, <2>2 DEF Moves, Goto
<1>4. CASE ~(LastSeen(p, i) # None /\ Expired(LastSeen(p, i), loc[p].at))
  <2> DEFINE m == IF LastSeen(p, i) = None THEN loc[p].n ELSE loc[p].n + 1
             r == [loc[p] EXCEPT !.todo = @ \ {i}, !.n = m]
  <2>1. loc' = [loc EXCEPT ![p] = r]
    BY <1>1, <1>4
  <2>2. m \in Nat
    BY LocTypes
  <2>3. /\ r \in Locals
        /\ r.at = loc[p].at /\ r.ip = loc[p].ip /\ r.node = loc[p].node /\ r.u = loc[p].u
        /\ r.map = loc[p].map /\ r.for = loc[p].for /\ r.todo = loc[p].todo \ {i}
        /\ r.n = m
    <3> HIDE DEF m
    <3> QED BY <1>2, <2>2, LocTypes DEF Locals
  <2>4. pc' = [pc EXCEPT ![p] = "prune"]
    BY <1>1, <1>2, <1>4 DEF At, TypeInv, TypeOK
  <2> QED BY <1>2, <1>4, <2>1, <2>3, <2>4 DEF Moves
<1> QED BY <1>3, <1>4

LEMMA CountKeyMoves ==
  ASSUME TypeInv, NEW p \in Procs, CountKey(p)
  PROVE  \E i \in loc[p].todo, r \in Locals :
           /\ Moves(p, "count", r) /\ At(p, "count") /\ Local
           /\ r.at = loc[p].at /\ r.ip = loc[p].ip /\ r.node = loc[p].node /\ r.u = loc[p].u
           /\ r.map = loc[p].map /\ r.for = loc[p].for /\ r.todo = loc[p].todo \ {i}
           /\ r.n = IF LastSeen(p, i) = None THEN loc[p].n ELSE loc[p].n + 1
<1>1. PICK i \in loc[p].todo :
        loc' = [loc EXCEPT ![p].todo = @ \ {i},
                           ![p].n = IF LastSeen(p, i) = None THEN @ ELSE @ + 1]
  BY DEF CountKey
<1> DEFINE m == IF LastSeen(p, i) = None THEN loc[p].n ELSE loc[p].n + 1
           r == [loc[p] EXCEPT !.todo = @ \ {i}, !.n = m]
<1>2. At(p, "count") /\ Local /\ i \in IPs /\ m \in Nat /\ pc' = [pc EXCEPT ![p] = "count"]
  BY LocTypes DEF CountKey, At, TypeInv, TypeOK
<1>3. loc' = [loc EXCEPT ![p] = r]
  BY <1>1
<1>4. /\ r \in Locals
      /\ r.at = loc[p].at /\ r.ip = loc[p].ip /\ r.node = loc[p].node /\ r.u = loc[p].u
      /\ r.map = loc[p].map /\ r.for = loc[p].for /\ r.todo = loc[p].todo \ {i}
      /\ r.n = m
  <2> HIDE DEF m
  <2> QED BY <1>2, LocTypes DEF Locals
<1> QED BY <1>2, <1>3, <1>4 DEF Moves

LEMMA DropKeyMoves ==
  ASSUME TypeInv, NEW p \in Procs, DropKey(p)
  PROVE  \E r \in Locals :
           /\ Moves(p, "prune", r) /\ At(p, "drop")
           /\ seen' = [seen EXCEPT ![loc[p].map][loc[p].key] = None]
           /\ UNCHANGED <<now, nodeLimit, info, hub, online, fresh, applied, admitted, deleted>>
           /\ UNCHANGED budgets /\ dropped' \in BOOLEAN
           /\ r.at = loc[p].at /\ r.ip = loc[p].ip /\ r.node = loc[p].node /\ r.u = loc[p].u
           /\ r.map = loc[p].map /\ r.for = loc[p].for /\ r.todo = loc[p].todo
           /\ r.n = loc[p].n
<1> DEFINE r == [loc[p] EXCEPT !.key = None]
<1>1. /\ r \in Locals
      /\ r.at = loc[p].at /\ r.ip = loc[p].ip /\ r.node = loc[p].node /\ r.u = loc[p].u
      /\ r.map = loc[p].map /\ r.for = loc[p].for /\ r.todo = loc[p].todo /\ r.n = loc[p].n
  BY LocTypes DEF Locals
<1>2. Moves(p, "prune", r)
  BY DEF DropKey, Moves, Goto
<1> QED BY <1>1, <1>2 DEF DropKey

\* A loop begins.
LEMMA AgainMoves ==
  ASSUME TypeInv, NEW p \in Procs, NEW l \in Labels, NEW keys \in SUBSET IPs, Again(p, l, keys)
  PROVE  \E r \in Locals :
           /\ Moves(p, l, r)
           /\ r.at = loc[p].at /\ r.ip = loc[p].ip /\ r.node = loc[p].node /\ r.u = loc[p].u
           /\ r.map = loc[p].map /\ r.for = loc[p].for /\ r.todo = keys /\ r.n = 0
<1> DEFINE r == [loc[p] EXCEPT !.todo = keys, !.n = 0]
<1>1. /\ r \in Locals
      /\ r.at = loc[p].at /\ r.ip = loc[p].ip /\ r.node = loc[p].node /\ r.u = loc[p].u
      /\ r.map = loc[p].map /\ r.for = loc[p].for /\ r.todo = keys /\ r.n = 0
  BY LocTypes DEF Locals
<1> QED BY <1>1 DEF Again, Moves, Goto

\* A step that leaves the locals as they are.
LEMMA StayMoves ==
  ASSUME TypeInv, NEW p \in Procs, NEW l \in Labels, Goto(p, l), UNCHANGED loc
  PROVE  Moves(p, l, loc[p]) /\ loc[p] \in Locals
BY LocTypes DEF Goto, Moves, TypeInv, TypeOK

LEMMA ReturnMoves ==
  ASSUME NEW p \in Procs, Return(p) PROVE Moves(p, "idle", NoLocals) /\ NoLocals \in Locals
BY NoLocalsType DEF Return, Goto, Moves

LEMMA ConnectMoves ==
  ASSUME TypeInv, NEW c \in Callers, Connect(c)
  PROVE  \E r \in Locals :
           /\ Moves(c, "load", r) /\ Enter(c, "idle")
           /\ r.at = now /\ r.ip \in IPs /\ r.node = nodeLimit
<1>1. PICK i \in IPs : loc' = [loc EXCEPT ![c].at = now, ![c].ip = i, ![c].node = nodeLimit]
  BY DEF Connect
<1> DEFINE r == [loc[c] EXCEPT !.at = now, !.ip = i, !.node = nodeLimit]
<1>2. now \in Nat /\ nodeLimit \in Nat /\ c \in Procs
  BY ProcFacts, LimitsAssumption DEF TypeInv, TypeOK, Time
<1>3. r \in Locals /\ r.at = now /\ r.ip \in IPs /\ r.node = nodeLimit
  BY <1>2, LocTypes DEF Locals
<1> QED BY <1>1, <1>3 DEF Connect, Moves, Goto

LEMMA LoadUserMoves ==
  ASSUME TypeInv, NEW c \in Callers, LoadUser(c)
  PROVE  \E r \in Locals :
           /\ Moves(c, IF info = None THEN "map" ELSE "touch", r) /\ At(c, "load")
           /\ r.at = loc[c].at /\ r.ip = loc[c].ip /\ r.node = loc[c].node /\ r.u = info
<1> DEFINE r == [loc[c] EXCEPT !.u = info]
<1>1. c \in Procs /\ info \in Info \cup {None}
  BY ProcFacts DEF TypeInv, TypeOK
<1>2. r \in Locals /\ r.at = loc[c].at /\ r.ip = loc[c].ip /\ r.node = loc[c].node /\ r.u = info
  BY <1>1, LocTypes DEF Locals
<1> QED BY <1>2 DEF LoadUser, Moves, Goto

LEMMA LoadMapMoves ==
  ASSUME TypeInv, NEW c \in Callers, LoadMap(c)
  PROVE  \E r \in Locals :
           /\ Moves(c, "prune", r) /\ At(c, "map") /\ online' \in Maps
           /\ r.at = loc[c].at /\ r.ip = loc[c].ip /\ r.node = loc[c].node /\ r.u = loc[c].u
           /\ r.map = online' /\ r.todo = IPs
<1> DEFINE r == [loc[c] EXCEPT !.map = online', !.todo = IPs]
<1>1. c \in Procs
  BY ProcFacts
<1>2. online' \in Maps
  BY LimitsAssumption DEF LoadMap, TypeInv, TypeOK, Maps
<1>3. /\ r \in Locals /\ r.at = loc[c].at /\ r.ip = loc[c].ip /\ r.node = loc[c].node
      /\ r.u = loc[c].u /\ r.map = online' /\ r.todo = IPs
  BY <1>1, <1>2, LocTypes DEF Locals
<1> QED BY <1>2, <1>3 DEF LoadMap, Moves, Goto

\* The two calls of a sweep begin.
LEMMA SweepMoves ==
  ASSUME TypeInv, GetOnlineDevice \/ CleanupInactive
  PROVE  \E r \in Locals, l \in {"prune", "clean", "stale"} :
           /\ Moves(Sweeper, l, r) /\ (Serial => Quiescent)
           /\ UNCHANGED <<now, shared, history>>
           /\ r.at = now /\ r.map = online /\ r.todo = IPs /\ (l = "prune" => online # None)
<1>1. now \in Nat /\ online \in Maps \cup {None} /\ Sweeper \in Procs
  BY ProcFacts, LimitsAssumption DEF TypeInv, TypeOK, Time
<1>2. CASE GetOnlineDevice
  <2> DEFINE r == [loc[Sweeper] EXCEPT !.at = now, !.map = online, !.todo = IPs, !.for = "report"]
  <2>1. r \in Locals /\ r.at = now /\ r.map = online /\ r.todo = IPs
    BY <1>1, LocTypes DEF Locals
  <2>2. Moves(Sweeper, IF online = None THEN "clean" ELSE "prune", r)
    BY <1>2 DEF GetOnlineDevice, Moves, Goto
  <2>3. (Serial => Quiescent) /\ UNCHANGED <<now, shared, history>>
    BY <1>2 DEF GetOnlineDevice, Enter
  <2> HIDE DEF r
  <2> QED BY <2>1, <2>2, <2>3
<1>3. CASE CleanupInactive
  <2> DEFINE r == [loc[Sweeper] EXCEPT !.at = now, !.map = online, !.todo = IPs,
                                       !.for = "clean", !.n = 0]
  <2>1. r \in Locals /\ r.at = now /\ r.map = online /\ r.todo = IPs
    BY <1>1, LocTypes DEF Locals
  <2>2. Moves(Sweeper, IF online = None THEN "stale" ELSE "prune", r)
    BY <1>3 DEF CleanupInactive, Moves, Goto
  <2>3. (Serial => Quiescent) /\ UNCHANGED <<now, shared, history>>
    BY <1>3 DEF CleanupInactive, Enter, Local
  <2> HIDE DEF r
  <2> QED BY <2>1, <2>2, <2>3
<1> QED BY <1>2, <1>3

LEMMA UpdateMoves ==
  ASSUME TypeInv, UpdateInboundLimiter
  PROVE  \E r \in Locals, l \in Limits :
           Moves(Admin, "write", r) /\ applied' = l /\ r.at = now /\ r.u = info
<1>1. PICK l \in Limits : applied' = l /\ loc' = [loc EXCEPT ![Admin].u = info, ![Admin].at = now]
  BY DEF UpdateInboundLimiter
<1> DEFINE r == [loc[Admin] EXCEPT !.u = info, !.at = now]
<1>2. now \in Nat /\ info \in Info \cup {None} /\ Admin \in Procs
  BY ProcFacts, LimitsAssumption DEF TypeInv, TypeOK, Time
<1>3. r \in Locals /\ r.at = now /\ r.u = info
  BY <1>2, LocTypes DEF Locals
<1> QED BY <1>1, <1>3 DEF UpdateInboundLimiter, Moves, Goto

LEMMA WriteMoves ==
  ASSUME TypeInv, WriteUser
  PROVE  /\ info' \in Info /\ info'.speed = applied.speed /\ info'.dev = applied.dev /\ applied # None
         /\ \E r \in Locals : Moves(Admin, "rate", r) /\ r.u = info'
<1>1. At(Admin, "write") /\ applied \in Limits /\ applied # None /\ Admin \in Procs
  BY ProcFacts DEF WriteUser, TypeInv, TypeOK, HoldInv
<1>2. applied.speed \in Nat /\ applied.dev \in Nat
  BY <1>1, LimitsAssumption
<1> DEFINE t == IF loc[Admin].u = None THEN loc[Admin].at ELSE loc[Admin].u.last
<1>3. t \in Nat
  BY <1>1, LocTypes DEF Info
<1>4. info' = [speed |-> applied.speed, dev |-> applied.dev, last |-> t]
  BY DEF WriteUser
<1>5. info' \in Info /\ info'.speed = applied.speed /\ info'.dev = applied.dev
  <2> HIDE DEF t
  <2> QED BY <1>2, <1>3, <1>4 DEF Info
<1> DEFINE r == [loc[Admin] EXCEPT !.u = info']
<1>6. r \in Locals /\ r.u = info'
  BY <1>1, <1>5, LocTypes DEF Locals
<1>7. Moves(Admin, "rate", r)
  BY DEF WriteUser, Moves, Goto
<1> HIDE DEF r
<1> QED BY <1>1, <1>5, <1>6, <1>7

LEMMA RangeMoves ==
  ASSUME TypeInv, RangeUsers
  PROVE  \/ info = None /\ Moves(Admin, "idle", NoLocals)
         \/ info # None /\ \E r \in Locals : Moves(Admin, "rate", r) /\ r.u = info
<1>1. CASE info = None /\ Return(Admin)
  BY <1>1, ReturnMoves, ProcFacts
<1>2. CASE info # None /\ Goto(Admin, "rate") /\ loc' = [loc EXCEPT ![Admin].u = info]
  <2> DEFINE r == [loc[Admin] EXCEPT !.u = info]
  <2>1. info \in Info /\ Admin \in Procs
    BY <1>2, ProcFacts DEF TypeInv, TypeOK
  <2>2. r \in Locals /\ r.u = info
    BY <2>1, LocTypes DEF Locals
  <2> QED BY <1>2, <2>2 DEF Moves, Goto
<1> QED BY <1>1, <1>2 DEF RangeUsers
-----------------------------------------------------------------------------
(* Type correctness.                                                       *)

SharedTyped ==
  /\ now \in Time /\ nodeLimit \in NodeLimits /\ info \in Info \cup {None}
  /\ hub \in (Nat \ {0}) \cup {None}
  /\ online \in Maps \cup {None} /\ seen \in [Maps -> [IPs -> Nat \cup {None}]]
  /\ fresh \in 1..(MaxMaps + 1)
  /\ applied \in Limits \cup {None} /\ admitted \in [IPs -> Nat \cup {None}]
  /\ deleted \in BOOLEAN /\ dropped \in BOOLEAN
  /\ calls \in Nat /\ updates \in Nat /\ sweeps \in Nat

LEMMA MovesType ==
  ASSUME TypeInv, NEW p \in Procs, NEW l \in Labels, NEW r \in Locals, Moves(p, l, r),
         p \in Callers =>
           l \in {"idle", "load", "touch", "map", "prune", "drop", "count", "store", "take"},
         p = Sweeper =>
           l \in {"idle", "prune", "drop", "forget", "clean", "count", "stale", "offline",
                  "dropbucket", "orphan"},
         p = Admin => l \in {"idle", "write", "rate", "range", "delbucket", "delonline"},
         l \in {"touch", "rate"} => r.u # None,
         IF l = "write" THEN applied' # None ELSE p = Admin \/ applied' = applied,
         SharedTyped'
  PROVE  TypeInv'
<1>1. PlaceInv' /\ HoldInv'
  BY MovesPlace
<1>2. TypeOK'
  BY MovesPoint DEF SharedTyped, TypeOK
<1> QED BY <1>1, <1>2 DEF TypeInv

LEMMA LocalTyped == ASSUME TypeInv, Local PROVE SharedTyped' /\ UNCHANGED applied
BY DEF TypeInv, TypeOK, SharedTyped, Local, shared, history, budgets, Time, Maps

LEMMA RangeTypes ==
  ASSUME TypeInv, NEW p \in Procs \ {Admin}, PruneKey(p) \/ DropKey(p) \/ CountKey(p)
  PROVE  TypeInv'
<1>1. CASE PruneKey(p)
  <2>1. PICK i \in loc[p].todo, r \in Locals, l \in {"drop", "prune"} : Moves(p, l, r) /\ Local
    BY <1>1, PruneKeyMoves
  <2> QED BY <2>1, LocalTyped, MovesType, ProcFacts DEF Labels
<1>2. CASE CountKey(p)
  <2>1. PICK i \in loc[p].todo, r \in Locals : Moves(p, "count", r) /\ Local
    BY <1>2, CountKeyMoves
  <2> QED BY <2>1, LocalTyped, MovesType, ProcFacts DEF Labels
<1>3. CASE DropKey(p)
  <2>1. PICK r \in Locals :
          /\ Moves(p, "prune", r) /\ seen' = [seen EXCEPT ![loc[p].map][loc[p].key] = None]
          /\ UNCHANGED <<now, nodeLimit, info, hub, online, fresh, applied, admitted, deleted>>
          /\ UNCHANGED budgets /\ dropped' \in BOOLEAN
    BY <1>3, DropKeyMoves
  <2>2. seen' \in [Maps -> [IPs -> Nat \cup {None}]]
    BY <2>1 DEF TypeInv, TypeOK
  <2>3. SharedTyped' /\ UNCHANGED applied
    BY <2>1, <2>2 DEF TypeInv, TypeOK, SharedTyped, history, budgets, Time, Maps
  <2> QED BY <2>1, <2>3, MovesType, ProcFacts DEF Labels
<1> QED BY <1>1, <1>2, <1>3

LEMMA CallerTypes ==
  ASSUME TypeInv, NEW c \in Callers, GetUserBucket(c)
  PROVE  TypeInv'
<1>0. c \in Procs /\ c # Admin /\ c # Sweeper
  BY ProcFacts
<1>1. CASE Connect(c)
  <2>1. PICK r \in Locals : Moves(c, "load", r)
    BY <1>1, ConnectMoves
  <2>2. SharedTyped' /\ UNCHANGED applied
    BY <1>1 DEF Connect, TypeInv, TypeOK, SharedTyped, shared, history, Time, Maps
  <2> QED BY <1>0, <2>1, <2>2, MovesType DEF Labels
<1>2. CASE LoadUser(c)
  <2>1. PICK r \in Locals : Moves(c, IF info = None THEN "map" ELSE "touch", r) /\ r.u = info
    BY <1>2, LoadUserMoves
  <2>2. Local
    BY <1>2 DEF LoadUser
  <2> QED BY <1>0, <2>1, <2>2, LocalTyped, MovesType DEF Labels
<1>3. CASE TouchUser(c)
  <2>1. Moves(c, "map", loc[c]) /\ loc[c] \in Locals /\ At(c, "touch")
    BY <1>0, <1>3, StayMoves DEF TouchUser, Labels
  <2>2. info' \in Info
    <3>1. loc[c].u \in Info /\ loc[c].at \in Nat
      BY <1>0, <2>1, LocTypes DEF TypeInv, HoldInv
    <3> QED BY <1>3, <3>1 DEF TouchUser, Info
  <2>3. SharedTyped' /\ UNCHANGED applied
    BY <1>3, <2>2 DEF TouchUser, InfoOnly, TypeInv, TypeOK, SharedTyped, history, budgets, Time, Maps
  <2> QED BY <1>0, <2>1, <2>3, MovesType DEF Labels
<1>4. CASE LoadMap(c)
  <2>1. PICK r \in Locals : Moves(c, "prune", r) /\ online' \in Maps
    BY <1>4, LoadMapMoves
  <2>2. fresh' \in 1..(MaxMaps + 1)
    BY <1>4, LimitsAssumption DEF LoadMap, TypeInv, TypeOK
  <2>3. SharedTyped' /\ UNCHANGED applied
    BY <1>4, <2>1, <2>2
    DEF LoadMap, OnlineOnly, TypeInv, TypeOK, SharedTyped, history, budgets, Time, Maps
  <2> QED BY <1>0, <2>1, <2>3, MovesType DEF Labels
<1>5. CASE FindIP(c)
  <2>1. \E l \in {"store", "count"}, keys \in SUBSET IPs : Again(c, l, keys)
    BY <1>5 DEF FindIP
  <2>2. PICK l \in {"store", "count"}, r \in Locals : Moves(c, l, r)
    BY <1>0, <2>1, AgainMoves DEF Labels
  <2>3. Local
    BY <1>5 DEF FindIP
  <2> QED BY <1>0, <2>2, <2>3, LocalTyped, MovesType DEF Labels
<1>6. CASE Reject(c)
  <2>1. Moves(c, "idle", NoLocals) /\ NoLocals \in Locals /\ Local
    BY <1>0, <1>6, ReturnMoves DEF Reject
  <2> QED BY <1>0, <2>1, LocalTyped, MovesType DEF Labels
<1>7. CASE Allow(c)
  <2>1. Moves(c, "store", loc[c]) /\ loc[c] \in Locals /\ Local
    BY <1>0, <1>7, StayMoves DEF Allow, Labels
  <2> QED BY <1>0, <2>1, LocalTyped, MovesType DEF Labels
<1>8. CASE StoreIP(c)
  <2>1. Moves(c, "take", loc[c]) /\ loc[c] \in Locals
    BY <1>0, <1>8, StayMoves DEF StoreIP, Labels
  <2>2. /\ seen' \in [Maps -> [IPs -> Nat \cup {None}]]
        /\ admitted' \in [IPs -> Nat \cup {None}]
    <3>1. loc[c].at \in Nat
      BY <1>0, LocTypes
    <3> QED BY <1>8, <3>1 DEF StoreIP, TypeInv, TypeOK
  <2>3. SharedTyped' /\ UNCHANGED applied
    BY <1>8, <2>2 DEF StoreIP, TypeInv, TypeOK, SharedTyped, history, budgets, Time, Maps
  <2> QED BY <1>0, <2>1, <2>3, MovesType DEF Labels
<1>9. CASE TakeBucket(c)
  <2>1. Moves(c, "idle", NoLocals) /\ NoLocals \in Locals
    BY <1>0, <1>9, ReturnMoves DEF TakeBucket
  <2>2. hub' \in (Nat \ {0}) \cup {None}
    <3>1. loc[c].node \in Nat /\ UserSpeed(c) \in Nat
      BY <1>0, LocTypes DEF UserSpeed, Info
    <3>2. Rate(loc[c].node, UserSpeed(c)) \in Nat
      BY <3>1, RateType
    <3> QED BY <1>9, <3>2 DEF TakeBucket, TypeInv, TypeOK
  <2>3. SharedTyped' /\ UNCHANGED applied
    BY <1>9, <2>2 DEF TakeBucket, HubOnly, TypeInv, TypeOK, SharedTyped, history, budgets, Time, Maps
  <2> QED BY <1>0, <2>1, <2>3, MovesType DEF Labels
<1> QED BY <1>0, <1>1, <1>2, <1>3, <1>4, <1>5, <1>6, <1>7, <1>8, <1>9, RangeTypes DEF GetUserBucket

LEMMA SweepTypes == ASSUME TypeInv, Sweep PROVE TypeInv'
<1>0. Sweeper \in Procs /\ Sweeper \notin Callers /\ Sweeper # Admin
  BY ProcFacts
<1>1. CASE GetOnlineDevice \/ CleanupInactive
  <2>1. PICK r \in Locals, l \in {"prune", "clean", "stale"} : Moves(Sweeper, l, r)
    BY <1>1, SweepMoves
  <2>2. SharedTyped' /\ UNCHANGED applied
    BY <1>1 DEF GetOnlineDevice, CleanupInactive, Local, TypeInv, TypeOK, SharedTyped, shared,
                history, budgets, Time, Maps
  <2> QED BY <1>0, <2>1, <2>2, MovesType DEF Labels
<1>2. CASE EndReport \/ EndCount \/ IdleUser \/ OfflineUser
  <2>1. /\ Local /\ UNCHANGED loc
        /\ \E l \in {"forget", "clean", "stale", "offline", "orphan", "dropbucket"} :
             Goto(Sweeper, l)
    BY <1>2 DEF EndReport, EndCount, IdleUser, OfflineUser
  <2>2. PICK l \in {"forget", "clean", "stale", "offline", "orphan", "dropbucket"} :
          Moves(Sweeper, l, loc[Sweeper]) /\ loc[Sweeper] \in Locals
    BY <1>0, <2>1, StayMoves DEF Labels
  <2> QED BY <1>0, <2>1, <2>2, LocalTyped, MovesType DEF Labels
<1>3. CASE ForgetUser
  <2>1. /\ UNCHANGED loc /\ \E l \in {"clean", "stale"} : Goto(Sweeper, l)
    BY <1>3 DEF ForgetUser
  <2>2. PICK l \in {"clean", "stale"} :
          Moves(Sweeper, l, loc[Sweeper]) /\ loc[Sweeper] \in Locals
    BY <1>0, <2>1, StayMoves DEF Labels
  <2>3. SharedTyped' /\ UNCHANGED applied
    BY <1>3 DEF ForgetUser, OnlineOnly, TypeInv, TypeOK, SharedTyped, history, budgets, Time, Maps
  <2> QED BY <1>0, <2>2, <2>3, MovesType DEF Labels
<1>4. CASE EndPrune
  <2>1. PICK r \in Locals : Moves(Sweeper, "count", r)
    BY <1>0, <1>4, AgainMoves DEF EndPrune, Labels
  <2>2. Local
    BY <1>4 DEF EndPrune
  <2> QED BY <1>0, <2>1, <2>2, LocalTyped, MovesType DEF Labels
<1>5. CASE DropBucket
  <2>1. Moves(Sweeper, "orphan", loc[Sweeper]) /\ loc[Sweeper] \in Locals
    BY <1>0, <1>5, StayMoves DEF DropBucket, Labels
  <2>2. SharedTyped' /\ UNCHANGED applied
    BY <1>5 DEF DropBucket, HubOnly, TypeInv, TypeOK, SharedTyped, history, budgets, Time, Maps
  <2> QED BY <1>0, <2>1, <2>2, MovesType DEF Labels
<1>6. CASE OrphanBucket
  <2>1. Local /\ \E l \in {"dropbucket", "idle"}, r \in Locals : Moves(Sweeper, l, r)
    BY <1>0, <1>6, ReturnMoves, StayMoves DEF OrphanBucket, Labels
  <2> QED BY <1>0, <2>1, LocalTyped, MovesType DEF Labels
<1> QED BY <1>0, <1>1, <1>2, <1>3, <1>4, <1>5, <1>6, RangeTypes DEF Sweep

LEMMA AdminTypes == ASSUME TypeInv, Administer PROVE TypeInv'
<1>0. Admin \in Procs /\ Admin \notin Callers /\ Sweeper # Admin
  BY ProcFacts
<1>1. CASE UpdateInboundLimiter
  <2>1. PICK r \in Locals, l \in Limits : Moves(Admin, "write", r) /\ applied' = l
    BY <1>1, UpdateMoves
  <2>2. admitted' \in [IPs -> Nat \cup {None}]
    BY <1>1 DEF UpdateInboundLimiter, NoneAdmitted, TypeInv, TypeOK
  <2>3. updates' \in Nat
    BY <1>1 DEF UpdateInboundLimiter, EnterAdmin, TypeInv, TypeOK
  <2>4. SharedTyped' /\ applied' # None
    BY <1>1, <2>1, <2>2, <2>3, NoneAssumption
    DEF UpdateInboundLimiter, TypeInv, TypeOK, SharedTyped, shared, Time, Maps
  <2> QED BY <1>0, <2>1, <2>4, MovesType DEF Labels
<1>2. CASE WriteUser
  <2>1. PICK r \in Locals : Moves(Admin, "rate", r) /\ r.u = info'
    BY <1>2, WriteMoves
  <2>2. info' \in Info /\ info' # None
    BY <1>2, WriteMoves, NoneAssumption DEF Info
  <2>3. SharedTyped'
    BY <1>2, <2>2 DEF WriteUser, InfoOnly, TypeInv, TypeOK, SharedTyped, history, budgets, Time, Maps
  <2> QED BY <1>0, <2>1, <2>2, <2>3, MovesType DEF Labels
<1>3. CASE SetUserRate
  <2>1. Moves(Admin, "idle", NoLocals) /\ NoLocals \in Locals
    BY <1>0, <1>3, ReturnMoves DEF SetUserRate
  <2>2. hub' \in (Nat \ {0}) \cup {None}
    <3>1. nodeLimit \in Nat /\ loc[Admin].u.speed \in Nat
      BY <1>0, <1>3, LocTypes, LimitsAssumption DEF SetUserRate, TypeInv, TypeOK, HoldInv, Info
    <3>2. Rate(nodeLimit, loc[Admin].u.speed) \in Nat
      BY <3>1, RateType
    <3> QED BY <1>3, <3>2 DEF SetUserRate, SetBucket
  <2>3. SharedTyped'
    BY <1>3, <2>2 DEF SetUserRate, HubOnly, TypeInv, TypeOK, SharedTyped, history, budgets, Time, Maps
  <2> QED BY <1>0, <2>1, <2>3, MovesType DEF Labels
<1>4. CASE UpdateNodeSpeedLimit
  <2>1. Moves(Admin, "range", loc[Admin]) /\ loc[Admin] \in Locals
    BY <1>0, <1>4, StayMoves DEF UpdateNodeSpeedLimit, Labels
  <2>2. updates' \in Nat /\ nodeLimit' \in NodeLimits
    BY <1>4 DEF UpdateNodeSpeedLimit, EnterAdmin, TypeInv, TypeOK
  <2>3. SharedTyped'
    BY <1>4, <2>2 DEF UpdateNodeSpeedLimit, TypeInv, TypeOK, SharedTyped, history, Time, Maps
  <2> QED BY <1>0, <2>1, <2>3, MovesType DEF Labels
<1>5. CASE RangeUsers
  <2>1. Local
    BY <1>5 DEF RangeUsers
  <2>2. PICK l \in {"idle", "rate"}, r \in Locals :
          Moves(Admin, l, r) /\ (l = "rate" => r.u # None)
    BY <1>5, RangeMoves, NoLocalsType
  <2> QED BY <1>0, <2>1, <2>2, LocalTyped, MovesType DEF Labels
<1>6. CASE DeleteUsers
  <2>1. Moves(Admin, "delbucket", loc[Admin]) /\ loc[Admin] \in Locals
    BY <1>0, <1>6, StayMoves DEF DeleteUsers, Labels
  <2>2. updates' \in Nat /\ admitted' \in [IPs -> Nat \cup {None}]
    BY <1>6 DEF DeleteUsers, EnterAdmin, NoneAdmitted, TypeInv, TypeOK
  <2>3. SharedTyped'
    BY <1>6, <2>2 DEF DeleteUsers, TypeInv, TypeOK, SharedTyped, Time, Maps
  <2> QED BY <1>0, <2>1, <2>3, MovesType DEF Labels
<1>7. CASE DeleteBucket
  <2>1. Moves(Admin, "delonline", loc[Admin]) /\ loc[Admin] \in Locals
    BY <1>0, <1>7, StayMoves DEF DeleteBucket, Labels
  <2>2. SharedTyped'
    BY <1>7 DEF DeleteBucket, HubOnly, TypeInv, TypeOK, SharedTyped, history, budgets, Time, Maps
  <2> QED BY <1>0, <2>1, <2>2, MovesType DEF Labels
<1>8. CASE DeleteOnline
  <2>1. Moves(Admin, "idle", NoLocals) /\ NoLocals \in Locals
    BY <1>0, <1>8, ReturnMoves DEF DeleteOnline
  <2>2. SharedTyped'
    BY <1>8 DEF DeleteOnline, OnlineOnly, TypeInv, TypeOK, SharedTyped, history, budgets, Time, Maps
  <2> QED BY <1>0, <2>1, <2>2, MovesType DEF Labels
<1> QED BY <1>1, <1>2, <1>3, <1>4, <1>5, <1>6, <1>7, <1>8 DEF Administer

LEMMA InitTypes == ASSUME Init PROVE TypeInv
<1>1. info \in Info /\ nodeLimit \in Nat /\ applied \in Limits
  BY LimitsAssumption DEF Init, Info
<1>2. now \in Time /\ fresh \in 1..(MaxMaps + 1)
  BY LimitsAssumption DEF Init, Time
<1>3. loc \in [Procs -> Locals] /\ pc \in [Procs -> Labels]
  BY NoLocalsType DEF Init, Labels
<1>4. TypeOK
  BY <1>1, <1>2, <1>3 DEF Init, TypeOK
<1>5. PlaceInv /\ HoldInv
  BY ProcFacts DEF Init, PlaceInv, HoldInv, At
<1> QED BY <1>4, <1>5 DEF TypeInv

LEMMA NextTypes == ASSUME TypeInv, [Next]_vars PROVE TypeInv'
<1>1. CASE Tick \/ UNCHANGED vars
  <2>1. now' \in Time
    BY <1>1, LimitsAssumption DEF TypeInv, TypeOK, Time, Tick, vars
  <2>2. UNCHANGED <<nodeLimit, info, hub, online, seen, fresh, pc, loc, applied, admitted, deleted,
                   dropped, calls, updates, sweeps>>
    BY <1>1 DEF Tick, vars, shared, history, budgets
  <2>3. TypeOK'
    BY <2>1, <2>2 DEF TypeInv, TypeOK, Time, Maps
  <2>4. PlaceInv' /\ HoldInv'
    BY <2>2 DEF TypeInv, PlaceInv, HoldInv, At
  <2> QED BY <2>3, <2>4 DEF TypeInv
<1> QED BY <1>1, CallerTypes, SweepTypes, AdminTypes DEF Next

LEMMA TypeInvariant == Spec => []TypeInv
BY InitTypes, NextTypes, PTL DEF Spec

\* However calls overlap, the limiter's state is well typed (common/limiter):
\* limits that are read to be stored back are there, and no bucket has rate 0.
THEOREM LimiterTypes == Spec => []TypeOK
<1>1. TypeInv => TypeOK
  BY DEF TypeInv
<1> QED BY <1>1, TypeInvariant, PTL
-----------------------------------------------------------------------------
(* When calls do not overlap.                                              *)

\* What a range over the map has left of the entries it has visited.
Swept(p, i) == LastSeen(p, i) = None \/ ~Expired(LastSeen(p, i), loc[p].at)
SameLimits(u, l) == u.speed = l.speed /\ u.dev = l.dev

Alone == \A p, q \in Procs : ~Outside(p) /\ ~Outside(q) => p = q

\* The limits in force are the controller's, but while it is writing them.
LimitsHold ==
  /\ applied = None => info = None /\ deleted
  /\ applied # None /\ ~At(Admin, "write") => info # None /\ SameLimits(info, applied)
BucketHolds ==
  hub # None /\ info # None /\ pc[Admin] \notin {"write", "rate", "range"}
    => hub = Rate(nodeLimit, info.speed)

\* An address that was admitted is in the map, or was admitted too long ago for
\* a call in progress and for all to come.
InMap(i) == online # None /\ seen[online][i] # None /\ seen[online][i] >= admitted[i]
Past(i) ==
  /\ Expired(admitted[i], now)
  /\ \A p \in Procs \ {Admin} : ~Outside(p) => Expired(admitted[i], loc[p].at)
Known == \A i \in IPs : admitted[i] # None => InMap(i) \/ Past(i)

\* A map is empty until it is used, and until the user is deleted it knows of
\* no address that was not admitted.
Entries ==
  /\ online # None => online < fresh
  /\ \A o \in Maps : o >= fresh => \A i \in IPs : seen[o][i] = None
  /\ ~deleted /\ online # None =>
       \A i \in IPs : seen[online][i] # None => admitted[i] = seen[online][i]

\* What a goroutine in the middle of a call knows.
Dropping(p) ==
  /\ loc[p].key \in IPs \ loc[p].todo /\ LastSeen(p, loc[p].key) # None
  /\ Expired(LastSeen(p, loc[p].key), loc[p].at)
CallerFit(c) ==
  /\ ~At(c, "idle") => loc[c].at <= now /\ loc[c].ip \in IPs /\ loc[c].node = nodeLimit
  /\ ~At(c, "idle") /\ ~At(c, "load") =>
       IF loc[c].u = None THEN info = None ELSE info # None /\ SameLimits(info, loc[c].u)
  /\ pc[c] \in {"prune", "drop", "count", "store"} => online # None /\ loc[c].map = online
  /\ At(c, "prune") => \A i \in IPs \ loc[c].todo : Swept(c, i)
  /\ At(c, "drop") =>
       Dropping(c) /\ \A i \in IPs \ (loc[c].todo \cup {loc[c].key}) : Swept(c, i)
  /\ At(c, "count") =>
       /\ LastSeen(c, loc[c].ip) = None
       /\ Cardinality({i \in IPs \ loc[c].todo : LastSeen(c, i) # None}) <= loc[c].n
  /\ At(c, "store") /\ ~deleted /\ ~Recent(loc[c].ip, loc[c].at) /\ UserDev(c) > 0 =>
       Cardinality({i \in IPs : Recent(i, loc[c].at)}) < UserDev(c)
SweepFit ==
  /\ ~Outside(Sweeper) => loc[Sweeper].at <= now
  /\ pc[Sweeper] \in {"prune", "drop", "count", "forget"} =>
       online # None /\ loc[Sweeper].map = online
  /\ pc[Sweeper] \in {"prune", "count"} /\ loc[Sweeper].n = 0 =>
       \A i \in IPs \ loc[Sweeper].todo : LastSeen(Sweeper, i) = None
  /\ At(Sweeper, "drop") =>
       /\ Dropping(Sweeper)
       /\ loc[Sweeper].n = 0 =>
            \A i \in IPs \ (loc[Sweeper].todo \cup {loc[Sweeper].key}) :
              LastSeen(Sweeper, i) = None
  /\ At(Sweeper, "forget") => \A i \in IPs : LastSeen(Sweeper, i) = None
AdminFit ==
  /\ At(Admin, "rate") => loc[Admin].u = info
  /\ pc[Admin] \in {"delbucket", "delonline"} =>
       applied = None /\ \A i \in IPs : admitted[i] = None

Shared == LimitsHold /\ BucketHolds /\ Known /\ Entries
Fits == (\A c \in Callers : CallerFit(c)) /\ SweepFit /\ AdminFit
SerialInv == TypeInv /\ Alone /\ Shared /\ Fits

\* Nobody else is inside a call.
Turn(p) == \A q \in Procs \ {p} : Outside(q)

LEMMA TurnOf ==
  ASSUME Alone, NEW p \in Procs, ~Outside(p) \/ Quiescent
  PROVE  Turn(p)
BY DEF Alone, Turn, Quiescent

\* What others know concerns only calls they are in.
LEMMA OthersFit ==
  ASSUME TypeInv, NEW p \in Procs, Turn(p), \A q \in Procs \ {p} : pc'[q] = pc[q],
         p \in Callers => CallerFit(p)', p = Sweeper => SweepFit', p = Admin => AdminFit'
  PROVE  Alone' /\ Fits'
<1>1. Alone'
  BY DEF Turn, Alone, Outside, At
<1>2. ASSUME NEW c \in Callers PROVE CallerFit(c)'
  <2>1. CASE c = p
    BY <2>1
  <2>2. CASE c # p
    <3>1. pc'[c] = "idle"
      BY <2>2, ProcFacts DEF Turn, Outside, At, TypeInv, PlaceInv
    <3> QED BY <3>1 DEF CallerFit, At
  <2> QED BY <2>1, <2>2
<1>3. SweepFit'
  <2>1. CASE Sweeper # p
    <3>1. pc'[Sweeper] \in {"idle", "clean"}
      BY <2>1, ProcFacts DEF Turn, Outside, At
    <3> QED BY <3>1 DEF SweepFit, At, Outside
  <2> QED BY <2>1
<1>4. AdminFit'
  <2>1. CASE Admin # p
    <3>1. pc'[Admin] \in {"idle", "clean"}
      BY <2>1, ProcFacts DEF Turn, Outside, At
    <3> QED BY <3>1 DEF AdminFit, At
  <2> QED BY <2>1
<1> QED BY <1>1, <1>2, <1>3, <1>4 DEF Fits

\* Times and limits are numbers.
LEMMA SharedTypes ==
  ASSUME TypeInv
  PROVE  /\ now \in Nat /\ nodeLimit \in Nat /\ Window \in Nat /\ None \notin Nat
         /\ info # None => info \in Info /\ info.speed \in Nat /\ info.dev \in Nat
         /\ applied # None => applied.speed \in Nat /\ applied.dev \in Nat
         /\ \A i \in IPs : admitted[i] # None => admitted[i] \in Nat
         /\ online # None => online \in Maps
         /\ fresh \in Nat
         /\ \A o \in Maps : \A i \in IPs : seen[o][i] # None => seen[o][i] \in Nat
<1>1. info # None => info \in Info
  BY DEF TypeInv, TypeOK
<1>2. info # None => info.speed \in Nat /\ info.dev \in Nat
  BY <1>1 DEF Info
<1> QED BY <1>1, <1>2, LimitsAssumption, NoneAssumption DEF TypeInv, TypeOK, Time

\* A step that changes no more than the goroutine's own place and locals, within
\* a call, into one, or out of it.
LEMMA LocalShared ==
  ASSUME SerialInv, NEW p \in Procs \ {Admin}, Turn(p), NEW l \in Labels, NEW r \in Locals,
         Moves(p, l, r), UNCHANGED <<now, shared, history>>,
         l \in {"idle", "clean"} \/ r.at = now \/ (~Outside(p) /\ r.at = loc[p].at)
  PROVE  Shared'
<1>1. /\ pc'[p] = l /\ loc'[p] = r
      /\ \A q \in Procs \ {p} : pc'[q] = pc[q] /\ loc'[q] = loc[q]
  BY MovesPoint DEF SerialInv
<1>2. /\ UNCHANGED <<now, nodeLimit, info, hub, online, seen, fresh, applied, admitted, deleted>>
      /\ pc'[Admin] = pc[Admin]
  BY <1>1, ProcFacts DEF shared, history
<1>3. LimitsHold' /\ BucketHolds' /\ Entries'
  BY <1>2 DEF SerialInv, Shared, LimitsHold, BucketHolds, Entries, SameLimits, At
<1>4. ASSUME NEW i \in IPs, Past(i) PROVE Past(i)'
  BY <1>1, <1>2, <1>4 DEF Past, Outside, At, Expired
<1>5. Known'
  BY <1>2, <1>4 DEF SerialInv, Shared, Known, InMap
<1> QED BY <1>3, <1>5 DEF Shared

LEMMA CallerPlace ==
  ASSUME SerialInv, NEW c \in Callers
  PROVE  /\ c \in Procs \ {Admin} /\ c # Sweeper /\ c # Admin /\ CallerFit(c)
         /\ ~At(c, "idle") => ~Outside(c) /\ Turn(c)
<1>1. c \in Procs \ {Admin} /\ c # Sweeper /\ c # Admin /\ CallerFit(c)
  BY ProcFacts DEF SerialInv, Fits
<1>2. ~At(c, "idle") => ~Outside(c)
  BY DEF SerialInv, TypeInv, PlaceInv, Outside, At
<1> QED BY <1>1, <1>2, TurnOf DEF SerialInv

LEMMA ConnectSerial ==
  ASSUME Serial, SerialInv, NEW c \in Callers, Connect(c)
  PROVE  Alone' /\ Shared' /\ Fits'
<1>0. /\ c \in Procs \ {Admin} /\ c # Sweeper /\ c # Admin /\ UNCHANGED <<now, shared, history>>
  BY CallerPlace DEF Connect
<1>1. PICK r \in Locals :
        Moves(c, "load", r) /\ Enter(c, "idle") /\ r.at = now /\ r.ip \in IPs /\ r.node = nodeLimit
  BY ConnectMoves DEF SerialInv
<1>2. Turn(c)
  BY <1>0, <1>1, TurnOf DEF Enter, SerialInv
<1>3. Shared'
  BY <1>0, <1>1, <1>2, LocalShared DEF Labels
<1>4. /\ pc'[c] = "load" /\ loc'[c] = r /\ \A q \in Procs \ {c} : pc'[q] = pc[q]
  BY <1>0, <1>1, MovesPoint DEF SerialInv, Labels
<1>5. CallerFit(c)'
  BY <1>0, <1>1, <1>4, SharedTypes DEF CallerFit, At, shared, SerialInv
<1> QED BY <1>0, <1>2, <1>3, <1>4, <1>5, OthersFit DEF SerialInv

LEMMA LoadUserSerial ==
  ASSUME SerialInv, NEW c \in Callers, LoadUser(c)
  PROVE  Alone' /\ Shared' /\ Fits'
<1>0. c \in Procs \ {Admin} /\ c # Sweeper /\ c # Admin /\ UNCHANGED <<now, shared, history>>
  BY CallerPlace DEF LoadUser, Local
<1>1. PICK r \in Locals :
        /\ Moves(c, IF info = None THEN "map" ELSE "touch", r) /\ At(c, "load")
        /\ r.at = loc[c].at /\ r.ip = loc[c].ip /\ r.node = loc[c].node /\ r.u = info
  BY LoadUserMoves DEF SerialInv
<1>2. Turn(c) /\ ~Outside(c) /\ CallerFit(c)
  BY <1>1, CallerPlace DEF At
<1>3. Shared'
  BY <1>0, <1>1, <1>2, LocalShared DEF Labels
<1>4. /\ pc'[c] \in {"map", "touch"} /\ loc'[c] = r /\ \A q \in Procs \ {c} : pc'[q] = pc[q]
  BY <1>0, <1>1, MovesPoint DEF SerialInv, Labels
<1>5. CallerFit(c)'
  BY <1>0, <1>1, <1>2, <1>4 DEF CallerFit, SameLimits, At, shared
<1> QED BY <1>0, <1>2, <1>3, <1>4, <1>5, OthersFit DEF SerialInv

\* The limits that are stored back are those in force.
LEMMA TouchUserSerial ==
  ASSUME SerialInv, NEW c \in Callers, TouchUser(c)
  PROVE  Alone' /\ Shared' /\ Fits'
<1>0. c \in Procs \ {Admin} /\ c # Sweeper /\ c # Admin /\ At(c, "touch")
  BY CallerPlace DEF TouchUser
<1>1. Turn(c) /\ ~Outside(c) /\ CallerFit(c)
  BY <1>0, CallerPlace DEF At
<1>2. Moves(c, "map", loc[c]) /\ loc[c] \in Locals
  BY <1>0, StayMoves DEF TouchUser, Labels, SerialInv
<1>3. /\ pc'[c] = "map" /\ loc'[c] = loc[c]
      /\ \A q \in Procs \ {c} : pc'[q] = pc[q] /\ loc'[q] = loc[q]
  BY <1>0, <1>2, MovesPoint DEF SerialInv, Labels
<1>4. /\ UNCHANGED <<now, nodeLimit, hub, online, seen, fresh, applied, admitted, deleted>>
      /\ pc'[Admin] = pc[Admin]
  BY <1>0, <1>3, ProcFacts DEF TouchUser, InfoOnly, history
<1>5. /\ loc[c].u # None /\ info # None /\ SameLimits(info, loc[c].u)
      /\ info' # None /\ SameLimits(info', loc[c].u)
  <2>1. loc[c].u # None
    BY <1>0 DEF SerialInv, TypeInv, HoldInv
  <2>2. loc[c].u \in Info /\ loc[c].at \in Nat
    BY <1>0, <2>1, LocTypes DEF SerialInv
  <2>3. info' \in Info /\ info'.speed = loc[c].u.speed /\ info'.dev = loc[c].u.dev
    BY <2>2 DEF TouchUser, Info
  <2> QED BY <1>0, <1>1, <2>1, <2>3, NoneAssumption DEF CallerFit, SameLimits, At, Info
<1>6. Shared'
  <2>1. LimitsHold' /\ BucketHolds'
    BY <1>4, <1>5 DEF SerialInv, Shared, LimitsHold, BucketHolds, SameLimits, At
  <2>2. Known' /\ Entries'
    BY <1>0, <1>1, <1>3, <1>4
    DEF SerialInv, Shared, Known, InMap, Past, Entries, Outside, At, Expired
  <2> QED BY <2>1, <2>2 DEF Shared
<1>7. CallerFit(c)'
  BY <1>0, <1>1, <1>3, <1>4, <1>5 DEF CallerFit, SameLimits, At
<1> QED BY <1>0, <1>1, <1>3, <1>6, <1>7, OthersFit DEF SerialInv

LEMMA LoadMapSerial ==
  ASSUME SerialInv, NEW c \in Callers, LoadMap(c)
  PROVE  Alone' /\ Shared' /\ Fits'
<1>0. c \in Procs \ {Admin} /\ c # Sweeper /\ c # Admin /\ At(c, "map")
  BY CallerPlace DEF LoadMap
<1>1. Turn(c) /\ ~Outside(c) /\ CallerFit(c)
  BY <1>0, CallerPlace DEF At
<1>2. PICK r \in Locals :
        /\ Moves(c, "prune", r) /\ online' \in Maps
        /\ r.at = loc[c].at /\ r.ip = loc[c].ip /\ r.node = loc[c].node /\ r.u = loc[c].u
        /\ r.map = online' /\ r.todo = IPs
  BY LoadMapMoves DEF SerialInv
<1>3. /\ pc'[c] = "prune" /\ loc'[c] = r
      /\ \A q \in Procs \ {c} : pc'[q] = pc[q] /\ loc'[q] = loc[q]
  BY <1>0, <1>2, MovesPoint DEF SerialInv, Labels
<1>4. /\ UNCHANGED <<now, nodeLimit, info, hub, seen, applied, admitted, deleted>>
      /\ pc'[Admin] = pc[Admin]
      /\ \/ online # None /\ UNCHANGED <<online, fresh>>
         \/ online = None /\ online' = fresh /\ fresh' = fresh + 1
      /\ online' # None
  BY <1>0, <1>2, <1>3, ProcFacts, NoneAssumption DEF LoadMap, OnlineOnly, history, Maps
<1>5. Shared'
  <2>1. LimitsHold' /\ BucketHolds'
    BY <1>4 DEF SerialInv, Shared, LimitsHold, BucketHolds, SameLimits, At
  <2>2. ASSUME NEW i \in IPs, Past(i) PROVE Past(i)'
    BY <1>0, <1>1, <1>2, <1>3, <1>4, <2>2 DEF Past, Outside, At, Expired
  <2>3. Known'
    BY <1>4, <2>2 DEF SerialInv, Shared, Known, InMap
  <2>4. Entries'
    <3>1. CASE UNCHANGED <<online, fresh>>
      BY <1>4, <3>1 DEF SerialInv, Shared, Entries
    <3>2. CASE online = None /\ online' = fresh /\ fresh' = fresh + 1
      <4>1. fresh \in Nat /\ fresh \in Maps
        BY <1>2, <3>2, SharedTypes DEF SerialInv
      <4>2. \A o \in Maps : o >= fresh => \A i \in IPs : seen[o][i] = None
        BY DEF SerialInv, Shared, Entries
      <4>3. online' < fresh'
        BY <3>2, <4>1
      <4>4. \A i \in IPs : seen'[online'][i] = None
        BY <1>4, <3>2, <4>1, <4>2
      <4>5. \A o \in Maps : o >= fresh' => \A i \in IPs : seen'[o][i] = None
        BY <1>4, <3>2, <4>1, <4>2 DEF Maps
      <4> QED BY <4>3, <4>4, <4>5 DEF Entries
    <3> QED BY <1>4, <3>1, <3>2
  <2> QED BY <2>1, <2>3, <2>4 DEF Shared
<1>6. CallerFit(c)'
  BY <1>0, <1>1, <1>2, <1>3, <1>4 DEF CallerFit, SameLimits, At
<1> QED BY <1>0, <1>1, <1>3, <1>5, <1>6, OthersFit DEF SerialInv

\* A range visits one more key: it stays swept, or is about to be deleted.
LEMMA PruneKeySerial ==
  ASSUME SerialInv, NEW p \in Procs \ {Admin}, PruneKey(p)
  PROVE  Alone' /\ Shared' /\ Fits'
<1>1. PICK i \in loc[p].todo, r \in Locals, l \in {"drop", "prune"} :
        /\ Moves(p, l, r) /\ At(p, "prune") /\ Local
        /\ r.at = loc[p].at /\ r.ip = loc[p].ip /\ r.node = loc[p].node /\ r.u = loc[p].u
        /\ r.map = loc[p].map /\ r.for = loc[p].for /\ r.todo = loc[p].todo \ {i}
        /\ IF LastSeen(p, i) # None /\ Expired(LastSeen(p, i), loc[p].at)
             THEN l = "drop" /\ r.key = i /\ r.n = loc[p].n
             ELSE /\ l = "prune"
                  /\ r.n = IF LastSeen(p, i) = None THEN loc[p].n ELSE loc[p].n + 1
  BY PruneKeyMoves DEF SerialInv
<1>2. ~Outside(p) /\ Turn(p) /\ UNCHANGED <<now, shared, history>>
  BY <1>1, TurnOf DEF SerialInv, Outside, At, Local
<1>3. Shared'
  BY <1>1, <1>2, LocalShared DEF Labels
<1>4. /\ pc'[p] = l /\ loc'[p] = r
      /\ \A q \in Procs \ {p} : pc'[q] = pc[q] /\ loc'[q] = loc[q]
  BY <1>1, MovesPoint DEF SerialInv, Labels
<1>5. /\ i \in IPs /\ loc[p].n \in Nat /\ loc[p].todo \subseteq IPs
      /\ UNCHANGED <<now, nodeLimit, info, online, seen>>
  BY <1>1, <1>2, LocTypes DEF SerialInv, shared
<1>6. ASSUME p \in Callers PROVE CallerFit(p)'
  <2>1. CallerFit(p)
    BY <1>6, CallerPlace
  <2>2. CASE l = "drop"
    BY <1>1, <1>4, <1>5, <2>1, <2>2 DEF CallerFit, SameLimits, At, Dropping, Swept, LastSeen
  <2>3. CASE l = "prune"
    BY <1>1, <1>4, <1>5, <2>1, <2>3 DEF CallerFit, SameLimits, At, Swept, LastSeen
  <2> QED BY <2>2, <2>3
<1>7. ASSUME p = Sweeper PROVE SweepFit'
  <2>1. SweepFit
    BY DEF SerialInv, Fits
  <2>2. CASE l = "drop"
    BY <1>1, <1>2, <1>4, <1>5, <1>7, <2>1, <2>2 DEF SweepFit, At, Dropping, LastSeen
  <2>3. CASE l = "prune"
    BY <1>1, <1>2, <1>4, <1>5, <1>7, <2>1, <2>3 DEF SweepFit, At, LastSeen
  <2> QED BY <2>2, <2>3
<1> QED BY <1>2, <1>3, <1>4, <1>6, <1>7, OthersFit DEF SerialInv

\* The entry that is deleted expired before now: its address is past.
LEMMA DropKeySerial ==
  ASSUME SerialInv, NEW p \in Procs \ {Admin}, DropKey(p)
  PROVE  Alone' /\ Shared' /\ Fits'
<1>1. PICK r \in Locals :
        /\ Moves(p, "prune", r) /\ At(p, "drop")
        /\ seen' = [seen EXCEPT ![loc[p].map][loc[p].key] = None]
        /\ UNCHANGED <<now, nodeLimit, info, hub, online, fresh, applied, admitted, deleted>>
        /\ r.at = loc[p].at /\ r.ip = loc[p].ip /\ r.node = loc[p].node /\ r.u = loc[p].u
        /\ r.map = loc[p].map /\ r.for = loc[p].for /\ r.todo = loc[p].todo
        /\ r.n = loc[p].n
  BY DropKeyMoves DEF SerialInv
<1>2. ~Outside(p) /\ Turn(p)
  BY <1>1, TurnOf DEF SerialInv, Outside, At
<1>3. /\ pc'[p] = "prune" /\ loc'[p] = r
      /\ \A q \in Procs \ {p} : pc'[q] = pc[q] /\ loc'[q] = loc[q]
  BY <1>1, MovesPoint DEF SerialInv, Labels
<1>4. /\ UNCHANGED <<now, nodeLimit, info, hub, online, fresh, applied, admitted, deleted>>
      /\ pc'[Admin] = pc[Admin]
  BY <1>1, <1>3, ProcFacts
<1>5. /\ online # None /\ loc[p].map = online /\ Dropping(p) /\ loc[p].at <= now
      /\ online \in Maps /\ loc[p].key \in IPs /\ loc[p].at \in Nat
  <2>1. p \in Callers \/ p = Sweeper
    BY DEF Procs
  <2>2. online # None /\ loc[p].map = online /\ Dropping(p) /\ loc[p].at <= now
    BY <1>1, <1>2, <2>1 DEF SerialInv, Fits, CallerFit, SweepFit, At
  <2> QED BY <2>2, SharedTypes, LocTypes DEF SerialInv, Dropping
<1> DEFINE k == loc[p].key
<1>6. /\ seen'[online][k] = None
      /\ \A o \in Maps : \A i \in IPs : o # online \/ i # k => seen'[o][i] = seen[o][i]
  <2>1. seen \in [Maps -> [IPs -> Nat \cup {None}]]
    BY DEF SerialInv, TypeInv, TypeOK
  <2> QED BY <1>1, <1>5, <2>1
<1>7. Shared'
  <2>1. LimitsHold' /\ BucketHolds'
    BY <1>4 DEF SerialInv, Shared, LimitsHold, BucketHolds, SameLimits, At
  <2>2. Entries'
    <3>1. Entries
      BY DEF SerialInv, Shared
    <3>2. online' # None => online' < fresh'
      BY <1>4, <3>1 DEF Entries
    <3>3. \A o \in Maps : o >= fresh' => \A i \in IPs : seen'[o][i] = None
      BY <1>4, <1>6, <3>1 DEF Entries
    <3>4. ~deleted' /\ online' # None =>
            \A i \in IPs : seen'[online'][i] # None => admitted'[i] = seen'[online'][i]
      BY <1>4, <1>5, <1>6, <3>1 DEF Entries
    <3> QED BY <3>2, <3>3, <3>4 DEF Entries
  <2>3. ASSUME NEW i \in IPs, Past(i) PROVE Past(i)'
    BY <1>2, <1>3, <1>1, <1>4, <2>3 DEF Past, Outside, At, Expired
  <2>4. ASSUME admitted[k] # None PROVE Past(k)
    <3>1. CASE InMap(k)
      <4>1. admitted[k] \in Nat /\ seen[online][k] \in Nat /\ Window \in Nat /\ now \in Nat
        BY <1>5, <2>4, <3>1, SharedTypes DEF SerialInv, InMap
      <4>2. seen[online][k] >= admitted[k] /\ seen[online][k] + Window < loc[p].at
        BY <1>5, <3>1 DEF InMap, Dropping, LastSeen, Expired
      <4>3. admitted[k] + Window < loc[p].at /\ admitted[k] + Window < now
        BY <1>5, <4>1, <4>2
      <4> QED BY <1>2, <4>3 DEF Past, Expired, Turn
    <3>2. CASE Past(k)
      BY <3>2
    <3> QED BY <1>5, <2>4, <3>1, <3>2 DEF SerialInv, Shared, Known
  <2>5. Known'
    <3>1. ASSUME NEW i \in IPs, admitted'[i] # None PROVE InMap(i)' \/ Past(i)'
      <4>1. CASE i = k
        BY <1>4, <2>3, <2>4, <3>1, <4>1
      <4>2. CASE i # k /\ Past(i)
        BY <2>3, <4>2
      <4>3. CASE i # k /\ InMap(i)
        BY <1>4, <1>5, <1>6, <4>3 DEF InMap
      <4> QED BY <1>4, <3>1, <4>1, <4>2, <4>3 DEF SerialInv, Shared, Known
    <3> QED BY <3>1 DEF Known
  <2> QED BY <2>1, <2>2, <2>5 DEF Shared
<1>8. ASSUME p \in Callers PROVE CallerFit(p)'
  <2>1. CallerFit(p)
    BY <1>8, CallerPlace
  <2> QED BY <1>1, <1>3, <1>4, <1>5, <1>6, <2>1 DEF CallerFit, SameLimits, At, Swept, LastSeen
<1>9. ASSUME p = Sweeper PROVE SweepFit'
  <2>1. SweepFit
    BY DEF SerialInv, Fits
  <2> QED BY <1>1, <1>2, <1>3, <1>4, <1>5, <1>6, <1>9, <2>1 DEF SweepFit, At, LastSeen
<1> QED BY <1>2, <1>3, <1>7, <1>8, <1>9, OthersFit DEF SerialInv

\* A key that is counted raises the count.
LEMMA CountGrows ==
  ASSUME TypeInv, NEW p \in Procs, NEW i \in loc[p].todo
  PROVE  LET before == {j \in IPs \ loc[p].todo : LastSeen(p, j) # None}
             after == {j \in IPs \ (loc[p].todo \ {i}) : LastSeen(p, j) # None}
         IN  /\ Cardinality(before) \in Nat
             /\ Cardinality(after) =
                  IF LastSeen(p, i) = None THEN Cardinality(before) ELSE Cardinality(before) + 1
<1> DEFINE before == {j \in IPs \ loc[p].todo : LastSeen(p, j) # None}
           after == {j \in IPs \ (loc[p].todo \ {i}) : LastSeen(p, j) # None}
<1>1. i \in IPs /\ i \notin before
  BY LocTypes
<1>2. after = IF LastSeen(p, i) = None THEN before ELSE before \cup {i}
  BY <1>1
<1>3. IsFiniteSet(before)
  BY FS_Subset, LimitsAssumption
<1>4. Cardinality(before) \in Nat
  BY <1>3, FS_CardinalityType
<1>5. Cardinality(before \cup {i}) = Cardinality(before) + 1
  BY <1>1, <1>3, FS_AddElement
<1> QED BY <1>2, <1>4, <1>5

LEMMA CountKeySerial ==
  ASSUME SerialInv, NEW p \in Procs \ {Admin}, CountKey(p)
  PROVE  Alone' /\ Shared' /\ Fits'
<1>1. PICK i \in loc[p].todo, r \in Locals :
        /\ Moves(p, "count", r) /\ At(p, "count") /\ Local
        /\ r.at = loc[p].at /\ r.ip = loc[p].ip /\ r.node = loc[p].node /\ r.u = loc[p].u
        /\ r.map = loc[p].map /\ r.for = loc[p].for /\ r.todo = loc[p].todo \ {i}
        /\ r.n = IF LastSeen(p, i) = None THEN loc[p].n ELSE loc[p].n + 1
  BY CountKeyMoves DEF SerialInv
<1>2. ~Outside(p) /\ Turn(p) /\ UNCHANGED <<now, shared, history>>
  BY <1>1, TurnOf DEF SerialInv, Outside, At, Local
<1>3. Shared'
  BY <1>1, <1>2, LocalShared DEF Labels
<1>4. /\ pc'[p] = "count" /\ loc'[p] = r
      /\ \A q \in Procs \ {p} : pc'[q] = pc[q] /\ loc'[q] = loc[q]
  BY <1>1, MovesPoint DEF SerialInv, Labels
<1>5. /\ i \in IPs /\ loc[p].n \in Nat /\ loc[p].todo \subseteq IPs
      /\ UNCHANGED <<now, nodeLimit, info, online, seen>>
  BY <1>1, <1>2, LocTypes DEF SerialInv, shared
<1>6. ASSUME p \in Callers PROVE CallerFit(p)'
  <2>1. CallerFit(p)
    BY <1>6, CallerPlace
  <2> DEFINE before == {j \in IPs \ loc[p].todo : LastSeen(p, j) # None}
             after == {j \in IPs \ (loc[p].todo \ {i}) : LastSeen(p, j) # None}
  <2>2. /\ Cardinality(before) \in Nat
        /\ Cardinality(after) =
             IF LastSeen(p, i) = None THEN Cardinality(before) ELSE Cardinality(before) + 1
    BY CountGrows DEF SerialInv
  <2>3. Cardinality(before) <= loc[p].n
    BY <1>1, <2>1 DEF CallerFit
  <2>4. Cardinality(after) <= r.n
    BY <1>1, <1>5, <2>2, <2>3
  <2>5. {j \in IPs \ loc'[p].todo : LastSeen(p, j)' # None} = after
    BY <1>1, <1>4, <1>5 DEF LastSeen
  <2>6. seen'[loc'[p].map][loc'[p].ip] = None
    BY <1>1, <1>4, <1>5, <2>1 DEF CallerFit, LastSeen
  <2> HIDE DEF after, before
  <2>7. At(p, "count") => Cardinality({j \in IPs \ loc'[p].todo : LastSeen(p, j)' # None}) <= loc'[p].n
    BY <1>4, <2>4, <2>5
  <2> QED BY <1>1, <1>4, <1>5, <2>1, <2>6, <2>7 DEF CallerFit, SameLimits, At, LastSeen
<1>7. ASSUME p = Sweeper PROVE SweepFit'
  <2>1. SweepFit
    BY DEF SerialInv, Fits
  <2> QED BY <1>1, <1>2, <1>4, <1>5, <1>7, <2>1 DEF SweepFit, At, LastSeen
<1> QED BY <1>2, <1>3, <1>4, <1>6, <1>7, OthersFit DEF SerialInv

LEMMA FindIPSerial ==
  ASSUME SerialInv, NEW c \in Callers, FindIP(c)
  PROVE  Alone' /\ Shared' /\ Fits'
<1>0. /\ c \in Procs \ {Admin} /\ c # Sweeper /\ c # Admin
      /\ At(c, "prune") /\ loc[c].todo = {} /\ UNCHANGED <<now, shared, history>>
  BY CallerPlace DEF FindIP, EndOf, Local
<1>1. Turn(c) /\ ~Outside(c) /\ CallerFit(c)
  BY <1>0, CallerPlace DEF At
<1>2. PICK l \in {"store", "count"}, keys \in SUBSET IPs :
        /\ Again(c, l, keys)
        /\ l = "store" => LastSeen(c, loc[c].ip) # None \/ UserDev(c) = 0
        /\ l = "count" => LastSeen(c, loc[c].ip) = None /\ keys = IPs
  BY DEF FindIP
<1>3. PICK r \in Locals :
        /\ Moves(c, l, r)
        /\ r.at = loc[c].at /\ r.ip = loc[c].ip /\ r.node = loc[c].node /\ r.u = loc[c].u
        /\ r.map = loc[c].map /\ r.for = loc[c].for /\ r.todo = keys /\ r.n = 0
  BY <1>0, <1>2, AgainMoves DEF SerialInv, Labels
<1>4. Shared'
  BY <1>0, <1>1, <1>3, LocalShared DEF Labels
<1>5. /\ pc'[c] = l /\ loc'[c] = r /\ \A q \in Procs \ {c} : pc'[q] = pc[q]
  BY <1>0, <1>3, MovesPoint DEF SerialInv, Labels
<1>6. UNCHANGED <<now, nodeLimit, info, online, seen, admitted, deleted>>
  BY <1>0 DEF shared, history
<1>7. CallerFit(c)'
  <2>1. CASE l = "count"
    <3>1. {i \in IPs \ loc'[c].todo : LastSeen(c, i)' # None} = {}
      BY <1>2, <1>3, <1>5, <2>1
    <3>2. Cardinality({i \in IPs \ loc'[c].todo : LastSeen(c, i)' # None}) <= loc'[c].n
      BY <1>3, <1>5, <3>1, FS_EmptySet
    <3>3. seen'[loc'[c].map][loc'[c].ip] = None
      BY <1>2, <1>3, <1>5, <1>6, <2>1 DEF LastSeen
    <3> QED BY <1>0, <1>1, <1>3, <1>5, <1>6, <2>1, <3>2, <3>3
            DEF CallerFit, SameLimits, At, LastSeen
  <2>2. CASE l = "store"
    <3>1. ASSUME ~deleted, LastSeen(c, loc[c].ip) # None PROVE Recent(loc[c].ip, loc[c].at)
      <4>1. /\ online # None /\ loc[c].map = online /\ loc[c].ip \in IPs
            /\ Swept(c, loc[c].ip)
        BY <1>0, <1>1 DEF CallerFit, At
      <4>2. admitted[loc[c].ip] = LastSeen(c, loc[c].ip)
        BY <3>1, <4>1 DEF SerialInv, Shared, Entries, LastSeen
      <4>3. /\ ~(admitted[loc[c].ip] + Window < loc[c].at) /\ loc[c].at \in Nat
            /\ admitted[loc[c].ip] \in Nat /\ Window \in Nat
        BY <1>0, <3>1, <4>1, <4>2, SharedTypes, LocTypes DEF Swept, Expired, SerialInv
      <4> QED BY <3>1, <4>2, <4>3 DEF Recent
    <3>2. deleted \/ Recent(loc[c].ip, loc[c].at) \/ ~(UserDev(c) > 0)
      BY <1>2, <2>2, <3>1
    <3>3. UserDev(c)' = UserDev(c)
      BY <1>3, <1>5 DEF UserDev
    <3>4. \/ deleted' \/ ~(UserDev(c)' > 0)
          \/ admitted'[loc'[c].ip] # None /\ loc'[c].at <= admitted'[loc'[c].ip] + Window
      BY <1>3, <1>5, <1>6, <3>2, <3>3 DEF Recent
    <3> QED BY <1>0, <1>1, <1>3, <1>5, <1>6, <2>2, <3>4 DEF CallerFit, SameLimits, At, Recent
  <2> QED BY <2>1, <2>2
<1> QED BY <1>0, <1>1, <1>4, <1>5, <1>7, OthersFit DEF SerialInv

LEMMA RejectSerial ==
  ASSUME SerialInv, NEW c \in Callers, Reject(c)
  PROVE  Alone' /\ Shared' /\ Fits'
<1>0. /\ c \in Procs \ {Admin} /\ c # Sweeper /\ c # Admin /\ At(c, "count")
      /\ UNCHANGED <<now, shared, history>>
  BY CallerPlace DEF Reject, EndOf, Local
<1>1. Turn(c) /\ ~Outside(c)
  BY <1>0, CallerPlace DEF At
<1>2. Moves(c, "idle", NoLocals) /\ NoLocals \in Locals
  BY <1>0, ReturnMoves DEF Reject
<1>3. Shared'
  BY <1>0, <1>1, <1>2, LocalShared DEF Labels
<1>4. pc'[c] = "idle" /\ \A q \in Procs \ {c} : pc'[q] = pc[q]
  BY <1>0, <1>2, MovesPoint DEF SerialInv, Labels
<1>5. CallerFit(c)'
  BY <1>4 DEF CallerFit, At
<1> QED BY <1>0, <1>1, <1>3, <1>4, <1>5, OthersFit DEF SerialInv

\* Every address admitted within the window is in the map, and was counted.
LEMMA AllowSerial ==
  ASSUME SerialInv, NEW c \in Callers, Allow(c)
  PROVE  Alone' /\ Shared' /\ Fits'
<1>0. /\ c \in Procs \ {Admin} /\ c # Sweeper /\ c # Admin /\ At(c, "count") /\ loc[c].todo = {}
      /\ ~TooMany(c) /\ UNCHANGED <<now, shared, history>>
  BY CallerPlace DEF Allow, EndOf, Local
<1>1. Turn(c) /\ ~Outside(c) /\ CallerFit(c)
  BY <1>0, CallerPlace DEF At
<1>2. Moves(c, "store", loc[c]) /\ loc[c] \in Locals
  BY <1>0, StayMoves DEF Allow, SerialInv, Labels
<1>3. Shared'
  BY <1>0, <1>1, <1>2, LocalShared DEF Labels
<1>4. /\ pc'[c] = "store" /\ loc'[c] = loc[c] /\ \A q \in Procs \ {c} : pc'[q] = pc[q]
  BY <1>0, <1>2, MovesPoint DEF SerialInv, Labels
<1> DEFINE recent == {i \in IPs : Recent(i, loc[c].at)}
           counted == {i \in IPs \ loc[c].todo : LastSeen(c, i) # None}
<1>5. online # None /\ loc[c].map = online /\ Cardinality(counted) <= loc[c].n
  BY <1>0, <1>1 DEF CallerFit, At
<1>6. recent \subseteq counted
  <2>1. ASSUME NEW i \in IPs, Recent(i, loc[c].at) PROVE LastSeen(c, i) # None
    <3>1. admitted[i] \in Nat /\ loc[c].at \in Nat /\ Window \in Nat
      BY <1>0, <2>1, SharedTypes, LocTypes DEF Recent, SerialInv
    <3>2. ~Past(i)
      BY <1>0, <1>1, <2>1, <3>1 DEF Past, Recent, Expired
    <3>3. InMap(i)
      BY <2>1, <3>2 DEF SerialInv, Shared, Known, Recent
    <3> QED BY <1>5, <3>3 DEF InMap, LastSeen
  <2> QED BY <1>0, <2>1
<1>7. /\ Cardinality(recent) \in Nat /\ Cardinality(counted) \in Nat
      /\ Cardinality(recent) <= Cardinality(counted)
  <2>1. IsFiniteSet(counted)
    BY FS_Subset, LimitsAssumption
  <2> HIDE DEF recent, counted
  <2> QED BY <1>6, <2>1, FS_Subset, FS_CardinalityType
<1>8. UserDev(c) \in Nat /\ loc[c].n \in Nat
  BY <1>0, LocTypes DEF SerialInv, UserDev, Info
<1>9. Cardinality(recent) < UserDev(c)
  <2> HIDE DEF recent, counted
  <2> QED BY <1>0, <1>5, <1>7, <1>8 DEF TooMany
<1>10. Cardinality({i \in IPs : Recent(i, loc[c].at)'}) < UserDev(c)'
  <2>1. UserDev(c)' = UserDev(c)
    BY <1>4 DEF UserDev
  <2>2. {i \in IPs : admitted'[i] # None /\ loc'[c].at <= admitted'[i] + Window} = recent
    BY <1>0, <1>4 DEF Recent, history
  <2> HIDE DEF recent
  <2> QED BY <1>9, <2>1, <2>2 DEF Recent
<1>11. CallerFit(c)'
  BY <1>0, <1>1, <1>4, <1>10 DEF CallerFit, SameLimits, At, shared
<1> QED BY <1>0, <1>1, <1>3, <1>4, <1>11, OthersFit DEF SerialInv

LEMMA StoreIPSerial ==
  ASSUME SerialInv, NEW c \in Callers, StoreIP(c)
  PROVE  Alone' /\ Shared' /\ Fits'
<1>0. c \in Procs \ {Admin} /\ c # Sweeper /\ c # Admin /\ At(c, "store")
  BY CallerPlace DEF StoreIP
<1>1. Turn(c) /\ ~Outside(c) /\ CallerFit(c)
  BY <1>0, CallerPlace DEF At
<1>2. Moves(c, "take", loc[c]) /\ loc[c] \in Locals
  BY <1>0, StayMoves DEF StoreIP, SerialInv, Labels
<1>3. /\ pc'[c] = "take" /\ loc'[c] = loc[c]
      /\ \A q \in Procs \ {c} : pc'[q] = pc[q] /\ loc'[q] = loc[q]
  BY <1>0, <1>2, MovesPoint DEF SerialInv, Labels
<1>4. /\ UNCHANGED <<now, nodeLimit, info, hub, online, fresh, applied, deleted>>
      /\ pc'[Admin] = pc[Admin]
  BY <1>0, <1>3, ProcFacts DEF StoreIP
<1> DEFINE k == loc[c].ip
<1>5. /\ online # None /\ loc[c].map = online /\ k \in IPs
      /\ online \in Maps /\ online < fresh /\ loc[c].at \in Nat
  <2>1. online # None /\ loc[c].map = online /\ k \in IPs
    BY <1>0, <1>1 DEF CallerFit, At
  <2> QED BY <1>0, <2>1, SharedTypes, LocTypes DEF SerialInv, Shared, Entries
<1>6. /\ seen'[online][k] = loc[c].at /\ admitted'[k] = loc[c].at
      /\ \A o \in Maps : \A i \in IPs : o # online \/ i # k => seen'[o][i] = seen[o][i]
      /\ \A i \in IPs : i # k => admitted'[i] = admitted[i]
  <2>1. /\ seen \in [Maps -> [IPs -> Nat \cup {None}]]
        /\ admitted \in [IPs -> Nat \cup {None}]
    BY DEF SerialInv, TypeInv, TypeOK
  <2> QED BY <1>5, <2>1 DEF StoreIP
<1>7. Shared'
  <2>1. LimitsHold' /\ BucketHolds'
    BY <1>4 DEF SerialInv, Shared, LimitsHold, BucketHolds, SameLimits, At
  <2>2. Entries'
    <3>1. Entries
      BY DEF SerialInv, Shared
    <3>2. online' # None => online' < fresh'
      BY <1>4, <3>1 DEF Entries
    <3>3. ASSUME NEW o \in Maps, o >= fresh, NEW i \in IPs PROVE seen'[o][i] = None
      <4>1. o # online
        BY <1>5, <3>3, SharedTypes DEF SerialInv, Maps
      <4> QED BY <1>6, <3>1, <3>3, <4>1 DEF Entries
    <3>4. ~deleted' /\ online' # None =>
            \A i \in IPs : seen'[online'][i] # None => admitted'[i] = seen'[online'][i]
      BY <1>4, <1>5, <1>6, <3>1 DEF Entries
    <3> QED BY <1>4, <3>2, <3>3, <3>4 DEF Entries
  <2>3. ASSUME NEW i \in IPs, i # k, Past(i) PROVE Past(i)'
    BY <1>1, <1>3, <1>4, <1>6, <2>3 DEF Past, Outside, At, Expired
  <2>4. Known'
    <3>1. ASSUME NEW i \in IPs, admitted'[i] # None PROVE InMap(i)' \/ Past(i)'
      <4>1. CASE i = k
        BY <1>4, <1>5, <1>6, <4>1, NoneAssumption DEF InMap
      <4>2. CASE i # k /\ Past(i)
        BY <2>3, <4>2
      <4>3. CASE i # k /\ InMap(i)
        BY <1>4, <1>5, <1>6, <4>3 DEF InMap
      <4> QED BY <1>6, <3>1, <4>1, <4>2, <4>3 DEF SerialInv, Shared, Known
    <3> QED BY <3>1 DEF Known
  <2> QED BY <2>1, <2>2, <2>4 DEF Shared
<1>8. CallerFit(c)'
  BY <1>0, <1>1, <1>3, <1>4 DEF CallerFit, SameLimits, At
<1> QED BY <1>0, <1>1, <1>3, <1>7, <1>8, OthersFit DEF SerialInv

\* A new bucket runs at the rate of the limits in force.
LEMMA TakeBucketSerial ==
  ASSUME SerialInv, NEW c \in Callers, TakeBucket(c)
  PROVE  Alone' /\ Shared' /\ Fits'
<1>0. c \in Procs \ {Admin} /\ c # Sweeper /\ c # Admin /\ At(c, "take")
  BY CallerPlace DEF TakeBucket
<1>1. Turn(c) /\ ~Outside(c) /\ CallerFit(c)
  BY <1>0, CallerPlace DEF At
<1>2. Moves(c, "idle", NoLocals) /\ NoLocals \in Locals
  BY <1>0, ReturnMoves DEF TakeBucket
<1>3. /\ pc'[c] = "idle" /\ \A q \in Procs \ {c} : pc'[q] = pc[q] /\ loc'[q] = loc[q]
  BY <1>0, <1>2, MovesPoint DEF SerialInv, Labels
<1>4. /\ UNCHANGED <<now, nodeLimit, info, online, seen, fresh, applied, admitted, deleted>>
      /\ pc'[Admin] = pc[Admin]
  BY <1>0, <1>3, ProcFacts DEF TakeBucket, HubOnly, history
<1>5. Shared'
  <2>1. LimitsHold'
    BY <1>4 DEF SerialInv, Shared, LimitsHold, SameLimits, At
  <2>2. BucketHolds'
    <3>1. CASE hub' = hub
      BY <1>4, <3>1 DEF SerialInv, Shared, BucketHolds
    <3>2. CASE hub' = Rate(loc[c].node, UserSpeed(c))
      <4>1. ASSUME info # None PROVE Rate(loc[c].node, UserSpeed(c)) = Rate(nodeLimit, info.speed)
        BY <1>0, <1>1, <4>1 DEF CallerFit, UserSpeed, SameLimits, At
      <4> QED BY <1>4, <3>2, <4>1 DEF BucketHolds
    <3> QED BY <1>0, <3>1, <3>2 DEF TakeBucket
  <2>3. Known' /\ Entries'
    BY <1>0, <1>1, <1>3, <1>4
    DEF SerialInv, Shared, Known, InMap, Past, Entries, Outside, At, Expired
  <2> QED BY <2>1, <2>2, <2>3 DEF Shared
<1>6. CallerFit(c)'
  BY <1>3 DEF CallerFit, At
<1> QED BY <1>0, <1>1, <1>3, <1>5, <1>6, OthersFit DEF SerialInv

LEMMA CallerSerial ==
  ASSUME Serial, SerialInv, NEW c \in Callers, GetUserBucket(c)
  PROVE  Alone' /\ Shared' /\ Fits'
<1>1. c \in Procs \ {Admin}
  BY CallerPlace
<1> QED BY <1>1, ConnectSerial, LoadUserSerial, TouchUserSerial, LoadMapSerial, PruneKeySerial,
           DropKeySerial, FindIPSerial, CountKeySerial, RejectSerial, AllowSerial, StoreIPSerial,
           TakeBucketSerial DEF GetUserBucket

LEMMA SweepEnterSerial ==
  ASSUME Serial, SerialInv, GetOnlineDevice \/ CleanupInactive
  PROVE  Alone' /\ Shared' /\ Fits'
<1>0. Sweeper \in Procs \ {Admin} /\ Sweeper \notin Callers
  BY ProcFacts
<1>1. PICK r \in Locals, l \in {"prune", "clean", "stale"} :
        /\ Moves(Sweeper, l, r) /\ (Serial => Quiescent)
        /\ UNCHANGED <<now, shared, history>>
        /\ r.at = now /\ r.map = online /\ r.todo = IPs /\ (l = "prune" => online # None)
  BY SweepMoves DEF SerialInv
<1>2. Turn(Sweeper)
  BY <1>0, <1>1, TurnOf DEF SerialInv
<1>3. Shared'
  BY <1>0, <1>1, <1>2, LocalShared DEF Labels
<1>4. pc'[Sweeper] = l /\ loc'[Sweeper] = r /\ \A q \in Procs \ {Sweeper} : pc'[q] = pc[q]
  BY <1>0, <1>1, MovesPoint DEF SerialInv, Labels
<1>5. SweepFit'
  BY <1>1, <1>4, SharedTypes DEF SweepFit, At, shared, SerialInv
<1> QED BY <1>0, <1>2, <1>3, <1>4, <1>5, OthersFit DEF SerialInv

\* The end of a loop, and the tests between the maps.
LEMMA SweepTestSerial ==
  ASSUME SerialInv, EndReport \/ EndPrune \/ EndCount \/ IdleUser \/ OfflineUser \/ OrphanBucket
  PROVE  Alone' /\ Shared' /\ Fits'
<1>0. /\ Sweeper \in Procs \ {Admin} /\ Sweeper \notin Callers
      /\ UNCHANGED <<now, shared, history>> /\ ~Outside(Sweeper)
      /\ pc[Sweeper] \in {"prune", "count", "stale", "offline", "orphan"} /\ SweepFit
  BY ProcFacts DEF EndReport, EndPrune, EndCount, IdleUser, OfflineUser, OrphanBucket, EndOf,
                   Local, Outside, At, SerialInv, Fits
<1>1. Turn(Sweeper)
  BY <1>0, TurnOf DEF SerialInv
<1>2. PICK l \in Labels, r \in Locals :
        /\ Moves(Sweeper, l, r)
        /\ l \in {"idle", "clean"} \/ r.at = loc[Sweeper].at
        /\ l \in {"idle", "clean", "forget", "count", "stale", "offline", "dropbucket", "orphan"}
        /\ l = "forget" => /\ r = loc[Sweeper] /\ pc[Sweeper] \in {"prune", "count"}
                           /\ r.n = 0 /\ r.todo = {}
        /\ l = "count" => /\ pc[Sweeper] = "prune" /\ r.todo = IPs /\ r.map = loc[Sweeper].map
  <2>1. CASE EndPrune
    BY <1>0, <2>1, AgainMoves DEF EndPrune, EndOf, At, SerialInv, Labels
  <2>2. CASE OrphanBucket
    BY <1>0, <2>2, StayMoves, ReturnMoves DEF OrphanBucket, SerialInv, Labels
  <2>3. CASE EndReport \/ EndCount \/ IdleUser \/ OfflineUser
    <3>1. PICK l \in Labels :
            /\ Goto(Sweeper, l) /\ UNCHANGED loc
            /\ l \in {"clean", "forget", "stale", "offline", "dropbucket", "orphan"}
            /\ l = "forget" => /\ pc[Sweeper] \in {"prune", "count"}
                               /\ loc[Sweeper].n = 0 /\ loc[Sweeper].todo = {}
      BY <2>3 DEF EndReport, EndCount, IdleUser, OfflineUser, EndOf, At, Labels
    <3> QED BY <1>0, <3>1, StayMoves DEF SerialInv
  <2> QED BY <2>1, <2>2, <2>3
<1>3. Shared'
  BY <1>0, <1>1, <1>2, LocalShared
<1>4. pc'[Sweeper] = l /\ loc'[Sweeper] = r /\ \A q \in Procs \ {Sweeper} : pc'[q] = pc[q]
  BY <1>0, <1>2, MovesPoint DEF SerialInv
<1>5. SweepFit'
  <2>1. UNCHANGED <<now, online, seen>>
    BY <1>0 DEF shared
  <2>2. CASE l = "forget"
    BY <1>0, <1>2, <1>4, <2>1, <2>2 DEF SweepFit, At, Outside, LastSeen
  <2>3. CASE l = "count"
    BY <1>0, <1>2, <1>4, <2>1, <2>3 DEF SweepFit, At, Outside
  <2>4. CASE l \in {"idle", "clean", "stale", "offline", "dropbucket", "orphan"}
    BY <1>0, <1>2, <1>4, <2>1, <2>4 DEF SweepFit, At, Outside
  <2> QED BY <1>2, <2>2, <2>3, <2>4
<1> QED BY <1>0, <1>1, <1>3, <1>4, <1>5, OthersFit DEF SerialInv

\* The key goes only when every address in the map is past.
LEMMA ForgetUserSerial ==
  ASSUME SerialInv, ForgetUser
  PROVE  Alone' /\ Shared' /\ Fits'
<1>0. /\ Sweeper \in Procs \ {Admin} /\ Sweeper \notin Callers
      /\ At(Sweeper, "forget") /\ ~Outside(Sweeper) /\ SweepFit
  BY ProcFacts DEF ForgetUser, Outside, At, SerialInv, Fits
<1>1. Turn(Sweeper)
  BY <1>0, TurnOf DEF SerialInv
<1>2. PICK l \in {"clean", "stale"} : Moves(Sweeper, l, loc[Sweeper]) /\ loc[Sweeper] \in Locals
  <2>1. UNCHANGED loc /\ \E l \in {"clean", "stale"} : Goto(Sweeper, l)
    BY DEF ForgetUser
  <2> QED BY <1>0, <2>1, StayMoves DEF SerialInv, Labels
<1>3. /\ pc'[Sweeper] = l /\ loc'[Sweeper] = loc[Sweeper]
      /\ \A q \in Procs \ {Sweeper} : pc'[q] = pc[q] /\ loc'[q] = loc[q]
  BY <1>0, <1>2, MovesPoint DEF SerialInv, Labels
<1>4. /\ UNCHANGED <<now, nodeLimit, info, hub, seen, fresh, applied, admitted, deleted>>
      /\ online' = None /\ pc'[Admin] = pc[Admin]
  BY <1>0, <1>3, ProcFacts DEF ForgetUser, OnlineOnly, history
<1>5. ASSUME NEW i \in IPs, admitted[i] # None PROVE Past(i)'
  <2>1. ~InMap(i)
    BY <1>0 DEF SweepFit, At, InMap, LastSeen
  <2>2. Past(i)
    BY <1>5, <2>1 DEF SerialInv, Shared, Known
  <2> QED BY <1>0, <1>3, <1>4, <2>2 DEF Past, Outside, At, Expired
<1>6. Shared'
  <2>1. LimitsHold' /\ BucketHolds'
    BY <1>4 DEF SerialInv, Shared, LimitsHold, BucketHolds, SameLimits, At
  <2>2. Known' /\ Entries'
    BY <1>4, <1>5 DEF SerialInv, Shared, Known, Entries
  <2> QED BY <2>1, <2>2 DEF Shared
<1>7. SweepFit'
  BY <1>0, <1>2, <1>3, <1>4 DEF SweepFit, At, Outside
<1> QED BY <1>0, <1>1, <1>3, <1>6, <1>7, OthersFit DEF SerialInv

LEMMA DropBucketSerial ==
  ASSUME SerialInv, DropBucket
  PROVE  Alone' /\ Shared' /\ Fits'
<1>0. /\ Sweeper \in Procs \ {Admin} /\ Sweeper \notin Callers
      /\ ~Outside(Sweeper) /\ SweepFit
  BY ProcFacts DEF DropBucket, Outside, At, SerialInv, Fits
<1>1. Turn(Sweeper)
  BY <1>0, TurnOf DEF SerialInv
<1>2. Moves(Sweeper, "orphan", loc[Sweeper]) /\ loc[Sweeper] \in Locals
  BY <1>0, StayMoves DEF DropBucket, SerialInv, Labels
<1>3. /\ pc'[Sweeper] = "orphan" /\ loc'[Sweeper] = loc[Sweeper]
      /\ \A q \in Procs \ {Sweeper} : pc'[q] = pc[q] /\ loc'[q] = loc[q]
  BY <1>0, <1>2, MovesPoint DEF SerialInv, Labels
<1>4. /\ UNCHANGED <<now, nodeLimit, info, online, seen, fresh, applied, admitted, deleted>>
      /\ hub' = None /\ pc'[Admin] = pc[Admin]
  BY <1>0, <1>3, ProcFacts DEF DropBucket, HubOnly, history
<1>5. Shared'
  <2>1. LimitsHold' /\ BucketHolds'
    BY <1>4 DEF SerialInv, Shared, LimitsHold, BucketHolds, SameLimits, At
  <2>2. Known' /\ Entries'
    BY <1>0, <1>1, <1>3, <1>4
    DEF SerialInv, Shared, Known, InMap, Past, Entries, Outside, At, Expired
  <2> QED BY <2>1, <2>2 DEF Shared
<1>6. SweepFit'
  BY <1>0, <1>3, <1>4 DEF SweepFit, At, Outside
<1> QED BY <1>0, <1>1, <1>3, <1>5, <1>6, OthersFit DEF SerialInv

LEMMA SweepSerial ==
  ASSUME Serial, SerialInv, Sweep
  PROVE  Alone' /\ Shared' /\ Fits'
<1>1. Sweeper \in Procs \ {Admin}
  BY ProcFacts
<1> QED BY <1>1, SweepEnterSerial, PruneKeySerial, DropKeySerial, CountKeySerial, SweepTestSerial,
           ForgetUserSerial, DropBucketSerial DEF Sweep

\* The controller's step changes nothing that goroutines outside their calls and
\* the map of addresses depend on.
LEMMA AdminShared ==
  ASSUME SerialInv, NEW l \in Labels, NEW r \in Locals, Moves(Admin, l, r), Turn(Admin),
         AdminFit', LimitsHold', BucketHolds',
         UNCHANGED <<now, online, seen, fresh>>,
         \/ UNCHANGED <<admitted, deleted>>
         \/ deleted' /\ \A i \in IPs : admitted'[i] = None
  PROVE  Alone' /\ Shared' /\ Fits'
<1>0. Admin \in Procs /\ Admin # Sweeper /\ Admin \notin Callers
  BY ProcFacts
<1>1. \A q \in Procs \ {Admin} : pc'[q] = pc[q] /\ loc'[q] = loc[q]
  BY <1>0, MovesPoint DEF SerialInv
<1>2. Known' /\ Entries'
  BY <1>1 DEF SerialInv, Shared, Known, InMap, Past, Entries, Outside, At, Expired
<1> QED BY <1>0, <1>1, <1>2, OthersFit DEF SerialInv, Shared

LEMMA AdminSerial ==
  ASSUME Serial, SerialInv, Administer
  PROVE  Alone' /\ Shared' /\ Fits'
<1>0. /\ Admin \in Procs /\ LimitsHold /\ BucketHolds /\ AdminFit /\ Known /\ Entries
      /\ \A l \in {"write", "rate", "range", "delbucket", "delonline"} :
           At(Admin, l) => Turn(Admin)
      /\ Quiescent => Turn(Admin)
  BY ProcFacts, TurnOf DEF SerialInv, Shared, Fits, Outside, At
<1>1. CASE UpdateInboundLimiter
  <2>1. PICK r \in Locals, m \in Limits :
          Moves(Admin, "write", r) /\ applied' = m /\ r.at = now /\ r.u = info
    BY <1>1, UpdateMoves DEF SerialInv
  <2>2. Turn(Admin) /\ applied' # None
    BY <1>0, <1>1, <2>1, NoneAssumption DEF UpdateInboundLimiter, EnterAdmin, Enter
  <2>3. pc'[Admin] = "write"
    BY <1>0, <2>1, MovesPoint DEF SerialInv, Labels
  <2>4. AdminFit' /\ LimitsHold' /\ BucketHolds'
    BY <2>2, <2>3 DEF AdminFit, LimitsHold, BucketHolds, At
  <2>5. UNCHANGED <<now, online, seen, fresh, deleted>>
    BY <1>1 DEF UpdateInboundLimiter, shared
  <2>6. UNCHANGED admitted \/ (deleted' /\ \A i \in IPs : admitted'[i] = None)
    BY <1>0, <1>1, <2>5 DEF UpdateInboundLimiter, NoneAdmitted, LimitsHold
  <2> QED BY <2>1, <2>2, <2>4, <2>5, <2>6, AdminShared DEF Labels
<1>2. CASE WriteUser
  <2>1. PICK r \in Locals : Moves(Admin, "rate", r) /\ r.u = info'
    BY <1>2, WriteMoves DEF SerialInv
  <2>2. info' \in Info /\ SameLimits(info', applied) /\ applied # None /\ info' # None
    BY <1>2, WriteMoves, NoneAssumption DEF SerialInv, SameLimits, Info
  <2>3. /\ Turn(Admin) /\ UNCHANGED <<now, online, seen, fresh, applied, admitted, deleted>>
    BY <1>0, <1>2 DEF WriteUser, InfoOnly, history
  <2>4. pc'[Admin] = "rate" /\ loc'[Admin] = r
    BY <1>0, <2>1, MovesPoint DEF SerialInv, Labels
  <2>5. AdminFit' /\ LimitsHold' /\ BucketHolds'
    BY <2>1, <2>2, <2>3, <2>4 DEF AdminFit, LimitsHold, BucketHolds, SameLimits, At
  <2> QED BY <2>1, <2>3, <2>5, AdminShared DEF Labels
<1>3. CASE SetUserRate
  <2>1. Moves(Admin, "idle", NoLocals) /\ NoLocals \in Locals
    BY <1>0, <1>3, ReturnMoves DEF SetUserRate
  <2>2. /\ Turn(Admin)
        /\ UNCHANGED <<now, nodeLimit, info, online, seen, fresh, applied, admitted, deleted>>
    BY <1>0, <1>3 DEF SetUserRate, HubOnly, history
  <2>3. pc'[Admin] = "idle" /\ At(Admin, "rate")
    BY <1>0, <1>3, <2>1, MovesPoint DEF SerialInv, Labels, SetUserRate
  <2>4. hub' # None => hub' = Rate(nodeLimit, info.speed)
    BY <1>0, <1>3, <2>3 DEF SetUserRate, SetBucket, AdminFit
  <2>5. AdminFit' /\ LimitsHold' /\ BucketHolds'
    BY <1>0, <2>2, <2>3, <2>4 DEF AdminFit, LimitsHold, BucketHolds, SameLimits, At
  <2> QED BY <2>1, <2>2, <2>5, AdminShared DEF Labels
<1>4. CASE UpdateNodeSpeedLimit
  <2>1. Moves(Admin, "range", loc[Admin]) /\ loc[Admin] \in Locals
    BY <1>0, <1>4, StayMoves DEF UpdateNodeSpeedLimit, SerialInv, Labels
  <2>2. Turn(Admin) /\ UNCHANGED <<now, info, online, seen, fresh, applied, admitted, deleted>>
    BY <1>0, <1>4 DEF UpdateNodeSpeedLimit, EnterAdmin, Enter, history
  <2>3. pc'[Admin] = "range" /\ At(Admin, "idle")
    BY <1>0, <1>4, <2>1, MovesPoint
    DEF SerialInv, Labels, UpdateNodeSpeedLimit, EnterAdmin, Enter
  <2>4. AdminFit' /\ LimitsHold' /\ BucketHolds'
    BY <1>0, <2>2, <2>3 DEF AdminFit, LimitsHold, BucketHolds, SameLimits, At
  <2> QED BY <2>1, <2>2, <2>4, AdminShared DEF Labels
<1>5. CASE RangeUsers
  <2>1. /\ At(Admin, "range") /\ Turn(Admin)
        /\ UNCHANGED <<now, nodeLimit, info, hub, online, seen, fresh, applied, admitted, deleted>>
    BY <1>0, <1>5 DEF RangeUsers, Local, shared, history
  <2>2. CASE info = None /\ Moves(Admin, "idle", NoLocals)
    <3>1. pc'[Admin] = "idle" /\ NoLocals \in Locals
      BY <1>0, <2>2, MovesPoint, NoLocalsType DEF SerialInv, Labels
    <3>2. AdminFit' /\ LimitsHold' /\ BucketHolds'
      BY <1>0, <2>1, <2>2, <3>1 DEF AdminFit, LimitsHold, BucketHolds, SameLimits, At
    <3> QED BY <2>1, <2>2, <3>1, <3>2, AdminShared DEF Labels
  <2>3. ASSUME NEW r \in Locals, info # None, Moves(Admin, "rate", r), r.u = info
        PROVE  Alone' /\ Shared' /\ Fits'
    <3>1. pc'[Admin] = "rate" /\ loc'[Admin] = r
      BY <1>0, <2>3, MovesPoint DEF SerialInv, Labels
    <3>2. AdminFit' /\ LimitsHold' /\ BucketHolds'
      BY <1>0, <2>1, <2>3, <3>1 DEF AdminFit, LimitsHold, BucketHolds, SameLimits, At
    <3> QED BY <2>1, <2>3, <3>2, AdminShared DEF Labels
  <2> QED BY <1>5, <2>2, <2>3, RangeMoves DEF SerialInv
<1>6. CASE DeleteUsers
  <2>1. Moves(Admin, "delbucket", loc[Admin]) /\ loc[Admin] \in Locals
    BY <1>0, <1>6, StayMoves DEF DeleteUsers, SerialInv, Labels
  <2>2. /\ Turn(Admin) /\ UNCHANGED <<now, online, seen, fresh>>
        /\ applied' = None /\ info' = None /\ deleted' /\ \A i \in IPs : admitted'[i] = None
    BY <1>0, <1>6 DEF DeleteUsers, NoneAdmitted, EnterAdmin, Enter
  <2>3. pc'[Admin] = "delbucket"
    BY <1>0, <2>1, MovesPoint DEF SerialInv, Labels
  <2>4. AdminFit' /\ LimitsHold' /\ BucketHolds'
    BY <2>2, <2>3 DEF AdminFit, LimitsHold, BucketHolds, At
  <2> QED BY <2>1, <2>2, <2>4, AdminShared DEF Labels
<1>7. CASE DeleteBucket
  <2>1. Moves(Admin, "delonline", loc[Admin]) /\ loc[Admin] \in Locals
    BY <1>0, <1>7, StayMoves DEF DeleteBucket, SerialInv, Labels
  <2>2. /\ Turn(Admin) /\ hub' = None /\ At(Admin, "delbucket")
        /\ UNCHANGED <<now, info, online, seen, fresh, applied, admitted, deleted>>
    BY <1>0, <1>7 DEF DeleteBucket, HubOnly, history
  <2>3. pc'[Admin] = "delonline"
    BY <1>0, <2>1, MovesPoint DEF SerialInv, Labels
  <2>4. AdminFit' /\ LimitsHold' /\ BucketHolds'
    BY <1>0, <2>2, <2>3 DEF AdminFit, LimitsHold, BucketHolds, SameLimits, At
  <2> QED BY <2>1, <2>2, <2>4, AdminShared DEF Labels
<1>8. CASE DeleteOnline
  <2>1. Moves(Admin, "idle", NoLocals) /\ NoLocals \in Locals
    BY <1>0, <1>8, ReturnMoves DEF DeleteOnline
  <2>2. /\ Turn(Admin) /\ At(Admin, "delonline") /\ online' = None
        /\ UNCHANGED <<now, nodeLimit, info, hub, seen, fresh, applied, admitted, deleted>>
    BY <1>0, <1>8 DEF DeleteOnline, OnlineOnly, history
  <2>3. pc'[Admin] = "idle" /\ \A q \in Procs \ {Admin} : pc'[q] = pc[q]
    BY <1>0, <2>1, MovesPoint DEF SerialInv, Labels
  <2>4. AdminFit' /\ LimitsHold' /\ BucketHolds'
    BY <1>0, <2>2, <2>3 DEF AdminFit, LimitsHold, BucketHolds, SameLimits, At
  <2>5. Known' /\ Entries'
    BY <1>0, <2>2 DEF AdminFit, Known, Entries, At
  <2> QED BY <1>0, <2>2, <2>3, <2>4, <2>5, ProcFacts, OthersFit DEF SerialInv, Shared
<1> QED BY <1>1, <1>2, <1>3, <1>4, <1>5, <1>6, <1>7, <1>8 DEF Administer

\* Time passes: a call in progress keeps the time it began at.
LEMMA TickSerial ==
  ASSUME SerialInv, Tick
  PROVE  Alone' /\ Shared' /\ Fits'
<1>1. /\ now \in Nat /\ now' = now + 1
      /\ UNCHANGED <<nodeLimit, info, hub, online, seen, fresh, pc, loc, applied, admitted, deleted>>
  BY SharedTypes DEF SerialInv, Tick, shared, history
<1>2. \A p \in Procs : loc[p].at \in Nat
  BY LocTypes DEF SerialInv
<1>3. Alone' /\ LimitsHold' /\ BucketHolds' /\ Entries' /\ AdminFit'
  BY <1>1 DEF SerialInv, Shared, Fits, Alone, Outside, LimitsHold, BucketHolds, Entries, AdminFit,
              SameLimits, At
<1>4. Known'
  <2>1. ASSUME NEW i \in IPs, admitted[i] # None, Past(i) PROVE Past(i)'
    <3>1. admitted[i] \in Nat /\ Window \in Nat
      BY <2>1, SharedTypes DEF SerialInv
    <3> QED BY <1>1, <2>1, <3>1 DEF Past, Outside, At, Expired
  <2> QED BY <1>1, <2>1 DEF SerialInv, Shared, Known, InMap
<1>5. ASSUME NEW c \in Callers PROVE CallerFit(c)'
  <2>1. CallerFit(c) /\ loc[c].at \in Nat
    BY <1>2, ProcFacts DEF SerialInv, Fits
  <2> QED BY <1>1, <2>1 DEF CallerFit, SameLimits, Swept, Dropping, LastSeen, Expired, Recent,
                            UserDev, At
<1>6. SweepFit'
  <2>1. SweepFit /\ loc[Sweeper].at \in Nat
    BY <1>2, ProcFacts DEF SerialInv, Fits
  <2> QED BY <1>1, <2>1 DEF SweepFit, Dropping, LastSeen, Expired, Outside, At
<1> QED BY <1>3, <1>4, <1>5, <1>6 DEF Shared, Fits

LEMMA InitSerial == ASSUME Init PROVE SerialInv
<1>1. TypeInv
  BY InitTypes
<1>2. Alone /\ Fits
  BY ProcFacts DEF Init, Alone, Fits, CallerFit, SweepFit, AdminFit, Outside, At
<1>3. LimitsHold
  <2>1. applied \in Limits /\ applied # None /\ applied.speed \in Nat /\ applied.dev \in Nat
    BY LimitsAssumption, NoneAssumption DEF Init
  <2>2. info = [speed |-> applied.speed, dev |-> applied.dev, last |-> 0]
    BY DEF Init
  <2>3. info \in Info /\ SameLimits(info, applied)
    BY <2>1, <2>2 DEF Info, SameLimits
  <2> QED BY <2>1, <2>3, NoneAssumption DEF LimitsHold, Info
<1>4. BucketHolds /\ Known /\ Entries
  BY DEF Init, BucketHolds, Known, Entries
<1> QED BY <1>1, <1>2, <1>3, <1>4 DEF SerialInv, Shared

LEMMA NextSerial == ASSUME Serial, SerialInv, [Next]_vars PROVE SerialInv'
<1>1. TypeInv'
  BY NextTypes DEF SerialInv
<1>2. CASE UNCHANGED vars
  <2>1. UNCHANGED <<now, nodeLimit, info, hub, online, seen, fresh, pc, loc, applied, admitted, deleted>>
    BY <1>2 DEF vars, shared, history
  <2>2. Alone' /\ LimitsHold' /\ BucketHolds' /\ Entries' /\ AdminFit'
    BY <2>1 DEF SerialInv, Shared, Fits, Alone, Outside, LimitsHold, BucketHolds, Entries, AdminFit,
                SameLimits, At
  <2>3. Known'
    BY <2>1 DEF SerialInv, Shared, Known, InMap, Past, Outside, At, Expired
  <2>4. ASSUME NEW c \in Callers PROVE CallerFit(c)'
    <3>1. CallerFit(c)
      BY DEF SerialInv, Fits
    <3> QED BY <2>1, <3>1 DEF CallerFit, SameLimits, Swept, Dropping, LastSeen, Expired, Recent,
                              UserDev, At
  <2>5. SweepFit'
    BY <2>1 DEF SerialInv, Fits, SweepFit, Dropping, LastSeen, Expired, Outside, At
  <2> QED BY <1>1, <2>2, <2>3, <2>4, <2>5 DEF SerialInv, Shared, Fits
<1>3. CASE Next
  <2>1. Alone' /\ Shared' /\ Fits'
    BY <1>3, TickSerial, CallerSerial, SweepSerial, AdminSerial DEF Next
  <2> QED BY <1>1, <2>1 DEF SerialInv
<1> QED BY <1>2, <1>3

LEMMA SerialInvariant == ASSUME Serial PROVE Spec => []SerialInv
BY InitSerial, NextSerial, PTL DEF Spec

\* When calls do not overlap, the limits in force between two calls are those the
\* controller set last: no connection stores older ones back (GetUserBucket,
\* UpdateInboundLimiter, DeleteUsers).
THEOREM SerialLimits == ASSUME Serial PROVE Spec => []LimitsAsApplied
<1>1. SerialInv => LimitsAsApplied
  BY ProcFacts
  DEF SerialInv, Shared, LimitsHold, SameLimits, LimitsAsApplied, Quiescent, Outside, At
<1> QED BY <1>1, SerialInvariant, PTL

\* When calls do not overlap, the bucket a user keeps runs at the rate its limits
\* and the node's give (GetUserBucket, UpdateInboundLimiter, UpdateNodeSpeedLimit).
THEOREM SerialBucket == ASSUME Serial PROVE Spec => []BucketFollows
<1>1. SerialInv => BucketFollows
  BY ProcFacts
  DEF SerialInv, Shared, BucketHolds, BucketFollows, Quiescent, Outside, At
<1> QED BY <1>1, SerialInvariant, PTL

\* When calls do not overlap, no sweep forgets a device that was admitted within
\* the window (GetOnlineDevice, CleanupInactive).
THEOREM SerialOnline == ASSUME Serial PROVE Spec => []OnlineKept
<1>1. ASSUME SerialInv, NEW i \in IPs, Recent(i, now)
      PROVE  online # None /\ seen[online][i] # None
  <2>1. now \in Nat /\ admitted[i] \in Nat /\ Window \in Nat
    BY <1>1, SharedTypes DEF Recent, SerialInv
  <2>2. ~Past(i)
    BY <1>1, <2>1 DEF Past, Recent, Expired
  <2> QED BY <1>1, <2>2 DEF SerialInv, Shared, Known, Recent, InMap
<1>2. SerialInv => OnlineKept
  BY <1>1 DEF OnlineKept
<1> QED BY <1>2, SerialInvariant, PTL

\* When calls do not overlap, a device admitted within the window is not rejected
\* (GetUserBucket finds it in the map before it counts the others).
THEOREM SerialKnown == ASSUME Serial PROVE Spec => KnownDeviceAdmitted
<1>1. ASSUME SerialInv, NEW c \in Callers, Reject(c) PROVE ~Recent(loc[c].ip, loc[c].at)
  <2>1. /\ c \in Procs \ {Admin} /\ ~Outside(c) /\ At(c, "count")
        /\ LastSeen(c, loc[c].ip) = None /\ loc[c].map = online /\ loc[c].ip \in IPs
    BY <1>1, CallerPlace DEF Reject, EndOf, CallerFit, At
  <2>2. ASSUME Recent(loc[c].ip, loc[c].at) PROVE FALSE
    <3>1. loc[c].at \in Nat /\ admitted[loc[c].ip] \in Nat /\ Window \in Nat
      BY <1>1, <2>1, <2>2, SharedTypes, LocTypes DEF Recent, SerialInv
    <3>2. ~Past(loc[c].ip)
      BY <2>1, <2>2, <3>1 DEF Past, Recent, Expired
    <3> QED BY <1>1, <2>1, <2>2, <3>2 DEF SerialInv, Shared, Known, Recent, InMap, LastSeen
  <2> QED BY <2>2
<1>2. SerialInv => \A c \in Callers : Reject(c) => ~Recent(loc[c].ip, loc[c].at)
  BY <1>1
<1> QED BY <1>2, SerialInvariant, PTL DEF KnownDeviceAdmitted

\* When calls do not overlap, a device that was not admitted within the window is
\* let in only while fewer than DeviceLimit devices were (GetUserBucket).
THEOREM SerialDeviceLimit == ASSUME Serial PROVE Spec => DeviceLimit
<1>1. ASSUME SerialInv, NEW c \in Callers, StoreIP(c), ~deleted, ~Recent(loc[c].ip, loc[c].at),
             applied # None, applied.dev > 0
      PROVE  Cardinality({i \in IPs : Recent(i, loc[c].at)}) < applied.dev
  <2>1. /\ c \in Procs \ {Admin} /\ CallerFit(c) /\ At(c, "store") /\ Turn(c) /\ c # Admin
    BY <1>1, CallerPlace DEF StoreIP, At
  <2>2. ~At(Admin, "write")
    BY <2>1, ProcFacts DEF Turn, Outside, At
  <2>3. info # None /\ SameLimits(info, applied)
    BY <1>1, <2>2 DEF SerialInv, Shared, LimitsHold
  <2>4. UserDev(c) = applied.dev
    BY <2>1, <2>3 DEF CallerFit, UserDev, SameLimits, At
  <2> QED BY <1>1, <2>1, <2>4 DEF CallerFit
<1>2. SerialInv => \A c \in Callers :
        StoreIP(c) /\ ~deleted /\ ~Recent(loc[c].ip, loc[c].at) /\ applied # None /\ applied.dev > 0
          => Cardinality({i \in IPs : Recent(i, loc[c].at)}) < applied.dev
  BY <1>1
<1> QED BY <1>2, SerialInvariant, PTL DEF DeviceLimit
-----------------------------------------------------------------------------
(* When calls overlap: how far the device limit is overshot.               *)

Stored(o) == {i \in IPs : seen[o][i] # None}

\* A goroutine at l, with locals r, may still store an address that map o does
\* not hold: what it has counted and has yet to count leaves room below d.
MayStore(l, r, o, d) ==
  /\ r.map = o
  /\ \/ l = "store" /\ seen[o][r.ip] = None
     \/ l = "count" /\ r.n + Cardinality(r.todo \cap Stored(o)) < d
Storing(o, d) == {c \in Callers : MayStore(pc[c], loc[c], o, d)}

\* The address that makes them d is stored by a goroutine that is done with it;
\* after that, none that begins to count finds room.
Bounded(o, d) ==
  Cardinality(Stored(o)) >= d =>
    Cardinality(Stored(o)) + Cardinality(Storing(o, d)) < d + Cardinality(Callers)

\* The device limit in force and those the callers have read.
Within(u, d) == u # None /\ u.dev \in 1..d
AllWithin(d) ==
  /\ Within(info, d)
  /\ \A c \in Callers : pc[c] \notin {"idle", "load"} => Within(loc[c].u, d)

OverInv(d) ==
  /\ TypeInv
  /\ ~deleted => AllWithin(d)
  /\ ~deleted /\ ~dropped => \A o \in Maps : Bounded(o, d)

LEMMA Finite ==
  ASSUME NEW o, NEW d
  PROVE  /\ IsFiniteSet(IPs) /\ IsFiniteSet(Callers) /\ Cardinality(Callers) \in Nat
         /\ IsFiniteSet(Stored(o)) /\ Cardinality(Stored(o)) \in Nat
         /\ IsFiniteSet(Storing(o, d)) /\ Cardinality(Storing(o, d)) \in Nat
         /\ Cardinality(Storing(o, d)) <= Cardinality(Callers)
<1>1. IsFiniteSet(IPs) /\ IsFiniteSet(Callers)
  BY LimitsAssumption, ProcsAssumption
<1>2. Stored(o) \subseteq IPs /\ Storing(o, d) \subseteq Callers
  BY DEF Stored, Storing
<1>3. IsFiniteSet(Stored(o)) /\ IsFiniteSet(Storing(o, d))
      /\ Cardinality(Storing(o, d)) <= Cardinality(Callers)
  BY <1>1, <1>2, FS_Subset
<1> QED BY <1>1, <1>3, FS_CardinalityType

\* No goroutine more may add to a map that is full.
NoMore(o, d) ==
  Cardinality(Stored(o)) >= d =>
    \A c \in Callers : MayStore(pc'[c], loc'[c], o, d) => MayStore(pc[c], loc[c], o, d)

LEMMA BoundedKept ==
  ASSUME NEW d \in Nat, NEW o \in Maps, Bounded(o, d), UNCHANGED seen, NoMore(o, d)
  PROVE  Bounded(o, d)'
<1>1. Stored(o)' = Stored(o)
  BY DEF Stored
<1>2. ASSUME Cardinality(Stored(o)) >= d PROVE Storing(o, d)' \subseteq Storing(o, d)
  BY <1>1, <1>2 DEF Storing, MayStore, NoMore
<1>3. ASSUME Cardinality(Stored(o)) >= d
      PROVE  /\ Cardinality(Storing(o, d)') <= Cardinality(Storing(o, d))
             /\ Cardinality(Storing(o, d)') \in Nat
  BY <1>2, <1>3, Finite, FS_Subset, FS_CardinalityType
<1>4. Cardinality(Stored(o)) \in Nat /\ Cardinality(Storing(o, d)) \in Nat /\ Cardinality(Callers) \in Nat
  BY Finite
<1> QED BY <1>1, <1>3, <1>4 DEF Bounded

\* A step of one goroutine that writes no map.
LEMMA MovesBounded ==
  ASSUME TypeInv, NEW d \in Nat, NEW o \in Maps, Bounded(o, d), UNCHANGED seen,
         NEW p \in Procs, NEW l \in Labels, NEW r \in Locals, Moves(p, l, r),
         p \in Callers /\ Cardinality(Stored(o)) >= d /\ MayStore(l, r, o, d)
           => MayStore(pc[p], loc[p], o, d)
  PROVE  Bounded(o, d)'
<1>1. /\ pc'[p] = l /\ loc'[p] = r
      /\ \A q \in Procs \ {p} : pc'[q] = pc[q] /\ loc'[q] = loc[q]
  BY MovesPoint
<1>2. NoMore(o, d)
  BY <1>1, ProcFacts DEF NoMore
<1> QED BY <1>2, BoundedKept

LEMMA FindIPBounded ==
  ASSUME TypeInv, NEW d \in Nat, AllWithin(d), NEW c \in Callers, FindIP(c),
         NEW o \in Maps, Bounded(o, d)
  PROVE  Bounded(o, d)'
<1>1. At(c, "prune") /\ UNCHANGED seen /\ c \in Procs
  BY ProcFacts DEF FindIP, EndOf, Local, shared
<1>2. UserDev(c) > 0
  BY <1>1 DEF AllWithin, Within, UserDev, At
<1>3. CASE LastSeen(c, loc[c].ip) # None /\ Again(c, "store", {})
  <2>1. PICK r \in Locals : Moves(c, "store", r) /\ r.ip = loc[c].ip /\ r.map = loc[c].map
    BY <1>1, <1>3, AgainMoves DEF Labels
  <2>2. ~MayStore("store", r, o, d)
    BY <1>3, <2>1 DEF MayStore, LastSeen
  <2> QED BY <1>1, <2>1, <2>2, MovesBounded DEF Labels
<1>4. CASE Again(c, "count", IPs)
  <2>1. PICK r \in Locals : Moves(c, "count", r) /\ r.todo = IPs /\ r.n = 0
    BY <1>1, <1>4, AgainMoves DEF Labels
  <2>2. r.todo \cap Stored(o) = Stored(o) /\ Cardinality(Stored(o)) \in Nat
    BY <2>1, Finite DEF Stored
  <2>3. ASSUME Cardinality(Stored(o)) >= d PROVE ~MayStore("count", r, o, d)
    <3>1. ~(r.n + Cardinality(r.todo \cap Stored(o)) < d)
      <4>1. Cardinality(r.todo \cap Stored(o)) = Cardinality(Stored(o))
        BY <2>2
      <4> QED BY <2>1, <2>2, <2>3, <4>1
    <3> QED BY <3>1 DEF MayStore
  <2> QED BY <1>1, <2>1, <2>3, MovesBounded DEF Labels
<1> QED BY <1>2, <1>3, <1>4 DEF FindIP

LEMMA CountKeyBounded ==
  ASSUME TypeInv, NEW d \in Nat, NEW c \in Callers, CountKey(c), NEW o \in Maps, Bounded(o, d)
  PROVE  Bounded(o, d)'
<1>1. PICK i \in loc[c].todo, r \in Locals :
        /\ Moves(c, "count", r) /\ At(c, "count") /\ Local
        /\ r.map = loc[c].map /\ r.todo = loc[c].todo \ {i}
        /\ r.n = IF LastSeen(c, i) = None THEN loc[c].n ELSE loc[c].n + 1
  BY CountKeyMoves, ProcFacts
<1>2. c \in Procs /\ i \in IPs /\ loc[c].n \in Nat /\ UNCHANGED seen
  BY <1>1, ProcFacts, LocTypes DEF Local, shared
<1> DEFINE rest == r.todo \cap Stored(o)
           all == loc[c].todo \cap Stored(o)
<1>3. ASSUME loc[c].map = o
      PROVE  r.n + Cardinality(rest) = loc[c].n + Cardinality(all)
  <2>1. IsFiniteSet(rest) /\ Cardinality(rest) \in Nat
    BY Finite, FS_Subset, FS_CardinalityType
  <2>2. CASE seen[o][i] = None
    <3>1. rest = all
      BY <1>1, <2>2 DEF Stored
    <3> QED BY <1>1, <1>3, <2>2, <3>1 DEF LastSeen
  <2>3. CASE seen[o][i] # None
    <3>1. all = rest \cup {i} /\ i \notin rest
      BY <1>1, <1>2, <2>3 DEF Stored
    <3>2. Cardinality(all) = Cardinality(rest) + 1
      BY <2>1, <3>1, FS_AddElement
    <3>3. r.n = loc[c].n + 1
      BY <1>1, <1>3, <2>3 DEF LastSeen
    <3> HIDE DEF rest, all
    <3> QED BY <1>2, <2>1, <3>2, <3>3
  <2> QED BY <2>2, <2>3
<1>4. MayStore("count", r, o, d) => MayStore(pc[c], loc[c], o, d)
  BY <1>1, <1>3 DEF MayStore, At
<1> QED BY <1>1, <1>2, <1>4, MovesBounded DEF Labels

LEMMA AllowBounded ==
  ASSUME TypeInv, NEW d \in Nat, AllWithin(d), NEW c \in Callers, Allow(c),
         NEW o \in Maps, Bounded(o, d)
  PROVE  Bounded(o, d)'
<1>1. /\ c \in Procs /\ At(c, "count") /\ loc[c].todo = {} /\ loc[c].n < UserDev(c)
      /\ UNCHANGED seen /\ Moves(c, "store", loc[c]) /\ loc[c] \in Locals /\ loc[c].n \in Nat
  <2>1. c \in Procs /\ loc[c].n \in Nat /\ loc[c].u \in Info \cup {None}
    BY ProcFacts, LocTypes
  <2>2. UserDev(c) \in Nat
    BY <2>1 DEF UserDev, Info
  <2> QED BY <2>1, <2>2, StayMoves DEF Allow, EndOf, TooMany, Local, shared, Labels
<1>2. UserDev(c) \in 1..d
  BY <1>1 DEF AllWithin, Within, UserDev, At
<1>3. Cardinality(loc[c].todo \cap Stored(o)) = 0
  BY <1>1, FS_EmptySet
<1>4. MayStore("store", loc[c], o, d) => MayStore(pc[c], loc[c], o, d)
  BY <1>1, <1>2, <1>3 DEF MayStore, At
<1> QED BY <1>1, <1>4, MovesBounded DEF Labels

\* Only a goroutine that was counted among those that may store adds an address.
LEMMA StoreIPBounded ==
  ASSUME TypeInv, NEW d \in Nat, NEW c \in Callers, StoreIP(c), NEW o \in Maps, Bounded(o, d)
  PROVE  Bounded(o, d)'
<1>1. /\ c \in Procs /\ At(c, "store") /\ loc[c].at # None /\ Moves(c, "take", loc[c])
      /\ seen' = [seen EXCEPT ![loc[c].map][loc[c].ip] = loc[c].at]
  BY ProcFacts, LocTypes, StayMoves, NoneAssumption DEF StoreIP, Labels
<1>2. /\ pc'[c] = "take" /\ \A q \in Procs \ {c} : pc'[q] = pc[q] /\ loc'[q] = loc[q]
  BY <1>1, LocTypes, MovesPoint DEF Labels
<1>3. seen \in [Maps -> [IPs -> Nat \cup {None}]]
  BY DEF TypeInv, TypeOK
<1>4. /\ Stored(o) \subseteq Stored(o)'
      /\ \A i : seen'[o][i] = None => seen[o][i] = None \/ i \notin IPs
  BY <1>1, <1>3 DEF Stored
<1>5. Storing(o, d)' \subseteq Storing(o, d) \ {c}
  <2>1. ASSUME NEW q \in Callers \ {c}, MayStore(pc[q], loc[q], o, d)'
        PROVE  MayStore(pc[q], loc[q], o, d)
    <3>1. q \in Procs /\ pc'[q] = pc[q] /\ loc'[q] = loc[q] /\ loc[q].n \in Nat
          /\ loc[q].ip \in IPs \cup {None}
      BY <1>2, ProcFacts, LocTypes
    <3>2. CASE pc[q] = "store"
      <4>1. loc[q].map = o /\ seen'[o][loc[q].ip] = None
        BY <2>1, <3>1, <3>2 DEF MayStore
      <4>2. seen[o][loc[q].ip] = None
        BY <1>1, <1>3, <1>4, <3>1, <4>1
      <4> QED BY <3>2, <4>1, <4>2 DEF MayStore
    <3>3. CASE pc[q] = "count"
      <4>1. loc[q].map = o /\ loc[q].n + Cardinality(loc[q].todo \cap Stored(o)') < d
        BY <2>1, <3>1, <3>3 DEF MayStore
      <4>2. /\ IsFiniteSet(loc[q].todo \cap Stored(o)')
            /\ loc[q].todo \cap Stored(o) \subseteq loc[q].todo \cap Stored(o)'
        <5>1. loc[q].todo \cap Stored(o)' \subseteq IPs
          BY DEF Stored
        <5> QED BY <1>4, <5>1, LimitsAssumption, FS_Subset
      <4>3. /\ Cardinality(loc[q].todo \cap Stored(o)) <= Cardinality(loc[q].todo \cap Stored(o)')
            /\ Cardinality(loc[q].todo \cap Stored(o)) \in Nat
            /\ Cardinality(loc[q].todo \cap Stored(o)') \in Nat
        BY <4>2, FS_Subset, FS_CardinalityType
      <4> QED BY <3>1, <3>3, <4>1, <4>3 DEF MayStore
    <3> QED BY <2>1, <3>1, <3>2, <3>3 DEF MayStore
  <2>2. ~MayStore(pc[c], loc[c], o, d)'
    BY <1>2 DEF MayStore
  <2> QED BY <2>1, <2>2 DEF Storing
<1> DEFINE S == Stored(o)
           L == Storing(o, d)
           n == Cardinality(Callers)
<1>6. Cardinality(S) \in Nat /\ Cardinality(L) \in Nat /\ n \in Nat
      /\ IsFiniteSet(S) /\ IsFiniteSet(L) /\ IsFiniteSet(Callers) /\ L \subseteq Callers
  BY Finite DEF Storing
<1>7. CASE S' = S
  <2>1. Cardinality(L') <= Cardinality(L) /\ Cardinality(L') \in Nat
    BY <1>5, <1>6, FS_Subset, FS_CardinalityType
  <2> QED BY <1>6, <1>7, <2>1 DEF Bounded
<1>8. CASE S' # S
  <2>1. /\ loc[c].map = o /\ loc[c].ip \in IPs /\ S' = S \cup {loc[c].ip}
        /\ loc[c].ip \notin S
    BY <1>1, <1>3, <1>8 DEF Stored
  <2>2. Cardinality(S') = Cardinality(S) + 1
    BY <1>6, <2>1, FS_AddElement
  <2>3. c \in L
    BY <1>1, <2>1 DEF Storing, MayStore, Stored, At
  <2>4. /\ Cardinality(L \ {c}) = Cardinality(L) - 1 /\ IsFiniteSet(L \ {c})
        /\ Cardinality(Callers \ {c}) = n - 1 /\ IsFiniteSet(Callers \ {c})
    BY <1>6, <2>3, FS_RemoveElement
  <2>5. /\ Cardinality(L') <= Cardinality(L) - 1 /\ Cardinality(L') <= n - 1
        /\ Cardinality(L') \in Nat
    <3>1. L' \subseteq L \ {c} /\ L' \subseteq Callers \ {c}
      BY <1>5, <1>6
    <3> HIDE DEF L, n
    <3>2. Cardinality(L') <= Cardinality(L \ {c}) /\ Cardinality(L') <= Cardinality(Callers \ {c})
          /\ IsFiniteSet(L')
      BY <2>4, <3>1, FS_Subset
    <3> QED BY <2>4, <3>2, FS_CardinalityType
  <2>6. Cardinality(S) >= d => Cardinality(S) + Cardinality(L) < d + n
    BY DEF Bounded
  <2>7. Cardinality(S') >= d => Cardinality(S') + Cardinality(L') < d + n
    <3> HIDE DEF S, L, n
    <3> QED BY <1>6, <2>2, <2>5, <2>6
  <2> QED BY <2>7 DEF Bounded
<1> QED BY <1>7, <1>8

\* An address that expires frees a place; it does so between the calls of others.
LEMMA DropKeyBounded ==
  ASSUME TypeInv, NEW d \in Nat, NEW p \in Procs, DropKey(p), ~dropped',
         NEW o \in Maps, Bounded(o, d)
  PROVE  Bounded(o, d)'
<1>1. \A c \in Callers : pc[c] \notin {"count", "store"}
  BY DEF DropKey
<1>2. \A c \in Callers : pc'[c] \notin {"count", "store"}
  <2>1. PICK r \in Locals : Moves(p, "prune", r)
    BY DropKeyMoves
  <2> QED BY <1>1, <2>1, MovesPoint, ProcFacts DEF Labels
<1>3. Storing(o, d)' = {}
  BY <1>2 DEF Storing, MayStore
<1>4. Stored(o)' \subseteq Stored(o)
  BY DEF DropKey, Stored, TypeInv, TypeOK
<1>5. Cardinality(Stored(o)') <= Cardinality(Stored(o)) /\ Cardinality(Stored(o)') \in Nat
      /\ Cardinality(Storing(o, d)') = 0
  BY <1>3, <1>4, Finite, FS_Subset, FS_CardinalityType, FS_EmptySet
<1>6. Cardinality(Stored(o)) \in Nat /\ Cardinality(Storing(o, d)) \in Nat /\ Cardinality(Callers) \in Nat
  BY Finite
<1> QED BY <1>5, <1>6 DEF Bounded

LEMMA CallerBounded ==
  ASSUME TypeInv, NEW d \in Nat, AllWithin(d), NEW c \in Callers, GetUserBucket(c), ~dropped',
         NEW o \in Maps, Bounded(o, d)
  PROVE  Bounded(o, d)'
<1>0. c \in Procs
  BY ProcFacts
<1>1. CASE Connect(c) \/ LoadUser(c) \/ TouchUser(c) \/ LoadMap(c) \/ PruneKey(c) \/ Reject(c)
           \/ TakeBucket(c)
  <2>1. UNCHANGED seen
    <3>1. CASE TakeBucket(c)
      BY <3>1 DEF TakeBucket, HubOnly
    <3>2. CASE ~TakeBucket(c)
      BY <1>1, <3>2 DEF Connect, LoadUser, TouchUser, LoadMap, PruneKey, Reject, Local,
                        InfoOnly, OnlineOnly, shared
    <3> QED BY <3>1, <3>2
  <2>2. PICK l \in Labels \ {"count", "store"}, r \in Locals : Moves(c, l, r)
    <3>1. CASE Connect(c) \/ LoadUser(c)
      BY <3>1, ConnectMoves, LoadUserMoves DEF Labels
    <3>2. CASE TouchUser(c) \/ LoadMap(c)
      BY <1>0, <3>2, StayMoves, LoadMapMoves DEF TouchUser, Labels
    <3>3. CASE PruneKey(c)
      BY <1>0, <3>3, PruneKeyMoves DEF Labels
    <3>4. CASE Reject(c) \/ TakeBucket(c)
      BY <1>0, <3>4, ReturnMoves DEF Reject, TakeBucket, Labels
    <3> QED BY <1>1, <3>1, <3>2, <3>3, <3>4
  <2>3. ~MayStore(l, r, o, d)
    BY <2>2 DEF MayStore
  <2> QED BY <1>0, <2>1, <2>2, <2>3, MovesBounded
<1> QED BY <1>0, <1>1, FindIPBounded, CountKeyBounded, AllowBounded, StoreIPBounded, DropKeyBounded
    DEF GetUserBucket

\* The monitors leave the callers where they are.
LEMMA MonitorsMove ==
  ASSUME TypeInv, Sweep \/ Administer
  PROVE  /\ \A c \in Callers : pc'[c] = pc[c] /\ loc'[c] = loc[c]
         /\ UNCHANGED seen \/ DropKey(Sweeper)
<1>1. CASE Administer
  BY <1>1, ProcFacts DEF Administer, UpdateInboundLimiter, WriteUser, SetUserRate, UpdateNodeSpeedLimit,
     RangeUsers, DeleteUsers, DeleteBucket, DeleteOnline, Goto, Return, InfoOnly, HubOnly, OnlineOnly,
     Local, shared, TypeInv, TypeOK
<1>2. CASE Sweep
  BY <1>2, ProcFacts DEF Sweep, GetOnlineDevice, PruneKey, DropKey, EndReport, ForgetUser, CleanupInactive,
     EndPrune, CountKey, EndCount, IdleUser, OfflineUser, DropBucket, OrphanBucket, Goto, Return, Again,
     HubOnly, OnlineOnly, Local, shared, TypeInv, TypeOK
<1> QED BY <1>1, <1>2

LEMMA NextBounded ==
  ASSUME TypeInv, NEW d \in Nat, AllWithin(d), [Next]_vars, ~dropped',
         NEW o \in Maps, Bounded(o, d)
  PROVE  Bounded(o, d)'
<1>1. CASE DropKey(Sweeper)
  BY <1>1, DropKeyBounded, ProcFacts
<1>2. CASE Sweep \/ Administer
  BY <1>1, <1>2, MonitorsMove, BoundedKept DEF NoMore
<1>3. CASE Tick \/ UNCHANGED vars
  <2>1. UNCHANGED <<pc, loc, seen>>
    BY <1>3 DEF Tick, vars, shared
  <2> QED BY <2>1, BoundedKept DEF NoMore
<1> QED BY <1>2, <1>3, CallerBounded DEF Next

\* The limits in every hand stay those of the panel.
LEMMA NextWithin ==
  ASSUME TypeInv, NEW d \in Nat, \A l \in Limits : l.dev \in 1..d, AllWithin(d), [Next]_vars,
         ~deleted'
  PROVE  AllWithin(d)'
<1>1. CASE Tick \/ UNCHANGED vars
  BY <1>1 DEF Tick, vars, shared, AllWithin, Within
<1>2. CASE Sweep \/ Administer
  <2>1. Within(info, d)'
    <3>1. CASE WriteUser
      BY <3>1, WriteMoves, NoneAssumption DEF Within, TypeInv, TypeOK, Info
    <3>2. CASE UNCHANGED info
      BY <3>2 DEF AllWithin, Within
    <3>3. WriteUser \/ UNCHANGED info
      BY <1>2 DEF Sweep, GetOnlineDevice, PruneKey, DropKey, EndReport, ForgetUser,
         CleanupInactive, EndPrune, CountKey, EndCount, IdleUser, OfflineUser, DropBucket,
         OrphanBucket, Administer, UpdateInboundLimiter, SetUserRate, UpdateNodeSpeedLimit,
         RangeUsers, DeleteUsers, DeleteBucket, DeleteOnline, HubOnly, OnlineOnly, Local, shared
    <3> QED BY <3>1, <3>2, <3>3
  <2> QED BY <1>2, <2>1, MonitorsMove DEF AllWithin, Within
<1>3. ASSUME NEW c \in Callers, GetUserBucket(c) PROVE AllWithin(d)'
  <2>0. c \in Procs
    BY ProcFacts
  <2>1. ASSUME NEW l \in Labels, NEW r \in Locals, Moves(c, l, r), Within(info, d)',
               l \notin {"idle", "load"} => Within(r.u, d)
        PROVE  AllWithin(d)'
    <3>1. /\ pc'[c] = l /\ loc'[c] = r
          /\ \A q \in Procs \ {c} : pc'[q] = pc[q] /\ loc'[q] = loc[q]
      BY <2>0, <2>1, MovesPoint
    <3> QED BY <2>1, <3>1, ProcFacts DEF AllWithin, Within
  <2>2. ASSUME UNCHANGED info PROVE Within(info, d)'
    BY <2>2 DEF AllWithin, Within
  <2>3. CASE Connect(c) \/ Reject(c) \/ TakeBucket(c)
    <3>1. UNCHANGED info
      <4>1. CASE TakeBucket(c)
        BY <4>1 DEF TakeBucket, HubOnly
      <4>2. CASE Connect(c) \/ Reject(c)
        BY <4>2 DEF Connect, Reject, Local, shared
      <4> QED BY <2>3, <4>1, <4>2
    <3>2. \E l \in {"idle", "load"}, r \in Locals : Moves(c, l, r)
      BY <2>0, <2>3, ConnectMoves, ReturnMoves DEF Reject, TakeBucket
    <3> QED BY <2>1, <2>2, <3>1, <3>2 DEF Labels
  <2>4. CASE LoadUser(c)
    <3>1. PICK l \in {"map", "touch"}, r \in Locals : Moves(c, l, r) /\ r.u = info
      BY <2>4, LoadUserMoves
    <3>2. UNCHANGED info
      BY <2>4 DEF LoadUser, Local, shared
    <3> QED BY <2>1, <2>2, <3>1, <3>2 DEF AllWithin, Labels
  <2>5. CASE TouchUser(c)
    <3>1. Moves(c, "map", loc[c]) /\ loc[c] \in Locals /\ At(c, "touch")
      BY <2>0, <2>5, StayMoves DEF TouchUser, Labels
    <3>2. Within(loc[c].u, d) /\ loc[c].u \in Info /\ loc[c].at \in Nat
      BY <2>0, <3>1, LocTypes DEF AllWithin, Within, At
    <3>3. info' \in Info /\ info'.dev = loc[c].u.dev
      BY <2>5, <3>2 DEF TouchUser, Info
    <3>4. Within(info, d)'
      BY <3>2, <3>3, NoneAssumption DEF Within, Info
    <3> QED BY <2>1, <3>1, <3>2, <3>4 DEF Labels
  <2>6. CASE LoadMap(c) \/ PruneKey(c) \/ DropKey(c) \/ FindIP(c) \/ CountKey(c) \/ Allow(c) \/ StoreIP(c)
    <3>1. UNCHANGED info /\ pc[c] \notin {"idle", "load"}
      BY <2>6 DEF LoadMap, PruneKey, DropKey, FindIP, EndOf, CountKey, Allow, StoreIP, Local,
                  OnlineOnly, shared, At
    <3>2. PICK l \in Labels, r \in Locals : Moves(c, l, r) /\ r.u = loc[c].u
      <4>1. CASE LoadMap(c) \/ PruneKey(c)
        BY <2>0, <4>1, LoadMapMoves, PruneKeyMoves DEF Labels
      <4>2. CASE DropKey(c) \/ CountKey(c)
        BY <2>0, <4>2, DropKeyMoves, CountKeyMoves DEF Labels
      <4>3. CASE FindIP(c)
        <5>1. \E l \in {"store", "count"}, keys \in SUBSET IPs : Again(c, l, keys)
          BY <4>3 DEF FindIP
        <5> QED BY <2>0, <5>1, AgainMoves DEF Labels
      <4>4. CASE Allow(c) \/ StoreIP(c)
        BY <2>0, <4>4, StayMoves DEF Allow, StoreIP, Labels
      <4> QED BY <2>6, <4>1, <4>2, <4>3, <4>4
    <3>3. Within(loc[c].u, d)
      BY <3>1 DEF AllWithin
    <3> QED BY <2>1, <2>2, <3>1, <3>2, <3>3
  <2> QED BY <1>3, <2>3, <2>4, <2>5, <2>6 DEF GetUserBucket
<1> QED BY <1>1, <1>2, <1>3 DEF Next

\* Histories only grow.
LEMMA HistoriesGrow ==
  ASSUME TypeInv, [Next]_vars PROVE (deleted => deleted') /\ (dropped => dropped')
<1>1. CASE Tick \/ UNCHANGED vars
  BY <1>1 DEF Tick, vars, history
<1>2. ASSUME NEW p, DropKey(p) PROVE (deleted => deleted') /\ (dropped => dropped')
  <2>1. dropped' = (dropped \/ \E c \in Callers : pc[c] \in {"count", "store"})
        /\ UNCHANGED deleted
    BY <1>2 DEF DropKey
  <2> QED BY <2>1, Zenon
<1>3. CASE Sweep /\ ~DropKey(Sweeper)
  BY <1>3 DEF Sweep, GetOnlineDevice, PruneKey, EndReport, ForgetUser, CleanupInactive, EndPrune,
     CountKey, EndCount, IdleUser, OfflineUser, DropBucket, OrphanBucket, HubOnly, OnlineOnly, Local,
     history
<1>4. CASE Administer
  BY <1>4 DEF Administer, UpdateInboundLimiter, WriteUser, SetUserRate, UpdateNodeSpeedLimit,
     RangeUsers, DeleteUsers, DeleteBucket, DeleteOnline, InfoOnly, HubOnly, OnlineOnly, Local, history
<1>5. ASSUME NEW c \in Callers, GetUserBucket(c), ~DropKey(c) PROVE UNCHANGED <<deleted, dropped>>
  <2>1. CASE TakeBucket(c)
    BY <2>1 DEF TakeBucket, HubOnly, history
  <2>2. CASE Connect(c) \/ LoadUser(c) \/ TouchUser(c) \/ LoadMap(c) \/ PruneKey(c) \/ FindIP(c)
    BY <2>2 DEF Connect, LoadUser, TouchUser, LoadMap, PruneKey, FindIP, InfoOnly, OnlineOnly, Local,
       history
  <2>3. CASE CountKey(c) \/ Reject(c) \/ Allow(c) \/ StoreIP(c)
    BY <2>3 DEF CountKey, Reject, Allow, StoreIP, Local, history
  <2> QED BY <1>5, <2>1, <2>2, <2>3 DEF GetUserBucket
<1> QED BY <1>1, <1>2, <1>3, <1>4, <1>5 DEF Next

\* For every limit that no other exceeds.
Over == \A d \in {l.dev : l \in Limits} : (\A l \in Limits : l.dev \in 1..d) => OverInv(d)

LEMMA InitOver == ASSUME Init PROVE Over
<1> SUFFICES ASSUME NEW d \in {l.dev : l \in Limits}, \A l \in Limits : l.dev \in 1..d
             PROVE  OverInv(d)
  BY DEF Over
<1>1. TypeInv
  BY InitTypes
<1>2. AllWithin(d) /\ d \in Nat \ {0}
  <2>1. applied \in Limits /\ info = [speed |-> applied.speed, dev |-> applied.dev, last |-> 0]
        /\ \A c \in Callers : pc[c] = "idle"
    BY ProcFacts DEF Init
  <2>2. info.dev \in 1..d /\ info # None
    BY <1>1, <2>1, LimitsAssumption, NoneAssumption DEF Info
  <2>3. d \in Nat \ {0}
    BY LimitsAssumption
  <2> QED BY <2>1, <2>2, <2>3 DEF AllWithin, Within
<1>3. ASSUME NEW o \in Maps PROVE Cardinality(Stored(o)) = 0
  <2>1. Stored(o) = {}
    BY DEF Init, Stored
  <2> QED BY <2>1, FS_EmptySet
<1> QED BY <1>1, <1>2, <1>3 DEF OverInv, Bounded

LEMMA NextOver == ASSUME Over, [Next]_vars PROVE Over'
<1> SUFFICES ASSUME NEW d \in {l.dev : l \in Limits}, \A l \in Limits : l.dev \in 1..d
             PROVE  OverInv(d)'
  BY DEF Over
<1>0. OverInv(d) /\ d \in Nat
  BY LimitsAssumption DEF Over
<1>1. TypeInv' /\ (deleted => deleted') /\ (dropped => dropped')
  BY <1>0, NextTypes, HistoriesGrow DEF OverInv
<1>2. ~deleted' => AllWithin(d)'
  BY <1>0, <1>1, NextWithin DEF OverInv
<1>3. ASSUME ~deleted', ~dropped', NEW o \in Maps PROVE Bounded(o, d)'
  BY <1>0, <1>1, <1>3, NextBounded DEF OverInv
<1> QED BY <1>1, <1>2, <1>3 DEF OverInv

\* Connections that race from the count to the store in GetUserBucket overshoot
\* the user's largest device limit by less than their number, until the user is
\* deleted or an address expires under one of them.
THEOREM RacesAreBounded == Spec => []OvershootBounded
<1>1. Over => OvershootBounded
  <2> SUFFICES ASSUME Over, ~deleted, ~dropped, NEW o, o = online, o # None,
                      NEW d \in {l.dev : l \in Limits}, \A l \in Limits : l.dev \in 1..d
               PROVE  Cardinality(Stored(o)) < d + Cardinality(Callers)
    BY DEF OvershootBounded, Stored
  <2>1. OverInv(d) /\ d \in Nat
    BY LimitsAssumption DEF Over
  <2>2. o \in Maps
    BY <2>1 DEF OverInv, TypeInv, TypeOK
  <2>3. Bounded(o, d)
    BY <2>1, <2>2 DEF OverInv
  <2>4. /\ Cardinality(Stored(o)) \in Nat /\ Cardinality(Storing(o, d)) \in Nat
        /\ Cardinality(Callers) \in Nat
    BY Finite
  <2> QED BY <2>1, <2>3, <2>4 DEF Bounded
<1> QED BY <1>1, InitOver, NextOver, PTL DEF Spec
=============================================================================
