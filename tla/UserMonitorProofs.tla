------------------------- MODULE UserMonitorProofs -------------------------
(***************************************************************************)
(* Proofs about the accounting pass: no traffic is billed or metered twice *)
(* or silently lost, whatever happens to counters, reports, users and tags *)
(* under the pass; automatic limits are remembered, and come only after    *)
(* enough warnings.                                                        *)
(***************************************************************************)
EXTENDS UserMonitor, TLAPS

\* What the pass holds at each of its stages.
PassFits ==
  /\ pc \in {"idle", "unregister"} => traffic = NoUsers
  /\ pc # "unregister" => idle = {}
  /\ pc # "collect" => todo = NoUsers /\ silent = {}
  /\ \A u \in Users : todo[u] # None => traffic[u] = None

\* A counter somebody adds to is registered.
ConnsFit ==
  \A c \in Conns : conns[c] # None /\ conns[c].st = "counted"
    => counter[<<conns[c].tag, conns[c].user>>] # None

TypeInv == TypeOK /\ PassFits /\ ConnsFit

\* What the pass has read from the counter n, if the counter is still the same,
\* and if it was unregistered since.
Live(n) == ReadFrom(traffic[n[2]], n) /\ traffic[n[2]].live
Read(n) == IF Live(n) THEN Reported(n) ELSE 0
Cut(n) == IF Live(n) THEN 0 ELSE Reported(n)

\* The accounts of the counter n: until a report is accepted nothing of it is
\* billed, and from then on until the reset the counter still holds it.
Ledger(n) ==
  /\ Live(n) => counter[n] # None
  /\ Read(n) <= Value(n)
  /\ pc \in {"collect", "report"} => billed[n] + Value(n) + Cut(n) <= carried[n] + repeated[n]
  /\ pc \notin {"collect", "report"} => billed[n] + Value(n) <= carried[n] + repeated[n] + Read(n)
  /\ ~DisableUploadTraffic =>
       carried[n] + (IF pc = "reset" THEN Read(n) ELSE 0) <= billed[n] + Value(n) + dropped[n]
  /\ ~failed /\ pc \in {"idle", "collect", "unregister"} =>
       metered[n] + Value(n) + Cut(n) <= carried[n]
  /\ ~failed /\ pc \in {"report", "reset"} => metered[n] + Value(n) <= carried[n] + Read(n)
LedgerInv == \A n \in Names : Ledger(n)

\* The controller remembers every limit that is in force or about to be.
RememberInv ==
  /\ ~hasLimiter => limiter = NoUsers
  /\ \A u \in Users : limiter[u] = AutoLimit \/ u \in silent => \E v \in Vers : limitedUsers[<<u, v>>] # None

\* A counter of the tag holds no more than the traffic of the period, ...
Fresh(n) == since[n[2]] > Fast \/ Value(n) <= since[n[2]] + Read(n)
\* ... and a copy has no more warnings than its user had periods in a row above
\* the limit.
Warned(u) ==
  /\ userList[u] # None => warnedUsers[<<u, userList[u]>>] <= streak[u]
  /\ todo[u] # None => warnedUsers[<<u, todo[u]>>] <= streak[u]
  /\ todo[u] # None /\ userList[u] \notin {None, todo[u]} => warnedUsers[<<u, userList[u]>>] = 0
FreshInv == ~leftover => \A n \in Names : n[1] = tag => Fresh(n)
WarnedInv == ~leftover => \A u \in Users : Warned(u)
SpeedInv == FreshInv /\ WarnedInv
-----------------------------------------------------------------------------
(* Types.                                                                  *)

LEMMA NameParts ==
  /\ \A n \in Names : n[1] \in Tags /\ n[2] \in Users /\ n = <<n[1], n[2]>>
  /\ \A t \in Tags, u \in Users : <<t, u>> \in Names /\ <<t, u>>[1] = t /\ <<t, u>>[2] = u
BY DEF Names

LEMMA ValueTypes ==
  ASSUME TypeInv, NEW n \in Names
  PROVE  /\ counter[n] \in Nat \cup {None} /\ Value(n) \in Nat /\ Reported(n) \in Nat
         /\ Read(n) \in Nat /\ Cut(n) \in Nat /\ Read(n) + Cut(n) = Reported(n)
BY NameParts, NoneRecordAssumption
DEF TypeInv, TypeOK, Value, Reported, Read, Cut, ReadFrom, Item

LEMMA InitTypes == ASSUME Init PROVE TypeInv
<1>1. 0 \in 0..InactiveTTL + 1 /\ 0 \in 0..WarnTimes /\ 0 \in 0..WarnTimes + 1
  BY LimitAssumption
<1>2. \A f \in UserList : f \in [Users -> Vers \cup {AutoLimit, None}]
  BY DEF UserList
<1>3. TypeOK
  BY <1>1, <1>2 DEF Init, TypeOK, NoUsers, NoBytes, NoTime, UserList
<1>4. PassFits /\ ConnsFit
  BY DEF Init, PassFits, ConnsFit, NoUsers
<1> QED BY <1>3, <1>4 DEF TypeInv

\* What UnregisterCounter does to each counter, connection and item.
LEMMA UnregisterKeeps ==
  ASSUME TypeInv, NEW t \in Tags, NEW us \in SUBSET Users, Unregister(t, us)
  PROVE  /\ counter' \in [Names -> Nat \cup {None}] /\ conns' \in [Conns -> Conn \cup {None}]
         /\ traffic' \in [Users -> Item \cup {None}] /\ dropped' \in [Names -> Nat]
         /\ ConnsFit'
         /\ \A u \in Users :
              /\ traffic'[u] = None <=> traffic[u] = None
              /\ traffic[u] # None => /\ traffic'[u].n = traffic[u].n /\ traffic'[u].tag = traffic[u].tag
                                      /\ traffic'[u].live = (traffic[u].live /\ ~(traffic[u].tag = t /\ u \in us))
         /\ \A n \in Names :
              /\ counter'[n] = IF n[1] = t /\ n[2] \in us THEN None ELSE counter[n]
              /\ dropped'[n] = dropped[n] + IF n[1] = t /\ n[2] \in us THEN Value(n) ELSE 0
<1>1. \A n \in Names :
        /\ counter'[n] = IF n[1] = t /\ n[2] \in us THEN None ELSE counter[n]
        /\ dropped'[n] = dropped[n] + IF n[1] = t /\ n[2] \in us THEN Value(n) ELSE 0
  BY DEF Unregister, Plus
<1>2. counter' \in [Names -> Nat \cup {None}]
  BY DEF Unregister, TypeInv, TypeOK
<1>3. dropped' \in [Names -> Nat]
  <2>1. \A n \in Names : dropped[n] + (IF n[1] = t /\ n[2] \in us THEN Value(n) ELSE 0) \in Nat
    BY ValueTypes DEF TypeInv, TypeOK
  <2> QED BY <2>1 DEF Unregister, Plus
<1>4. \A c \in Conns :
        conns'[c] = IF conns[c] # None /\ conns[c].tag = t /\ conns[c].user \in us /\ conns[c].st = "counted"
                      THEN [conns[c] EXCEPT !.st = "orphan"] ELSE conns[c]
  BY DEF Unregister
<1>5. ASSUME NEW c \in Conns PROVE conns[c] \in Conn \cup {None} /\ conns'[c] \in Conn \cup {None}
  <2>1. CASE conns[c] = None
    BY <1>4, <2>1
  <2>2. CASE conns[c] \in Conn
    BY <1>4, <2>2 DEF Conn
  <2> QED BY <2>1, <2>2 DEF TypeInv, TypeOK
<1>6. conns' \in [Conns -> Conn \cup {None}]
  BY <1>5 DEF Unregister
<1>7. ConnsFit'
  <2> SUFFICES ASSUME NEW c \in Conns, conns'[c] # None, conns'[c].st = "counted"
               PROVE  counter'[<<conns'[c].tag, conns'[c].user>>] # None
    BY DEF ConnsFit
  <2>1. conns'[c] = conns[c] /\ conns[c] \in Conn /\ ~(conns[c].tag = t /\ conns[c].user \in us)
    BY <1>4, <1>5 DEF Conn
  <2>2. <<conns[c].tag, conns[c].user>> \in Names
    BY <2>1 DEF Conn, Names
  <2> QED BY <1>1, <2>1, <2>2 DEF TypeInv, ConnsFit
<1>8. \A u \in Users :
        traffic'[u] = IF traffic[u] # None /\ traffic[u].tag = t /\ u \in us
                        THEN [traffic[u] EXCEPT !.live = FALSE] ELSE traffic[u]
  BY DEF Unregister
<1>9. \A u \in Users : traffic[u] \in Item \cup {None} /\ traffic'[u] \in Item \cup {None}
  BY <1>8 DEF TypeInv, TypeOK, Item
<1>10. traffic' \in [Users -> Item \cup {None}]
  BY <1>9 DEF Unregister
<1>11. ASSUME NEW u \in Users
       PROVE  /\ traffic'[u] = None <=> traffic[u] = None
              /\ traffic[u] # None => /\ traffic'[u].n = traffic[u].n /\ traffic'[u].tag = traffic[u].tag
                                      /\ traffic'[u].live = (traffic[u].live /\ ~(traffic[u].tag = t /\ u \in us))
  BY <1>8, <1>9, NoneRecordAssumption DEF Item
<1> QED BY <1>1, <1>2, <1>3, <1>6, <1>7, <1>10, <1>11

LEMMA TickTypes == ASSUME TypeInv, Tick PROVE TypeInv'
<1>1. quiet' \in [Users -> 0..InactiveTTL + 1]
  BY LimitAssumption DEF Tick, TypeInv, TypeOK
<1>2. limitedUsers' \in [Copy -> 0..LimitDuration + 1 \cup {None}]
  BY LimitAssumption DEF Tick, Minus, TypeInv, TypeOK
<1>3. TypeOK'
  BY <1>1, <1>2 DEF Tick, TypeInv, TypeOK, ctl, pass, sync, panel, history, budgets
<1>4. PassFits' /\ ConnsFit'
  BY DEF Tick, TypeInv, PassFits, ConnsFit, pass
<1> QED BY <1>3, <1>4 DEF TypeInv

LEMMA TrafficTypes == ASSUME TypeInv, Traffic PROVE TypeInv'
<1>1. PICK c \in Conns : Dispatch(c) \/ RegisterCounter(c) \/ WriteMultiBuffer(c) \/ Close(c)
  BY DEF Traffic
<1>2. UNCHANGED <<ctl, hasLimiter, limiter, pass, auto, sync, panel, updates, faults>>
  BY <1>1 DEF Dispatch, RegisterCounter, WriteMultiBuffer, Close, ConnOnly
<1> DEFINE Fits ==
     /\ quiet' \in [Users -> 0..InactiveTTL + 1] /\ counter' \in [Names -> Nat \cup {None}]
     /\ conns' \in [Conns -> Conn \cup {None}] /\ carried' \in [Names -> Nat]
     /\ repeated' \in [Names -> Nat] /\ dropped' \in [Names -> Nat] /\ since' \in [Users -> Nat]
     /\ streak' \in [Users -> 0..WarnTimes + 1] /\ failed' \in BOOLEAN /\ leftover' \in BOOLEAN
     /\ \A n \in Names : counter'[n] = None => counter[n] = None
     /\ \A d \in Conns \ {c} : conns'[d] = conns[d]
     /\ conns'[c] # None /\ conns'[c].st = "counted"
          => counter'[<<conns'[c].tag, conns'[c].user>>] # None
<1>3. ASSUME Dispatch(c) PROVE Fits
  <2>1. PICK u \in Users, t \in Tags :
          /\ conns' = [conns EXCEPT ![c] =
               [user |-> u, tag |-> t, st |-> IF counter[<<t, u>>] = None THEN "looking" ELSE "counted"]]
          /\ quiet' = IF t = tag /\ limiter[u] # None THEN [quiet EXCEPT ![u] = 0] ELSE quiet
    BY <1>3 DEF Dispatch
  <2>2. [user |-> u, tag |-> t, st |-> IF counter[<<t, u>>] = None THEN "looking" ELSE "counted"] \in Conn
    BY DEF Conn
  <2>3. UNCHANGED <<counter, history>>
    BY <1>3 DEF Dispatch
  <2>4. quiet' \in [Users -> 0..InactiveTTL + 1]
    BY <2>1, LimitAssumption DEF TypeInv, TypeOK
  <2>5. /\ conns' \in [Conns -> Conn \cup {None}] /\ (\A d \in Conns \ {c} : conns'[d] = conns[d])
        /\ conns'[c] = [user |-> u, tag |-> t,
                        st |-> IF counter[<<t, u>>] = None THEN "looking" ELSE "counted"]
    BY <2>1, <2>2 DEF TypeInv, TypeOK
  <2>6. Fits
    BY <2>3, <2>4, <2>5 DEF TypeInv, TypeOK, history
  <2> QED BY <2>6
<1>4. ASSUME RegisterCounter(c) PROVE Fits
  <2>1. conns[c] \in Conn /\ <<conns[c].tag, conns[c].user>> \in Names
    BY <1>4 DEF RegisterCounter, TypeInv, TypeOK, Conn, Names
  <2>2. UNCHANGED <<quiet, history>>
    BY <1>4 DEF RegisterCounter
  <2>3. CASE counter[<<conns[c].tag, conns[c].user>>] = None
    <3>1. /\ counter' = [counter EXCEPT ![<<conns[c].tag, conns[c].user>>] = 0]
          /\ conns' = [conns EXCEPT ![c].st = "counted"]
      BY <1>4, <2>3 DEF RegisterCounter
    <3>2. /\ counter' \in [Names -> Nat \cup {None}]
          /\ counter'[<<conns[c].tag, conns[c].user>>] = 0
          /\ \A n \in Names : counter'[n] = None => counter[n] = None
      BY <2>1, <3>1, NoneAssumption DEF TypeInv, TypeOK
    <3>3. /\ conns' \in [Conns -> Conn \cup {None}] /\ \A d \in Conns \ {c} : conns'[d] = conns[d]
          /\ conns'[c].tag = conns[c].tag /\ conns'[c].user = conns[c].user
      BY <2>1, <3>1 DEF TypeInv, TypeOK, Conn
    <3> QED BY <2>2, <3>2, <3>3, NoneAssumption DEF TypeInv, TypeOK, history
  <2>4. CASE counter[<<conns[c].tag, conns[c].user>>] # None
    <3>1. conns' = [conns EXCEPT ![c].st = "uncounted"] /\ UNCHANGED counter
      BY <1>4, <2>4 DEF RegisterCounter
    <3>2. /\ conns' \in [Conns -> Conn \cup {None}] /\ \A d \in Conns \ {c} : conns'[d] = conns[d]
          /\ conns'[c].st = "uncounted"
      BY <2>1, <3>1 DEF TypeInv, TypeOK, Conn
    <3> QED BY <2>2, <3>1, <3>2 DEF TypeInv, TypeOK, history
  <2> QED BY <2>3, <2>4
<1>5. ASSUME WriteMultiBuffer(c) PROVE Fits
  <2> DEFINE k == <<conns[c].tag, conns[c].user>>
  <2>1. /\ conns[c] \in Conn /\ k \in Names /\ conns[c].user \in Users
        /\ conns[c].st = "counted" => counter[k] \in Nat
    BY <1>5 DEF WriteMultiBuffer, TypeInv, TypeOK, Conn, Names, ConnsFit
  <2>2. /\ carried' = [carried EXCEPT ![k] = carried[k] + 1]
        /\ since' = [since EXCEPT ![conns[c].user] =
             IF Exceeds(since[conns[c].user]) THEN since[conns[c].user] ELSE since[conns[c].user] + 1]
        /\ counter' = IF conns[c].st = "counted" THEN [counter EXCEPT ![k] = counter[k] + 1] ELSE counter
        /\ dropped' = IF conns[c].st = "counted" THEN dropped ELSE [dropped EXCEPT ![k] = dropped[k] + 1]
        /\ UNCHANGED <<quiet, conns, repeated, streak, failed, leftover>>
    BY <1>5 DEF WriteMultiBuffer
  <2> HIDE DEF k
  <2>3. carried' \in [Names -> Nat] /\ dropped' \in [Names -> Nat] /\ since' \in [Users -> Nat]
    BY <2>1, <2>2 DEF TypeInv, TypeOK
  <2>4. counter' \in [Names -> Nat \cup {None}] /\ \A n \in Names : counter'[n] = None => counter[n] = None
    BY <2>1, <2>2, NoneAssumption DEF TypeInv, TypeOK
  <2>5. conns[c].st = "counted" => counter'[k] # None
    BY <2>1, <2>2, NoneAssumption DEF TypeInv, TypeOK
  <2> QED BY <2>2, <2>3, <2>4, <2>5 DEF TypeInv, TypeOK, k
<1>6. ASSUME Close(c) PROVE Fits
  <2>1. conns' = [conns EXCEPT ![c] = None] /\ UNCHANGED <<counter, quiet, history>>
    BY <1>6 DEF Close
  <2>2. conns'[c] = None /\ \A d \in Conns \ {c} : conns'[d] = conns[d]
    BY <2>1 DEF TypeInv, TypeOK
  <2>3. conns' \in [Conns -> Conn \cup {None}]
    BY <2>1 DEF TypeInv, TypeOK
  <2> QED BY <2>1, <2>2, <2>3 DEF TypeInv, TypeOK, history
<1>7. Fits
  BY <1>1, <1>3, <1>4, <1>5, <1>6
<1> HIDE DEF Fits
<1>8. TypeOK'
  BY <1>2, <1>7 DEF Fits, TypeInv, TypeOK, ctl, pass, auto, sync, panel
<1>9. PassFits'
  BY <1>2 DEF TypeInv, PassFits, pass
<1>10. ConnsFit'
  <2>1. \A d \in Conns : conns[d] # None => <<conns[d].tag, conns[d].user>> \in Names
    BY DEF TypeInv, TypeOK, Conn, Names
  <2> QED BY <1>7, <2>1 DEF Fits, TypeInv, ConnsFit
<1> QED BY <1>8, <1>9, <1>10 DEF TypeInv

\* The users whose limits are lifted get those of a listed copy.
LEMMA ReleaseKeeps ==
  ASSUME TypeInv, NEW last \in SUBSET Copy, Release(last)
  PROVE  /\ limiter' \in [Users -> Vers \cup {AutoLimit, None}] /\ quiet' \in [Users -> 0..InactiveTTL + 1]
         /\ ~hasLimiter => UNCHANGED limiter
         /\ \A u \in Users :
              /\ limiter'[u] # limiter[u] => limiter'[u] \in Vers
              /\ hasLimiter /\ (\E v \in Vers : <<u, v>> \in last) => limiter'[u] \in Vers
<1>1. CASE ~hasLimiter
  BY <1>1 DEF Release, UpdateLimiter, TypeInv, TypeOK
<1>2. CASE hasLimiter
  <2> DEFINE V(u) == CHOOSE v \in Vers : <<u, v>> \in last
  <2>1. ASSUME NEW u \in Users
        PROVE  u \in {x[1] : x \in last} <=> \E v \in Vers : <<u, v>> \in last
    <3>1. ASSUME NEW x \in last, u = x[1] PROVE \E v \in Vers : <<u, v>> \in last
      <4>1. x[2] \in Vers /\ x = <<x[1], x[2]>>
        BY DEF Copy
      <4> QED BY <3>1, <4>1
    <3>2. ASSUME NEW v \in Vers, <<u, v>> \in last PROVE u \in {x[1] : x \in last}
      <4>1. <<u, v>>[1] = u
        OBVIOUS
      <4> QED BY <3>2, <4>1
    <3> QED BY <3>1, <3>2
  <2>2. \A u \in Users : u \in {x[1] : x \in last} => V(u) \in Vers
    BY <2>1
  <2>3. /\ limiter' = [u \in Users |-> IF u \in {x[1] : x \in last} THEN V(u) ELSE limiter[u]]
        /\ quiet' = [u \in Users |->
             IF u \in {x[1] : x \in last} /\ limiter[u] = None THEN 0 ELSE quiet[u]]
    BY <1>2 DEF Release, UpdateLimiter
  <2> HIDE DEF V
  <2>4. quiet' \in [Users -> 0..InactiveTTL + 1]
    BY <2>3, LimitAssumption DEF TypeInv, TypeOK
  <2> QED BY <1>2, <2>1, <2>2, <2>3, <2>4 DEF TypeInv, TypeOK
<1> QED BY <1>1, <1>2

LEMMA StartPassTypes == ASSUME TypeInv, StartPass PROVE TypeInv'
<1>1. PICK last \in SUBSET Copy : Release(last)
  BY DEF StartPass
<1>2. /\ pc = "idle" /\ pc' = "collect" /\ todo' = userList
      /\ limitedUsers' = [x \in Copy |-> IF Over(x) THEN None ELSE limitedUsers[x]]
      /\ UNCHANGED <<hasLimiter, counter, conns, silent, traffic, idle, warnedUsers,
                     panel, history, faults, ctl, sync, updates>>
  BY DEF StartPass, At, Goto, PassOnly
<1>3. limitedUsers' \in [Copy -> 0..LimitDuration + 1 \cup {None}]
  BY <1>2 DEF TypeInv, TypeOK
<1>4. TypeOK'
  BY <1>1, <1>2, <1>3, ReleaseKeeps DEF TypeInv, TypeOK, ctl, sync, panel, history
<1>5. PassFits'
  BY <1>2 DEF TypeInv, PassFits, NoUsers
<1>6. ConnsFit'
  BY <1>2 DEF TypeInv, ConnsFit
<1> QED BY <1>4, <1>5, <1>6 DEF TypeInv

\* What collecting one user's traffic does.
LEMMA CollectShape ==
  ASSUME TypeInv, NEW u \in Users, Collect(u)
  PROVE  /\ pc = "collect" /\ todo[u] \in Vers /\ <<u, todo[u]>> \in Copy /\ <<tag, u>> \in Names
         /\ todo' = [todo EXCEPT ![u] = None]
         /\ traffic' = [traffic EXCEPT ![u] =
              IF Value(<<tag, u>>) = 0 THEN None
              ELSE [n |-> Value(<<tag, u>>), tag |-> tag, live |-> TRUE]]
         /\ limitedUsers' = IF Punishes(<<u, todo[u]>>, Value(<<tag, u>>))
                              THEN [limitedUsers EXCEPT ![<<u, todo[u]>>] = LimitDuration + 1]
                              ELSE limitedUsers
         /\ silent' = IF Punishes(<<u, todo[u]>>, Value(<<tag, u>>)) THEN silent \cup {u} ELSE silent
         /\ warnedUsers' = [warnedUsers EXCEPT ![<<u, todo[u]>>] =
              Warnings(<<u, todo[u]>>, Value(<<tag, u>>))]
         /\ Warnings(<<u, todo[u]>>, Value(<<tag, u>>)) \in 0..WarnTimes
         /\ since' = [since EXCEPT ![u] = 0]
         /\ streak' = [streak EXCEPT ![u] =
              IF ~Exceeds(since[u]) THEN 0 ELSE IF streak[u] > WarnTimes THEN streak[u] ELSE streak[u] + 1]
         /\ UNCHANGED <<pc, limits, counter, conns, idle, panel, carried, repeated, dropped,
                        failed, leftover, faults, ctl, sync, updates>>
<1>1. /\ todo[u] \in Vers /\ <<u, todo[u]>> \in Copy /\ <<tag, u>> \in Names
  BY DEF Collect, TypeInv, TypeOK, UserList, Copy, Names
<1>2. warnedUsers[<<u, todo[u]>>] \in 0..WarnTimes
  BY <1>1 DEF TypeInv, TypeOK
<1>3. Warnings(<<u, todo[u]>>, Value(<<tag, u>>)) \in 0..WarnTimes
  BY <1>2, LimitAssumption DEF Warnings, Punishes
<1> QED BY <1>1, <1>3 DEF Collect, At, PassOnly

LEMMA CollectTypes == ASSUME TypeInv, NEW u \in Users, Collect(u) PROVE TypeInv'
<1> DEFINE n == Value(<<tag, u>>)
           x == <<u, todo[u]>>
           item == [n |-> n, tag |-> tag, live |-> TRUE]
<1>1. /\ pc = "collect" /\ todo[u] \in Vers /\ x \in Copy /\ <<tag, u>> \in Names
      /\ todo' = [todo EXCEPT ![u] = None] /\ traffic' = [traffic EXCEPT ![u] = IF n = 0 THEN None ELSE item]
  BY CollectShape
<1>2. /\ limitedUsers' \in {limitedUsers, [limitedUsers EXCEPT ![x] = LimitDuration + 1]}
      /\ silent' \in {silent, silent \cup {u}}
  BY CollectShape
<1>3. warnedUsers' = [warnedUsers EXCEPT ![x] = Warnings(x, n)] /\ Warnings(x, n) \in 0..WarnTimes
  BY CollectShape
<1>4. /\ since' = [since EXCEPT ![u] = 0]
      /\ streak' = [streak EXCEPT ![u] =
           IF ~Exceeds(since[u]) THEN 0 ELSE IF streak[u] > WarnTimes THEN streak[u] ELSE streak[u] + 1]
  BY CollectShape
<1>5. UNCHANGED <<pc, limits, counter, conns, idle, panel, carried, repeated, dropped,
                 failed, leftover, faults, ctl, sync, updates>>
  BY CollectShape
<1>6. item \in Item
  BY <1>1, ValueTypes DEF TypeInv, TypeOK, Item
<1> HIDE DEF n, x, item
<1>7. todo' \in UserList /\ traffic' \in [Users -> Item \cup {None}]
  BY <1>1, <1>6 DEF TypeInv, TypeOK, UserList
<1>8. limitedUsers' \in [Copy -> 0..LimitDuration + 1 \cup {None}] /\ silent' \subseteq Users
  <2>1. LimitDuration + 1 \in 0..LimitDuration + 1
    BY LimitAssumption
  <2> QED BY <1>1, <1>2, <2>1 DEF TypeInv, TypeOK
<1>9. warnedUsers' \in [Copy -> 0..WarnTimes] /\ since' \in [Users -> Nat]
  BY <1>1, <1>3, <1>4 DEF TypeInv, TypeOK
<1>10. streak' \in [Users -> 0..WarnTimes + 1]
  <2>1. streak[u] \in 0..WarnTimes + 1
    BY DEF TypeInv, TypeOK
  <2>2. (IF ~Exceeds(since[u]) THEN 0 ELSE IF streak[u] > WarnTimes THEN streak[u] ELSE streak[u] + 1)
          \in 0..WarnTimes + 1
    BY <2>1, LimitAssumption
  <2> QED BY <1>4, <2>2 DEF TypeInv, TypeOK
<1>11. TypeOK'
  BY <1>5, <1>7, <1>8, <1>9, <1>10 DEF TypeInv, TypeOK, limits, panel, ctl, sync
<1>12. PassFits'
  <2>1. ASSUME NEW v \in Users, todo'[v] # None PROVE traffic'[v] = None
    <3>1. v # u /\ todo[v] # None
      BY <1>1, <2>1 DEF TypeInv, TypeOK, UserList
    <3>2. traffic'[v] = traffic[v]
      BY <1>1, <3>1 DEF TypeInv, TypeOK
    <3> QED BY <3>1, <3>2 DEF TypeInv, PassFits
  <2> QED BY <1>1, <1>5, <2>1 DEF TypeInv, PassFits
<1>13. ConnsFit'
  BY <1>5 DEF TypeInv, ConnsFit
<1> QED BY <1>11, <1>12, <1>13 DEF TypeInv

LEMMA EndCollectTypes == ASSUME TypeInv, EndCollect PROVE TypeInv'
<1>1. /\ pc = "collect" /\ todo = NoUsers /\ silent' = {} /\ metered' = [n \in Names |-> metered[n] + Reported(n)]
      /\ pc' \in {"reset", "report"}
      /\ UNCHANGED <<hasLimiter, counter, conns, todo, traffic, idle, auto, billed, history,
                     faults, ctl, sync, updates>>
  BY DEF EndCollect, AddTraffic, Plus, At, Goto, PassOnly
<1>2. metered' \in [Names -> Nat]
  <2>1. \A n \in Names : metered[n] + Reported(n) \in Nat
    BY ValueTypes DEF TypeInv, TypeOK
  <2> QED BY <1>1, <2>1
<1>3. /\ limiter' \in [Users -> Vers \cup {AutoLimit, None}] /\ quiet' \in [Users -> 0..InactiveTTL + 1]
  BY LimitAssumption DEF EndCollect, UpdateLimiter, TypeInv, TypeOK
<1>4. TypeOK'
  BY <1>1, <1>2, <1>3 DEF TypeInv, TypeOK, ctl, sync, auto, history
<1>5. PassFits'
  BY <1>1 DEF TypeInv, PassFits, NoUsers
<1>6. ConnsFit'
  BY <1>1 DEF TypeInv, ConnsFit
<1> QED BY <1>4, <1>5, <1>6 DEF TypeInv

\* What a try of the report leaves.
LEMMA ReportShape ==
  ASSUME TypeInv, ReportAccepted \/ ReportRefused \/ AnswerLost
  PROVE  /\ pc = "report" /\ pc' \in {"report", "reset"} /\ traffic' \in {traffic, NoUsers}
         /\ billed' \in {billed, [n \in Names |-> billed[n] + Reported(n)]}
         /\ repeated' \in {repeated, [n \in Names |-> repeated[n] + Reported(n)]}
         /\ failed' \in BOOLEAN /\ leftover' \in BOOLEAN /\ faults' \in Nat
         /\ UNCHANGED <<limits, counter, conns, todo, silent, idle, auto, metered, carried, dropped,
                        since, streak, ctl, sync, updates>>
<1>1. CASE ReportAccepted
  BY <1>1 DEF ReportAccepted, ReportOnly, PassOnly, Plus, At, Goto, TypeInv, TypeOK
<1> DEFINE Fails == /\ pc' \in {"report", "reset"} /\ traffic' \in {traffic, NoUsers}
                    /\ failed' \in BOOLEAN /\ leftover' \in BOOLEAN /\ faults' \in Nat
<1>2. ASSUME TryFails, pc = "report" PROVE Fails
  <2>1. failed' \in BOOLEAN /\ leftover' \in BOOLEAN
    BY <1>2, Zenon DEF TryFails, TypeInv, TypeOK
  <2>2. faults' \in Nat
    BY <1>2 DEF TryFails, TypeInv, TypeOK
  <2> QED BY <1>2, <2>1, <2>2 DEF TryFails, Goto
<1> HIDE DEF Fails
<1>3. CASE ReportRefused
  <2>1. Fails /\ pc = "report"
    BY <1>3, <1>2 DEF ReportRefused, At
  <2> QED BY <1>3, <2>1 DEF Fails, ReportRefused, ReportOnly, PassOnly
<1>4. CASE AnswerLost
  <2>1. Fails /\ pc = "report"
    BY <1>4, <1>2 DEF AnswerLost, At
  <2> QED BY <1>4, <2>1 DEF Fails, AnswerLost, ReportOnly, PassOnly, Plus
<1> QED BY <1>1, <1>3, <1>4

LEMMA ReportTypes ==
  ASSUME TypeInv, ReportAccepted \/ ReportRefused \/ AnswerLost
  PROVE  TypeInv'
<1>1. \A n \in Names : billed[n] + Reported(n) \in Nat /\ repeated[n] + Reported(n) \in Nat
  BY ValueTypes DEF TypeInv, TypeOK
<1>2. billed' \in [Names -> Nat] /\ repeated' \in [Names -> Nat]
  BY <1>1, ReportShape DEF TypeInv, TypeOK
<1>3. traffic' \in [Users -> Item \cup {None}]
  BY ReportShape DEF TypeInv, TypeOK, NoUsers
<1>4. TypeOK'
  BY <1>2, <1>3, ReportShape DEF TypeInv, TypeOK, limits, ctl, sync, auto
<1>5. PassFits'
  BY ReportShape DEF TypeInv, PassFits, NoUsers
<1>6. ConnsFit'
  BY ReportShape DEF TypeInv, ConnsFit
<1> QED BY <1>4, <1>5, <1>6 DEF TypeInv

\* What resetting one counter does.
LEMMA ResetShape ==
  ASSUME TypeInv, LedgerInv, NEW u \in Users, ResetCounter(u)
  PROVE  LET n == <<traffic[u].tag, u>> IN
         /\ pc = "reset" /\ traffic[u] \in Item /\ n \in Names
         /\ traffic' = [traffic EXCEPT ![u] = None]
         /\ traffic[u].live =>
              /\ counter[n] \in Nat /\ traffic[u].n <= counter[n]
              /\ counter' = [counter EXCEPT ![n] = 0]
              /\ dropped' = [dropped EXCEPT ![n] = dropped[n] + (counter[n] - traffic[u].n)]
         /\ ~traffic[u].live => UNCHANGED <<counter, dropped>>
         /\ UNCHANGED <<pc, limits, conns, todo, silent, idle, auto, panel, carried,
                        repeated, since, streak, failed, leftover, faults, ctl, sync, updates>>
<1> DEFINE n == <<traffic[u].tag, u>>
<1>1. /\ pc = "reset" /\ traffic[u] \in Item /\ traffic[u].tag \in Tags
  BY DEF ResetCounter, At, TypeInv, TypeOK, Item
<1>2. n \in Names /\ n[1] = traffic[u].tag /\ n[2] = u
  BY <1>1, NameParts
<1>3. traffic[u].live => counter[n] \in Nat /\ traffic[u].n <= counter[n]
  <2> SUFFICES ASSUME traffic[u].live PROVE counter[n] \in Nat /\ traffic[u].n <= counter[n]
    OBVIOUS
  <2>1. ReadFrom(traffic[n[2]], n) /\ Live(n) /\ Read(n) = traffic[u].n
    BY <1>1, <1>2, NoneRecordAssumption DEF Live, ReadFrom, Read, Reported
  <2>2. counter[n] # None /\ Read(n) <= Value(n)
    BY <1>2, <2>1 DEF LedgerInv, Ledger
  <2> QED BY <1>2, <2>1, <2>2, ValueTypes DEF Value
<1> QED BY <1>1, <1>2, <1>3 DEF ResetCounter, PassOnly

LEMMA ResetTypes == ASSUME TypeInv, LedgerInv, NEW u \in Users, ResetCounter(u) PROVE TypeInv'
<1>1. PICK n \in Names : n = <<traffic[u].tag, u>>
  BY ResetShape
<1>2. /\ pc = "reset" /\ traffic[u] \in Item
      /\ traffic' = [traffic EXCEPT ![u] = None]
      /\ traffic[u].live =>
           /\ counter[n] \in Nat /\ traffic[u].n <= counter[n]
           /\ counter' = [counter EXCEPT ![n] = 0]
           /\ dropped' = [dropped EXCEPT ![n] = dropped[n] + (counter[n] - traffic[u].n)]
      /\ ~traffic[u].live => UNCHANGED <<counter, dropped>>
      /\ UNCHANGED <<pc, limits, conns, todo, silent, idle, auto, panel, carried,
                     repeated, since, streak, failed, leftover, faults, ctl, sync, updates>>
  BY <1>1, ResetShape
<1>3. traffic[u].live => dropped[n] + (counter[n] - traffic[u].n) \in Nat
  BY <1>2 DEF Item, TypeInv, TypeOK
<1>4. /\ counter' \in [Names -> Nat \cup {None}] /\ dropped' \in [Names -> Nat]
      /\ traffic' \in [Users -> Item \cup {None}]
  BY <1>2, <1>3 DEF TypeInv, TypeOK
<1>5. TypeOK'
  BY <1>2, <1>4 DEF TypeInv, TypeOK, limits, auto, panel, ctl, sync
<1>6. PassFits'
  BY <1>2 DEF TypeInv, TypeOK, PassFits
<1>7. ConnsFit'
  <2>1. \A m \in Names : counter[m] # None => counter'[m] # None
    BY <1>2, NoneAssumption DEF TypeInv, TypeOK
  <2>2. \A d \in Conns : conns[d] # None => <<conns[d].tag, conns[d].user>> \in Names
    BY DEF TypeInv, TypeOK, Conn, Names
  <2> QED BY <1>2, <2>1, <2>2 DEF TypeInv, ConnsFit
<1> QED BY <1>5, <1>6, <1>7 DEF TypeInv

LEMMA CleanupTypes == ASSUME TypeInv, CleanupInactive PROVE TypeInv'
<1>1. /\ traffic = NoUsers /\ pc = "reset" /\ pc' = "unregister" /\ idle' \subseteq Names
      /\ UNCHANGED <<limits, counter, conns, todo, silent, traffic, auto, panel, history, faults,
                     ctl, sync, updates>>
  BY DEF CleanupInactive, At, Goto, PassOnly, TypeInv, TypeOK, Names
<1>2. TypeOK'
  BY <1>1 DEF TypeInv, TypeOK, limits, auto, panel, history, ctl, sync
<1>3. PassFits' /\ ConnsFit'
  BY <1>1 DEF TypeInv, PassFits, ConnsFit, NoUsers
<1> QED BY <1>2, <1>3 DEF TypeInv

LEMMA UnregisterIdleTypes == ASSUME TypeInv, UnregisterIdle PROVE TypeInv'
<1>1. PICK t \in Tags : Unregister(t, {n[2] : n \in idle})
  BY DEF UnregisterIdle
<1>2. {n[2] : n \in idle} \in SUBSET Users
  BY NameParts DEF TypeInv, TypeOK
<1>3. /\ pc = "unregister" /\ pc' = "idle" /\ idle' = {}
      /\ UNCHANGED <<limits, todo, silent, auto, panel, carried, repeated, since, streak, failed,
                     leftover, faults, ctl, sync, updates>>
  BY DEF UnregisterIdle, At, Goto, PassOnly
<1>4. TypeOK'
  BY <1>1, <1>2, <1>3, UnregisterKeeps DEF TypeInv, TypeOK, limits, auto, panel, ctl, sync
<1>5. \A u \in Users : traffic[u] = None
  BY <1>3 DEF TypeInv, PassFits, NoUsers
<1>6. traffic' = NoUsers
  BY <1>1, <1>2, <1>5, UnregisterKeeps DEF NoUsers
<1>7. PassFits'
  BY <1>3, <1>6 DEF TypeInv, PassFits, NoUsers
<1> QED BY <1>1, <1>2, <1>4, <1>7, UnregisterKeeps DEF TypeInv

LEMMA DeleteUsersTypes == ASSUME TypeInv, DeleteUsers PROVE TypeInv'
<1>1. PICK us \in SUBSET Users :
        /\ limiter' = [u \in Users |-> IF u \in us THEN None ELSE limiter[u]]
        /\ Unregister(tag, us)
  BY DEF DeleteUsers
<1>2. /\ newList' \in UserList /\ npc' = "add" /\ updates' \in Nat
      /\ UNCHANGED <<pc, todo, silent, idle, auto, panel, carried, repeated, since,
                     streak, failed, faults, tag, userList, hasLimiter, quiet, leftover>>
  BY DEF DeleteUsers, SyncOnly, TypeInv, TypeOK
<1>3. tag \in Tags /\ limiter' \in [Users -> Vers \cup {AutoLimit, None}]
  BY <1>1 DEF TypeInv, TypeOK
<1>4. TypeOK'
  BY <1>1, <1>2, <1>3, UnregisterKeeps DEF TypeInv, TypeOK, auto, panel
<1>5. \A u \in Users : traffic[u] = None => traffic'[u] = None
  BY <1>1, <1>3, UnregisterKeeps
<1>6. PassFits'
  <2>1. traffic = NoUsers => traffic' = NoUsers
    BY <1>4, <1>5 DEF TypeOK, NoUsers
  <2> QED BY <1>2, <1>5, <2>1 DEF TypeInv, PassFits, NoUsers
<1> QED BY <1>1, <1>3, <1>4, <1>6, UnregisterKeeps DEF TypeInv

\* The other steps of nodeInfoMonitor touch no counter and no item.
LEMMA SyncTypes ==
  ASSUME TypeInv, AddUsers \/ SwitchTag \/ AddInboundLimiter \/ SetUserList
  PROVE  TypeInv'
<1>1. UNCHANGED <<pc, todo, silent, idle, auto, panel, carried, repeated, since,
                 streak, failed, faults, counter, conns, traffic, dropped>>
  BY DEF AddUsers, SwitchTag, AddInboundLimiter, SetUserList, SyncOnly, Keep
<1>2. /\ tag' \in Tags /\ userList' \in UserList /\ hasLimiter' \in BOOLEAN
      /\ limiter' \in [Users -> Vers \cup {AutoLimit, None}] /\ quiet' \in [Users -> 0..InactiveTTL + 1]
      /\ npc' \in {"idle", "add", "readd", "list"} /\ newList' \in UserList
      /\ leftover' \in BOOLEAN /\ updates' \in Nat
  <2>1. 0 \in 0..InactiveTTL + 1
    BY LimitAssumption
  <2>2. newList \in [Users -> Vers \cup {AutoLimit, None}]
    BY DEF TypeInv, TypeOK, UserList
  <2>3. CASE AddUsers
    <3>1. /\ limiter' \in [Users -> Vers \cup {AutoLimit, None}]
          /\ quiet' \in [Users -> 0..InactiveTTL + 1]
      <4>1. CASE hasLimiter
        BY <2>1, <2>2, <2>3, <4>1 DEF AddUsers, UpdateLimiter, TypeInv, TypeOK
      <4>2. CASE ~hasLimiter
        BY <2>3, <4>2 DEF AddUsers, UpdateLimiter, TypeInv, TypeOK
      <4> QED BY <4>1, <4>2
    <3>2. /\ UNCHANGED <<tag, userList, hasLimiter, newList, updates, leftover>> /\ npc' = "list"
      BY <2>3 DEF AddUsers, Keep
    <3> QED BY <3>1, <3>2 DEF TypeInv, TypeOK
  <2>4. CASE SwitchTag
    <3>1. leftover' \in BOOLEAN
      BY <2>4, Zenon DEF SwitchTag, TypeInv, TypeOK
    <3>2. /\ tag' \in Tags /\ newList' \in UserList /\ hasLimiter' = FALSE
          /\ limiter' = NoUsers /\ npc' = "readd" /\ updates' = updates + 1
          /\ UNCHANGED <<userList, quiet>>
      BY <2>4 DEF SwitchTag
    <3>3. NoUsers \in [Users -> Vers \cup {AutoLimit, None}]
      BY DEF NoUsers
    <3>4. hasLimiter' \in BOOLEAN
      BY <3>2
    <3>5. limiter' \in [Users -> Vers \cup {AutoLimit, None}]
      BY <3>2, <3>3
    <3>6. userList' \in UserList /\ quiet' \in [Users -> 0..InactiveTTL + 1]
      BY <3>2 DEF TypeInv, TypeOK
    <3>7. updates' \in Nat
      BY <3>2 DEF TypeInv, TypeOK
    <3> QED BY <3>1, <3>2, <3>4, <3>5, <3>6, <3>7
  <2>5. CASE AddInboundLimiter
    <3>1. /\ npc' = "list" /\ hasLimiter' = TRUE /\ limiter' = newList /\ quiet' = NoTime
          /\ UNCHANGED <<tag, userList, newList, updates, leftover>>
      BY <2>5 DEF AddInboundLimiter, Keep
    <3> QED BY <2>1, <2>2, <3>1 DEF TypeInv, TypeOK, NoTime
  <2>6. CASE SetUserList
    <3>1. leftover' \in BOOLEAN
      BY <2>6, Zenon DEF SetUserList, TypeInv, TypeOK
    <3>2. /\ npc' = "idle" /\ userList' = newList /\ UNCHANGED <<tag, limits, newList, updates>>
      BY <2>6 DEF SetUserList
    <3> QED BY <3>1, <3>2 DEF TypeInv, TypeOK, limits
  <2> QED BY <2>3, <2>4, <2>5, <2>6
<1>3. TypeOK'
  BY <1>1, <1>2 DEF TypeInv, TypeOK, auto, panel
<1>4. PassFits' /\ ConnsFit'
  BY <1>1 DEF TypeInv, PassFits, ConnsFit, NoUsers
<1> QED BY <1>3, <1>4 DEF TypeInv

LEMMA NextTypes == ASSUME TypeInv, LedgerInv, [Next]_vars PROVE TypeInv'
<1>1. CASE UNCHANGED vars
  <2>1. UNCHANGED <<ctl, limits, counter, conns, pass, auto, sync, panel, history, budgets>>
    BY <1>1 DEF vars
  <2>2. TypeOK'
    BY <2>1 DEF TypeInv, TypeOK, ctl, limits, pass, auto, sync, panel, history, budgets
  <2>3. PassFits' /\ ConnsFit'
    BY <2>1 DEF TypeInv, PassFits, ConnsFit, pass, NoUsers
  <2> QED BY <2>2, <2>3 DEF TypeInv
<1>2. CASE Pass
  BY <1>2, StartPassTypes, CollectTypes, EndCollectTypes, ReportTypes, ResetTypes, CleanupTypes,
     UnregisterIdleTypes DEF Pass
<1>3. CASE Sync
  BY <1>3, DeleteUsersTypes, SyncTypes DEF Sync
<1> QED BY <1>1, <1>2, <1>3, TickTypes, TrafficTypes DEF Next
-----------------------------------------------------------------------------
(* The accounts.                                                           *)

LEMMA LedgerStays ==
  ASSUME TypeInv, NEW n \in Names, Ledger(n), counter'[n] = None => counter[n] = None,
         Value(n)' = Value(n), UNCHANGED <<traffic, pc, billed, metered, carried, repeated, dropped, failed>>
  PROVE  Ledger(n)'
<1>1. Reported(n)' = Reported(n) /\ Live(n)' = Live(n)
  BY DEF Reported, Live, ReadFrom
<1>2. Read(n)' = Read(n) /\ Cut(n)' = Cut(n)
  BY <1>1 DEF Read, Cut
<1> QED BY <1>1, <1>2 DEF Ledger

\* A user nothing was read of.
LEMMA NothingRead ==
  ASSUME NEW n \in Names, traffic[n[2]] = None
  PROVE  Reported(n) = 0 /\ Read(n) = 0 /\ Cut(n) = 0 /\ ~Live(n)
BY DEF Reported, Read, Cut, Live, ReadFrom

LEMMA TrafficLedger == ASSUME TypeInv, LedgerInv, Traffic PROVE LedgerInv'
<1> SUFFICES ASSUME NEW n \in Names PROVE Ledger(n)'
  BY DEF LedgerInv
<1>1. PICK c \in Conns : Dispatch(c) \/ RegisterCounter(c) \/ WriteMultiBuffer(c) \/ Close(c)
  BY DEF Traffic
<1>2. Ledger(n) /\ UNCHANGED <<pc, traffic, billed, metered>>
  BY <1>1 DEF Dispatch, RegisterCounter, WriteMultiBuffer, Close, ConnOnly, pass, panel, LedgerInv
<1>3. CASE Dispatch(c) \/ Close(c)
  BY <1>2, <1>3, LedgerStays DEF Dispatch, Close, history, Value
<1>4. CASE RegisterCounter(c)
  <2>1. UNCHANGED <<carried, repeated, dropped, failed>>
    BY <1>4 DEF RegisterCounter, history
  <2>2. counter'[n] = counter[n] \/ (counter[n] = None /\ counter'[n] = 0)
    BY <1>4 DEF RegisterCounter, TypeInv, TypeOK
  <2>3. Value(n)' = Value(n) /\ (counter'[n] = None => counter[n] = None)
    BY <2>2, NoneAssumption DEF Value
  <2> QED BY <1>2, <2>1, <2>3, LedgerStays
<1>5. CASE WriteMultiBuffer(c)
  <2>1. PICK k \in Names : k = <<conns[c].tag, conns[c].user>>
    BY <1>5 DEF WriteMultiBuffer, TypeInv, TypeOK, Conn, Names
  <2>2. /\ carried' = [carried EXCEPT ![k] = carried[k] + 1] /\ UNCHANGED <<repeated, failed>>
        /\ \/ /\ counter[k] # None /\ counter' = [counter EXCEPT ![k] = counter[k] + 1] /\ UNCHANGED dropped
           \/ /\ UNCHANGED counter /\ dropped' = [dropped EXCEPT ![k] = dropped[k] + 1]
    BY <1>5, <2>1 DEF WriteMultiBuffer, TypeInv, ConnsFit
  <2>3. CASE n # k
    <3>1. carried'[n] = carried[n] /\ counter'[n] = counter[n] /\ dropped'[n] = dropped[n]
      BY <2>2, <2>3 DEF TypeInv, TypeOK
    <3>2. Value(n)' = Value(n) /\ Reported(n)' = Reported(n) /\ Live(n)' = Live(n)
      BY <1>2, <3>1 DEF Value, Reported, Live, ReadFrom
    <3>3. Read(n)' = Read(n) /\ Cut(n)' = Cut(n)
      BY <3>2 DEF Read, Cut
    <3> QED BY <1>2, <2>2, <3>1, <3>2, <3>3 DEF Ledger
  <2>4. CASE n = k
    <3>1. carried'[n] = carried[n] + 1
      BY <2>2, <2>4 DEF TypeInv, TypeOK
    <3>2. \/ counter'[n] # None /\ Value(n)' = Value(n) + 1 /\ dropped'[n] = dropped[n]
          \/ counter'[n] = counter[n] /\ Value(n)' = Value(n) /\ dropped'[n] = dropped[n] + 1
      BY <2>2, <2>4, NoneAssumption DEF TypeInv, TypeOK, Value
    <3>3. Reported(n)' = Reported(n) /\ Live(n)' = Live(n)
      BY <1>2 DEF Reported, Live, ReadFrom
    <3>4. Read(n)' = Read(n) /\ Cut(n)' = Cut(n)
      BY <3>3 DEF Read, Cut
    <3>5. /\ Value(n) \in Nat /\ Read(n) \in Nat /\ Cut(n) \in Nat /\ billed[n] \in Nat /\ metered[n] \in Nat
          /\ carried[n] \in Nat /\ repeated[n] \in Nat /\ dropped[n] \in Nat
      BY ValueTypes DEF TypeInv, TypeOK
    <3> QED BY <1>2, <2>2, <3>1, <3>2, <3>3, <3>4, <3>5 DEF Ledger
  <2> QED BY <2>3, <2>4
<1> QED BY <1>1, <1>3, <1>4, <1>5

LEMMA StartPassLedger == ASSUME TypeInv, LedgerInv, StartPass PROVE LedgerInv'
<1> SUFFICES ASSUME NEW n \in Names PROVE Ledger(n)'
  BY DEF LedgerInv
<1>1. /\ pc = "idle" /\ pc' = "collect" /\ traffic = NoUsers
      /\ UNCHANGED <<counter, traffic, billed, metered, carried, repeated, dropped, failed>>
  BY DEF StartPass, At, Goto, TypeInv, PassFits, panel, history
<1>2. /\ Reported(n) = 0 /\ Read(n) = 0 /\ Cut(n) = 0 /\ ~Live(n)
  BY <1>1, NameParts, NothingRead DEF NoUsers
<1>3. /\ Reported(n)' = 0 /\ Read(n)' = 0 /\ Cut(n)' = 0 /\ ~Live(n)' /\ Value(n)' = Value(n)
  BY <1>1, <1>2 DEF Reported, Read, Cut, Live, ReadFrom, Value
<1>4. /\ Value(n) \in Nat /\ billed[n] \in Nat /\ metered[n] \in Nat
      /\ carried[n] \in Nat /\ repeated[n] \in Nat /\ dropped[n] \in Nat
  BY ValueTypes DEF TypeInv, TypeOK
<1> QED BY <1>1, <1>2, <1>3, <1>4 DEF LedgerInv, Ledger

LEMMA CollectLedger == ASSUME TypeInv, LedgerInv, NEW u \in Users, Collect(u) PROVE LedgerInv'
<1> SUFFICES ASSUME NEW n \in Names PROVE Ledger(n)'
  BY DEF LedgerInv
<1>1. /\ pc = "collect" /\ todo[u] \in Vers /\ <<tag, u>> \in Names
      /\ traffic' = [traffic EXCEPT ![u] =
           IF Value(<<tag, u>>) = 0 THEN None ELSE [n |-> Value(<<tag, u>>), tag |-> tag, live |-> TRUE]]
      /\ UNCHANGED <<pc, counter, billed, metered, carried, repeated, dropped, failed>>
  BY CollectShape DEF panel
<1>2. Ledger(n) /\ Value(n)' = Value(n) /\ Value(n) \in Nat
  BY <1>1, ValueTypes DEF LedgerInv, Value
<1>3. CASE n[2] # u
  <2>1. traffic'[n[2]] = traffic[n[2]]
    BY <1>1, <1>3, NameParts DEF TypeInv, TypeOK
  <2>2. Reported(n)' = Reported(n) /\ Live(n)' = Live(n)
    BY <2>1 DEF Reported, Live, ReadFrom
  <2>3. Read(n)' = Read(n) /\ Cut(n)' = Cut(n)
    BY <2>2 DEF Read, Cut
  <2> QED BY <1>1, <1>2, <2>2, <2>3 DEF Ledger
<1>4. CASE n[2] = u
  <2>1. traffic[u] = None
    BY <1>1, NoneAssumption DEF TypeInv, PassFits
  <2>2. Read(n) = 0 /\ Cut(n) = 0
    BY <1>4, <2>1, NothingRead
  <2>3. CASE n[1] = tag /\ Value(n) # 0
    <3>1. n = <<tag, u>> /\ traffic'[n[2]] = [n |-> Value(n), tag |-> tag, live |-> TRUE]
      BY <1>1, <1>4, <2>3, NameParts DEF TypeInv, TypeOK
    <3>2. traffic'[n[2]] \in Item
      BY <1>2, <3>1 DEF Item, TypeInv, TypeOK
    <3>3. PICK i \in Item : traffic'[n[2]] = i /\ i.n = Value(n) /\ i.tag = tag /\ i.live
      BY <3>1, <3>2
    <3>4. Live(n)' /\ Reported(n)' = Value(n)
      BY <2>3, <3>3, NoneRecordAssumption DEF Live, Reported, ReadFrom
    <3>5. Read(n)' = Value(n) /\ Cut(n)' = 0 /\ counter'[n] # None
      BY <1>1, <2>3, <3>4 DEF Read, Cut, Value
    <3> QED BY <1>1, <1>2, <2>2, <3>5 DEF Ledger
  <2>4. CASE ~(n[1] = tag /\ Value(n) # 0)
    <3>1. \/ traffic'[u] = None
          \/ traffic'[u] = [n |-> Value(<<tag, u>>), tag |-> tag, live |-> TRUE] /\ n[1] # tag
      <4>1. n[1] = tag => n = <<tag, u>>
        BY <1>4, NameParts
      <4> QED BY <1>1, <2>4, <4>1 DEF TypeInv, TypeOK
    <3>2. ~ReadFrom(traffic'[u], n)
      BY <3>1 DEF ReadFrom
    <3>3. ~Live(n)' /\ Read(n)' = 0 /\ Cut(n)' = 0
      BY <1>4, <3>2 DEF Live, Read, Cut, Reported
    <3> QED BY <1>1, <1>2, <2>2, <3>3 DEF Ledger
  <2> QED BY <2>3, <2>4
<1> QED BY <1>3, <1>4

LEMMA EndCollectLedger == ASSUME TypeInv, LedgerInv, EndCollect PROVE LedgerInv'
<1> SUFFICES ASSUME NEW n \in Names PROVE Ledger(n)'
  BY DEF LedgerInv
<1>1. /\ pc = "collect" /\ metered' = [m \in Names |-> metered[m] + Reported(m)]
      /\ pc' = IF traffic = NoUsers \/ DisableUploadTraffic THEN "reset" ELSE "report"
      /\ UNCHANGED <<counter, traffic, billed, carried, repeated, dropped, failed>>
  BY DEF EndCollect, AddTraffic, Plus, At, Goto, history
<1>2. metered'[n] = metered[n] + Reported(n)
  BY <1>1
<1>3. /\ Ledger(n) /\ Value(n)' = Value(n) /\ Reported(n)' = Reported(n) /\ Live(n)' = Live(n)
  BY <1>1 DEF LedgerInv, Value, Reported, Live, ReadFrom
<1>4. Read(n)' = Read(n) /\ Cut(n)' = Cut(n)
  BY <1>3 DEF Read, Cut
<1>5. traffic = NoUsers => Read(n) = 0
  BY NameParts, NothingRead DEF NoUsers
<1>6. /\ Value(n) \in Nat /\ Read(n) \in Nat /\ Cut(n) \in Nat /\ Read(n) + Cut(n) = Reported(n)
      /\ billed[n] \in Nat /\ metered[n] \in Nat
      /\ carried[n] \in Nat /\ repeated[n] \in Nat /\ dropped[n] \in Nat
  BY ValueTypes DEF TypeInv, TypeOK
<1>7. CASE pc' = "reset" /\ (Read(n) = 0 \/ DisableUploadTraffic)
  BY <1>1, <1>2, <1>3, <1>4, <1>6, <1>7 DEF Ledger
<1>8. CASE pc' = "report"
  BY <1>1, <1>2, <1>3, <1>4, <1>6, <1>8 DEF Ledger
<1> QED BY <1>1, <1>5, <1>7, <1>8

LEMMA ReportLedger ==
  ASSUME TypeInv, LedgerInv, ReportAccepted \/ ReportRefused \/ AnswerLost
  PROVE  LedgerInv'
<1> SUFFICES ASSUME NEW n \in Names PROVE Ledger(n)'
  BY DEF LedgerInv
<1>1. pc = "report" /\ UNCHANGED <<counter, metered, carried, dropped>>
  BY ReportShape
<1>2. Ledger(n) /\ Value(n)' = Value(n)
  BY <1>1 DEF LedgerInv, Value
<1>3. /\ Value(n) \in Nat /\ Read(n) \in Nat /\ Cut(n) \in Nat /\ Read(n) + Cut(n) = Reported(n)
      /\ billed[n] \in Nat /\ metered[n] \in Nat
      /\ carried[n] \in Nat /\ repeated[n] \in Nat /\ dropped[n] \in Nat
  BY ValueTypes DEF TypeInv, TypeOK
<1>4. \/ billed'[n] = billed[n] /\ repeated'[n] = repeated[n]
      \/ billed'[n] = billed[n] + Reported(n) /\ repeated'[n] = repeated[n] + Reported(n)
      \/ /\ billed'[n] = billed[n] + Reported(n) /\ repeated'[n] = repeated[n]
         /\ UNCHANGED traffic /\ pc' = "reset" /\ failed' = failed
  BY DEF ReportAccepted, ReportRefused, AnswerLost, Plus, Goto
<1>5. CASE UNCHANGED traffic
  <2>1. Reported(n)' = Reported(n) /\ Live(n)' = Live(n)
    BY <1>5 DEF Reported, Live, ReadFrom
  <2>2. Read(n)' = Read(n) /\ Cut(n)' = Cut(n)
    BY <2>1 DEF Read, Cut
  <2>3. CASE ReportAccepted
    <3>1. pc' = "reset" /\ failed' = failed /\ billed'[n] = billed[n] + Reported(n) /\ repeated'[n] = repeated[n]
      BY <2>3 DEF ReportAccepted, Goto, Plus
    <3> QED BY <1>1, <1>2, <1>3, <2>1, <2>2, <3>1 DEF Ledger
  <2>4. CASE ReportRefused \/ AnswerLost
    <3>1. /\ \/ billed'[n] = billed[n] /\ repeated'[n] = repeated[n]
             \/ billed'[n] = billed[n] + Reported(n) /\ repeated'[n] = repeated[n] + Reported(n)
          /\ \/ pc' = pc /\ failed' = failed
             \/ pc' = "reset" /\ failed' /\ traffic = NoUsers
      BY <1>5, <2>4 DEF ReportRefused, AnswerLost, TryFails, Plus, Goto
    <3>2. traffic = NoUsers => Read(n) = 0 /\ Cut(n) = 0
      BY NameParts, NothingRead DEF NoUsers
    <3> QED BY <1>1, <1>2, <1>3, <2>1, <2>2, <3>1, <3>2 DEF Ledger
  <2> QED BY <2>3, <2>4
<1>6. CASE ~UNCHANGED traffic
  <2>1. /\ \/ billed'[n] = billed[n] /\ repeated'[n] = repeated[n]
           \/ billed'[n] = billed[n] + Reported(n) /\ repeated'[n] = repeated[n] + Reported(n)
        /\ traffic' = NoUsers /\ pc' = "reset" /\ failed'
    BY <1>6 DEF ReportAccepted, ReportRefused, AnswerLost, TryFails, Plus, Goto
  <2>2. ~Live(n)' /\ Read(n)' = 0 /\ Cut(n)' = 0
    BY <2>1, NameParts DEF Live, Read, Cut, Reported, ReadFrom, NoUsers
  <2> QED BY <1>1, <1>2, <1>3, <2>1, <2>2 DEF Ledger
<1> QED BY <1>5, <1>6

LEMMA ResetLedger == ASSUME TypeInv, LedgerInv, NEW u \in Users, ResetCounter(u) PROVE LedgerInv'
<1> SUFFICES ASSUME NEW n \in Names PROVE Ledger(n)'
  BY DEF LedgerInv
<1>1. PICK m \in Names : m = <<traffic[u].tag, u>> /\ m[1] = traffic[u].tag /\ m[2] = u
  BY ResetShape
<1>2. /\ pc = "reset" /\ traffic[u] \in Item /\ traffic' = [traffic EXCEPT ![u] = None]
      /\ traffic[u].live =>
           /\ counter[m] \in Nat /\ traffic[u].n <= counter[m]
           /\ counter' = [counter EXCEPT ![m] = 0]
           /\ dropped' = [dropped EXCEPT ![m] = dropped[m] + (counter[m] - traffic[u].n)]
      /\ ~traffic[u].live => UNCHANGED <<counter, dropped>>
      /\ UNCHANGED <<pc, billed, metered, carried, repeated, failed>>
  BY <1>1, ResetShape DEF panel
<1>3. /\ Ledger(n) /\ Value(n) \in Nat /\ Read(n) \in Nat /\ billed[n] \in Nat /\ metered[n] \in Nat
      /\ carried[n] \in Nat /\ repeated[n] \in Nat /\ dropped[n] \in Nat
  BY ValueTypes DEF LedgerInv, TypeInv, TypeOK
<1>4. CASE n[2] # u
  <2>1. traffic'[n[2]] = traffic[n[2]] /\ counter'[n] = counter[n] /\ dropped'[n] = dropped[n]
    BY <1>1, <1>2, <1>4, NameParts DEF TypeInv, TypeOK
  <2>2. Reported(n)' = Reported(n) /\ Live(n)' = Live(n) /\ Value(n)' = Value(n)
    BY <2>1 DEF Reported, Live, ReadFrom, Value
  <2>3. Read(n)' = Read(n) /\ Cut(n)' = Cut(n)
    BY <2>2 DEF Read, Cut
  <2> QED BY <1>2, <1>3, <2>1, <2>2, <2>3 DEF Ledger
<1>5. CASE n[2] = u
  <2>1. traffic'[n[2]] = None
    BY <1>2, <1>5 DEF TypeInv, TypeOK
  <2>2. ~Live(n)' /\ Read(n)' = 0 /\ Cut(n)' = 0
    BY <2>1 DEF Live, Read, Cut, Reported, ReadFrom
  <2>3. CASE n = m /\ traffic[u].live
    <3>1. Read(n) = traffic[u].n
      BY <1>1, <1>2, <1>5, <2>3, NoneRecordAssumption DEF Read, Live, Reported, ReadFrom
    <3>2. Value(n) = counter[m]
      BY <1>2, <2>3, NoneAssumption DEF Value
    <3>3. Value(n)' = 0 /\ dropped'[n] = dropped[n] + (Value(n) - Read(n))
      BY <1>2, <2>3, <3>1, <3>2 DEF Value, TypeInv, TypeOK
    <3> QED BY <1>2, <1>3, <2>2, <3>3 DEF Ledger
  <2>4. CASE n # m \/ ~traffic[u].live
    <3>1. counter'[n] = counter[n] /\ dropped'[n] = dropped[n]
      BY <1>2, <2>4 DEF TypeInv, TypeOK
    <3>2. Value(n)' = Value(n)
      BY <3>1 DEF Value
    <3>3. Read(n) = 0
      BY <1>1, <1>5, <2>4, NameParts DEF Read, Live, ReadFrom
    <3> QED BY <1>2, <1>3, <2>2, <3>1, <3>2, <3>3 DEF Ledger
  <2> QED BY <2>3, <2>4
<1> QED BY <1>4, <1>5

\* A counter that is unregistered takes with it what no report will hold.
LEMMA UnregisterLedger ==
  ASSUME TypeInv, NEW n \in Names, Ledger(n), NEW t \in Tags, NEW us \in SUBSET Users, Unregister(t, us),
         pc' = pc \/ (pc = "unregister" /\ pc' = "idle"),
         UNCHANGED <<billed, metered, carried, repeated, failed>>
  PROVE  Ledger(n)'
<1>1. /\ Value(n) \in Nat /\ Read(n) \in Nat /\ Cut(n) \in Nat /\ billed[n] \in Nat /\ metered[n] \in Nat
      /\ carried[n] \in Nat /\ repeated[n] \in Nat /\ dropped[n] \in Nat
  BY ValueTypes DEF TypeInv, TypeOK
<1>2. /\ counter'[n] = IF n[1] = t /\ n[2] \in us THEN None ELSE counter[n]
      /\ dropped'[n] = dropped[n] + IF n[1] = t /\ n[2] \in us THEN Value(n) ELSE 0
  BY UnregisterKeeps
<1>3. /\ traffic'[n[2]] = None <=> traffic[n[2]] = None
      /\ traffic[n[2]] # None =>
           /\ traffic'[n[2]].n = traffic[n[2]].n /\ traffic'[n[2]].tag = traffic[n[2]].tag
           /\ traffic'[n[2]].live = (traffic[n[2]].live /\ ~(traffic[n[2]].tag = t /\ n[2] \in us))
  BY NameParts, UnregisterKeeps
<1>4. Reported(n)' = Reported(n)
  BY <1>3 DEF Reported, ReadFrom
<1>5. CASE n[1] = t /\ n[2] \in us
  <2>1. Value(n)' = 0 /\ dropped'[n] = dropped[n] + Value(n)
    BY <1>2, <1>5 DEF Value
  <2>2. ~Live(n)'
    BY <1>3, <1>5 DEF Live, ReadFrom
  <2>3. Read(n)' = 0 /\ Cut(n)' = Read(n) + Cut(n)
    BY <1>1, <1>4, <2>2 DEF Read, Cut
  <2> QED BY <1>1, <2>1, <2>2, <2>3 DEF Ledger
<1>6. CASE ~(n[1] = t /\ n[2] \in us)
  <2>1. counter'[n] = counter[n] /\ Value(n)' = Value(n) /\ dropped'[n] = dropped[n]
    BY <1>1, <1>2, <1>6 DEF Value
  <2>2. Live(n)' = Live(n)
    BY <1>3, <1>6 DEF Live, ReadFrom
  <2>3. Read(n)' = Read(n) /\ Cut(n)' = Cut(n)
    BY <1>4, <2>2 DEF Read, Cut
  <2> QED BY <1>1, <2>1, <2>2, <2>3 DEF Ledger
<1> QED BY <1>5, <1>6

LEMMA CleanupLedger == ASSUME TypeInv, LedgerInv, CleanupInactive PROVE LedgerInv'
<1> SUFFICES ASSUME NEW n \in Names PROVE Ledger(n)'
  BY DEF LedgerInv
<1>1. /\ pc = "reset" /\ pc' = "unregister" /\ traffic = NoUsers
      /\ UNCHANGED <<counter, traffic, billed, metered, carried, repeated, dropped, failed>>
  BY DEF CleanupInactive, At, Goto, panel, history
<1>2. /\ Read(n) = 0 /\ Cut(n) = 0 /\ ~Live(n)
  BY <1>1, NameParts, NothingRead DEF NoUsers
<1>3. /\ Read(n)' = 0 /\ Cut(n)' = 0 /\ ~Live(n)' /\ Value(n)' = Value(n)
  BY <1>1, <1>2 DEF Reported, Read, Cut, Live, ReadFrom, Value
<1>4. /\ Value(n) \in Nat /\ billed[n] \in Nat /\ metered[n] \in Nat
      /\ carried[n] \in Nat /\ repeated[n] \in Nat /\ dropped[n] \in Nat
  BY ValueTypes DEF TypeInv, TypeOK
<1> QED BY <1>1, <1>2, <1>3, <1>4 DEF LedgerInv, Ledger

LEMMA NextLedger == ASSUME TypeInv, LedgerInv, [Next]_vars PROVE LedgerInv'
<1>1. CASE UNCHANGED <<counter, traffic, pc, billed, metered, carried, repeated, dropped, failed>>
  BY <1>1, LedgerStays DEF LedgerInv, Value
<1>2. CASE Pass
  <2>1. CASE UnregisterIdle
    <3>1. PICK t \in Tags : Unregister(t, {n[2] : n \in idle})
      BY <2>1 DEF UnregisterIdle
    <3>2. {n[2] : n \in idle} \in SUBSET Users
      BY NameParts DEF TypeInv, TypeOK
    <3>3. /\ pc = "unregister" /\ pc' = "idle" /\ UNCHANGED <<billed, metered, carried, repeated, failed>>
      BY <2>1 DEF UnregisterIdle, At, Goto, panel
    <3> QED BY <3>1, <3>2, <3>3, UnregisterLedger DEF LedgerInv
  <2>2. CASE ~UnregisterIdle
    BY <1>2, <2>2, StartPassLedger, CollectLedger, EndCollectLedger, ReportLedger, ResetLedger,
       CleanupLedger DEF Pass
  <2> QED BY <2>1, <2>2
<1>3. CASE DeleteUsers
  <2>1. PICK us \in SUBSET Users : Unregister(tag, us)
    BY <1>3 DEF DeleteUsers
  <2>2. tag \in Tags /\ pc' = pc /\ UNCHANGED <<billed, metered, carried, repeated, failed>>
    BY <1>3 DEF DeleteUsers, SyncOnly, panel, TypeInv, TypeOK
  <2> QED BY <2>1, <2>2, UnregisterLedger DEF LedgerInv
<1>4. CASE Tick \/ AddUsers \/ SwitchTag \/ AddInboundLimiter \/ SetUserList \/ UNCHANGED vars
  <2>1. UNCHANGED <<counter, traffic, pc, billed, metered, carried, repeated, dropped, failed>>
    BY <1>4 DEF Tick, AddUsers, SwitchTag, AddInboundLimiter, SetUserList, Keep, SyncOnly,
                vars, pass, panel, history
  <2> QED BY <1>1, <2>1
<1> QED BY <1>2, <1>3, <1>4, TrafficLedger DEF Next, Sync

LEMMA CoreAlways == Spec => [](TypeInv /\ LedgerInv)
<1>1. Init => TypeInv /\ LedgerInv
  <2> SUFFICES ASSUME Init PROVE TypeInv /\ LedgerInv
    OBVIOUS
  <2>1. ASSUME NEW n \in Names PROVE Ledger(n)
    <3>1. traffic[n[2]] = None /\ counter[n] = None /\ pc = "idle" /\ ~failed
      BY NameParts DEF Init, NoUsers
    <3>2. Read(n) = 0 /\ Cut(n) = 0 /\ ~Live(n) /\ Value(n) = 0
      BY <3>1, NothingRead DEF Value
    <3>3. billed[n] = 0 /\ metered[n] = 0 /\ carried[n] = 0 /\ repeated[n] = 0 /\ dropped[n] = 0
      BY DEF Init, NoBytes
    <3> QED BY <3>1, <3>2, <3>3 DEF Ledger
  <2> QED BY <2>1, InitTypes DEF LedgerInv
<1>2. TypeInv /\ LedgerInv /\ [Next]_vars => (TypeInv /\ LedgerInv)'
  BY NextTypes, NextLedger
<1> QED BY <1>1, <1>2, PTL DEF Spec

\* Every variable of the pass has its type: warnings never pass WarnTimes, and
\* a reset never takes more from a counter than it holds (resetTraffic).
THEOREM UserMonitorTypes == Spec => []TypeOK
<1>1. TypeInv /\ LedgerInv => TypeOK
  BY DEF TypeInv
<1> QED BY <1>1, CoreAlways, PTL

\* The panel bills no byte twice (userInfoMonitor, ReportUserTraffic), but for
\* reports that arrived and whose answer was lost.
THEOREM NothingBilledTwice == Spec => []NeverBilledTwice
<1>1. TypeInv /\ LedgerInv => NeverBilledTwice
  <2> SUFFICES ASSUME TypeInv, LedgerInv, NEW n \in Names PROVE billed[n] <= carried[n] + repeated[n]
    BY DEF NeverBilledTwice
  <2>1. /\ Value(n) \in Nat /\ Read(n) \in Nat /\ Cut(n) \in Nat /\ billed[n] \in Nat
        /\ carried[n] \in Nat /\ repeated[n] \in Nat
    BY ValueTypes DEF TypeInv, TypeOK
  <2> QED BY <2>1 DEF LedgerInv, Ledger
<1> QED BY <1>1, CoreAlways, PTL

\* No byte is silently lost (resetTraffic, unregisterTrafficCounters): what is
\* not billed is in its counter, unless it came while a report was under way
\* or without a registered counter.
THEOREM NothingLost == Spec => []Accounted
<1>1. TypeInv /\ LedgerInv => Accounted
  <2> SUFFICES ASSUME TypeInv, LedgerInv, ~DisableUploadTraffic, NEW n \in Names
               PROVE  carried[n] <= billed[n] + Value(n) + dropped[n]
    BY DEF Accounted
  <2>1. /\ Value(n) \in Nat /\ Read(n) \in Nat /\ billed[n] \in Nat
        /\ carried[n] \in Nat /\ dropped[n] \in Nat
    BY ValueTypes DEF TypeInv, TypeOK
  <2> QED BY <2>1 DEF LedgerInv, Ledger
<1> QED BY <1>1, CoreAlways, PTL

\* Metrics count no byte twice unless a report failed (Collector.AddTraffic).
THEOREM NothingMeteredTwice == Spec => []MeteredOnce
<1>1. TypeInv /\ LedgerInv => MeteredOnce
  <2> SUFFICES ASSUME TypeInv, LedgerInv, ~failed, NEW n \in Names PROVE metered[n] <= carried[n]
    BY DEF MeteredOnce
  <2>1. /\ Value(n) \in Nat /\ Read(n) \in Nat /\ Cut(n) \in Nat /\ metered[n] \in Nat
        /\ carried[n] \in Nat /\ pc \in {"idle", "collect", "report", "reset", "unregister"}
    BY ValueTypes DEF TypeInv, TypeOK
  <2> QED BY <2>1 DEF LedgerInv, Ledger
<1> QED BY <1>1, CoreAlways, PTL
-----------------------------------------------------------------------------
(* Automatic limits are remembered.                                        *)

LEMMA RememberStays ==
  ASSUME RememberInv, UNCHANGED hasLimiter,
         \A u \in Users : limiter'[u] = AutoLimit => limiter[u] = AutoLimit \/ u \in silent,
         ~hasLimiter => limiter' = NoUsers, silent' \subseteq silent,
         \A x \in Copy : limitedUsers[x] # None => limitedUsers'[x] # None
  PROVE  RememberInv'
<1> SUFFICES ASSUME NEW u \in Users, limiter'[u] = AutoLimit \/ u \in silent'
             PROVE  \E v \in Vers : limitedUsers'[<<u, v>>] # None
  BY DEF RememberInv
<1>1. PICK v \in Vers : limitedUsers[<<u, v>>] # None
  BY DEF RememberInv
<1>2. <<u, v>> \in Copy
  BY DEF Copy
<1> QED BY <1>1, <1>2

\* The user's limit is lifted with the copy that remembers it.
LEMMA StartPassRemembers == ASSUME TypeInv, RememberInv, StartPass PROVE RememberInv'
<1>1. PICK last \in SUBSET Copy :
        /\ \A x \in Copy : Over(x) => \E v \in Vers : <<x[1], v>> \in last
        /\ Release(last)
  BY DEF StartPass
<1>2. /\ limitedUsers' = [x \in Copy |-> IF Over(x) THEN None ELSE limitedUsers[x]]
      /\ UNCHANGED <<hasLimiter, silent>> /\ silent = {}
  BY DEF StartPass, At, TypeInv, PassFits
<1>3. /\ ~hasLimiter => limiter' = limiter
      /\ \A u \in Users :
           /\ limiter'[u] # limiter[u] => limiter'[u] \in Vers
           /\ hasLimiter => \A v \in Vers : <<u, v>> \in last => limiter'[u] \in Vers
  BY <1>1, ReleaseKeeps
<1>4. ~hasLimiter => limiter' = NoUsers
  BY <1>3 DEF RememberInv
<1>5. ASSUME NEW u \in Users, limiter'[u] = AutoLimit
      PROVE  \E v \in Vers : limitedUsers'[<<u, v>>] # None
  <2>1. limiter'[u] \notin Vers
    BY <1>5, NoneAssumption
  <2>2. limiter[u] = AutoLimit
    BY <1>3, <1>5, <2>1
  <2>3. hasLimiter
    BY <1>4, <1>5, NoneAssumption DEF NoUsers
  <2>4. PICK v \in Vers : limitedUsers[<<u, v>>] # None
    BY <2>2 DEF RememberInv
  <2>5. <<u, v>> \in Copy /\ <<u, v>>[1] = u
    BY DEF Copy
  <2>6. ~Over(<<u, v>>)
    <3> SUFFICES ASSUME Over(<<u, v>>) PROVE FALSE
      OBVIOUS
    <3>1. PICK w \in Vers : <<u, w>> \in last
      BY <1>1, <2>5
    <3> QED BY <1>3, <2>1, <2>3, <3>1
  <2> QED BY <1>2, <2>4, <2>5, <2>6
<1> QED BY <1>2, <1>4, <1>5 DEF RememberInv

LEMMA CollectRemembers == ASSUME TypeInv, RememberInv, NEW u \in Users, Collect(u) PROVE RememberInv'
<1>1. /\ <<u, todo[u]>> \in Copy /\ todo[u] \in Vers /\ UNCHANGED <<hasLimiter, limiter>>
      /\ \/ UNCHANGED <<limitedUsers, silent>>
         \/ /\ limitedUsers' = [limitedUsers EXCEPT ![<<u, todo[u]>>] = LimitDuration + 1]
            /\ silent' = silent \cup {u}
  BY CollectShape DEF limits
<1>2. LimitDuration + 1 # None
  BY LimitAssumption, NoneAssumption
<1>3. CASE UNCHANGED <<limitedUsers, silent>>
  BY <1>1, <1>3 DEF RememberInv
<1>4. CASE /\ limitedUsers' = [limitedUsers EXCEPT ![<<u, todo[u]>>] = LimitDuration + 1]
           /\ silent' = silent \cup {u}
  <2>1. /\ limitedUsers'[<<u, todo[u]>>] # None
        /\ \A x \in Copy : limitedUsers[x] # None => limitedUsers'[x] # None
    BY <1>1, <1>2, <1>4 DEF TypeInv, TypeOK
  <2>2. \A w \in Users, v \in Vers : <<w, v>> \in Copy
    BY DEF Copy
  <2> QED BY <1>1, <1>4, <2>1, <2>2 DEF RememberInv
<1> QED BY <1>1, <1>3, <1>4

LEMMA NextRemembers == ASSUME TypeInv, RememberInv, [Next]_vars PROVE RememberInv'
<1>1. CASE UNCHANGED <<hasLimiter, limiter, silent, limitedUsers>>
  BY <1>1 DEF RememberInv, NoUsers
<1>2. CASE Tick
  <2>1. UNCHANGED <<hasLimiter, limiter, silent>>
    BY <1>2 DEF Tick, pass
  <2>2. \A x \in Copy : limitedUsers[x] # None => limitedUsers'[x] # None
    BY <1>2, NoneAssumption DEF Tick, Minus, TypeInv, TypeOK
  <2> QED BY <2>1, <2>2, RememberStays DEF RememberInv
<1>3. CASE EndCollect
  <2>1. UNCHANGED <<hasLimiter, limitedUsers>> /\ silent' = {}
    BY <1>3 DEF EndCollect, auto
  <2>2. /\ \A u \in Users : limiter'[u] = AutoLimit => limiter[u] = AutoLimit \/ u \in silent
        /\ ~hasLimiter => limiter' = limiter
    BY <1>3 DEF EndCollect, UpdateLimiter, TypeInv, TypeOK
  <2> QED BY <2>1, <2>2, RememberStays DEF RememberInv
<1>4. CASE DeleteUsers
  <2>1. UNCHANGED <<hasLimiter, limitedUsers, silent>>
    BY <1>4 DEF DeleteUsers, SyncOnly, auto
  <2>2. \A u \in Users : limiter'[u] \in {None, limiter[u]}
    BY <1>4 DEF DeleteUsers
  <2>3. ~hasLimiter => limiter' = NoUsers
    BY <1>4 DEF DeleteUsers, RememberInv, NoUsers
  <2> QED BY <2>1, <2>2, <2>3, RememberStays, NoneAssumption
<1>5. CASE AddUsers
  <2>1. UNCHANGED <<hasLimiter, limitedUsers, silent>>
    BY <1>5 DEF AddUsers, SyncOnly, auto
  <2>2. /\ \A u \in Users : limiter'[u] = limiter[u] \/ limiter'[u] = newList[u]
        /\ ~hasLimiter => limiter' = limiter
    BY <1>5 DEF AddUsers, UpdateLimiter, TypeInv, TypeOK
  <2>3. \A u \in Users : newList[u] # AutoLimit
    BY NoneAssumption DEF TypeInv, TypeOK, UserList
  <2> QED BY <2>1, <2>2, <2>3, RememberStays DEF RememberInv
<1>6. CASE SwitchTag \/ AddInboundLimiter
  <2>1. UNCHANGED silent /\ (~hasLimiter' => limiter' = NoUsers) /\ limiter' \in {NoUsers, newList}
    BY <1>6 DEF SwitchTag, AddInboundLimiter, SyncOnly
  <2>2. \A u \in Users : newList[u] # AutoLimit /\ NoUsers[u] # AutoLimit
    BY NoneAssumption DEF TypeInv, TypeOK, UserList, NoUsers
  <2>3. \A u \in Users : limiter'[u] # AutoLimit
    BY <2>1, <2>2
  <2>4. UNCHANGED limitedUsers
    BY <1>6 DEF SwitchTag, AddInboundLimiter, SyncOnly, auto
  <2> QED BY <2>1, <2>3, <2>4 DEF RememberInv, NoUsers
<1>7. CASE Traffic \/ SetUserList \/ UNCHANGED vars
  BY <1>1, <1>7
  DEF Traffic, Dispatch, RegisterCounter, WriteMultiBuffer, Close, ConnOnly, SetUserList, SyncOnly,
      vars, limits, pass, auto
<1>8. CASE ReportAccepted \/ ReportRefused \/ AnswerLost \/ CleanupInactive \/ UnregisterIdle
             \/ \E u \in Users : ResetCounter(u)
  BY <1>1, <1>8
  DEF ReportAccepted, ReportRefused, AnswerLost, ReportOnly, CleanupInactive, UnregisterIdle,
      ResetCounter, limits, auto
<1> QED BY <1>2, <1>3, <1>4, <1>5, <1>6, <1>7, <1>8, StartPassRemembers, CollectRemembers
  DEF Next, Pass, Sync

\* The controller knows of every automatic limit in force (limitUser, and
\* UpdateInboundLimiter), so that a later pass can lift it.
THEOREM LimitsAreRemembered == Spec => []LimitIsRemembered
<1>1. Init => RememberInv
  BY NoneAssumption DEF Init, RememberInv, UserList
<1>2. TypeInv /\ RememberInv /\ [Next]_vars => RememberInv'
  BY NextRemembers
<1>3. RememberInv => LimitIsRemembered
  BY DEF RememberInv, LimitIsRemembered
<1> QED BY <1>1, <1>2, <1>3, CoreAlways, PTL DEF Spec
-----------------------------------------------------------------------------
(* Automatic limits come only after enough periods above the limit.        *)

LEMMA FreshStays ==
  ASSUME TypeInv, NEW n \in Names, Fresh(n), UNCHANGED since,
         \/ Value(n)' = Value(n) /\ Read(n)' = Read(n)
         \/ Value(n)' = 0 /\ Read(n)' = 0
  PROVE  Fresh(n)'
<1>1. n[2] \in Users
  BY NameParts
<1>2. since[n[2]] \in Nat
  BY <1>1 DEF TypeInv, TypeOK
<1> QED BY <1>2 DEF Fresh

\* A counter is added to, and the traffic of the period with it.
LEMMA TrafficFresh ==
  ASSUME TypeInv, Traffic, NEW n \in Names, Fresh(n)
  PROVE  Fresh(n)'
<1>1. PICK c \in Conns : Dispatch(c) \/ RegisterCounter(c) \/ WriteMultiBuffer(c) \/ Close(c)
  BY DEF Traffic
<1>2. UNCHANGED traffic
  BY <1>1 DEF Dispatch, RegisterCounter, WriteMultiBuffer, Close, ConnOnly, pass
<1>3. Read(n)' = Read(n)
  BY <1>2 DEF Read, Live, Reported, ReadFrom
<1>4. CASE Dispatch(c) \/ RegisterCounter(c) \/ Close(c)
  <2>1. UNCHANGED since
    BY <1>4 DEF Dispatch, RegisterCounter, Close, history
  <2>2. counter'[n] = counter[n] \/ (counter[n] = None /\ counter'[n] = 0)
    BY <1>4 DEF Dispatch, RegisterCounter, Close, TypeInv, TypeOK
  <2>3. Value(n)' = Value(n)
    BY <2>2, NoneAssumption DEF Value
  <2> QED BY <1>3, <2>1, <2>3, FreshStays
<1>5. CASE WriteMultiBuffer(c)
  <2>1. PICK k \in Names : k = <<conns[c].tag, conns[c].user>> /\ k[2] = conns[c].user
    BY <1>5 DEF WriteMultiBuffer, TypeInv, TypeOK, Conn, Names
  <2>2. /\ since' = [since EXCEPT ![k[2]] = IF since[k[2]] > Fast THEN since[k[2]] ELSE since[k[2]] + 1]
        /\ \/ counter[k] # None /\ counter' = [counter EXCEPT ![k] = counter[k] + 1]
           \/ UNCHANGED counter
    BY <1>5, <2>1 DEF WriteMultiBuffer, Exceeds, TypeInv, ConnsFit
  <2>3. /\ n[2] \in Users /\ k[2] \in Users /\ since[n[2]] \in Nat /\ since[k[2]] \in Nat
        /\ Value(n) \in Nat /\ Read(n) \in Nat /\ Fast \in Nat
    BY NameParts, ValueTypes, LimitAssumption DEF TypeInv, TypeOK
  <2>4. CASE n[2] # k[2]
    <3>1. since'[n[2]] = since[n[2]] /\ counter'[n] = counter[n]
      BY <2>2, <2>3, <2>4 DEF TypeInv, TypeOK
    <3> QED BY <1>3, <3>1 DEF Fresh, Value
  <2>5. CASE n[2] = k[2]
    <3>1. since'[n[2]] = IF since[n[2]] > Fast THEN since[n[2]] ELSE since[n[2]] + 1
      BY <2>2, <2>3, <2>5 DEF TypeInv, TypeOK
    <3>2. Value(n)' = Value(n) \/ Value(n)' = Value(n) + 1
      BY <2>2, NoneAssumption DEF TypeInv, TypeOK, Value
    <3> QED BY <1>3, <2>3, <3>1, <3>2 DEF Fresh
  <2> QED BY <2>4, <2>5
<1> QED BY <1>1, <1>4, <1>5

\* From the reading on, the period starts anew and the item is what is left.
LEMMA CollectFresh ==
  ASSUME TypeInv, NEW u \in Users, Collect(u), NEW n \in Names, n[1] = tag, Fresh(n)
  PROVE  Fresh(n)'
<1>1. /\ pc = "collect" /\ todo[u] \in Vers /\ <<tag, u>> \in Names
      /\ traffic' = [traffic EXCEPT ![u] =
           IF Value(<<tag, u>>) = 0 THEN None ELSE [n |-> Value(<<tag, u>>), tag |-> tag, live |-> TRUE]]
      /\ since' = [since EXCEPT ![u] = 0] /\ UNCHANGED counter
  BY CollectShape
<1>2. Value(n)' = Value(n) /\ Value(n) \in Nat /\ n[2] \in Users
  BY <1>1, ValueTypes, NameParts DEF Value
<1>3. CASE n[2] # u
  <2>1. traffic'[n[2]] = traffic[n[2]] /\ since'[n[2]] = since[n[2]]
    BY <1>1, <1>2, <1>3 DEF TypeInv, TypeOK
  <2>2. Read(n)' = Read(n)
    BY <2>1 DEF Read, Reported, Live, ReadFrom
  <2> QED BY <1>2, <2>1, <2>2 DEF Fresh
<1>4. CASE n[2] = u
  <2>1. n = <<tag, u>> /\ since'[n[2]] = 0
    BY <1>1, <1>4, NameParts DEF TypeInv, TypeOK
  <2>2. traffic'[u] = IF Value(n) = 0 THEN None ELSE [n |-> Value(n), tag |-> tag, live |-> TRUE]
    BY <1>1, <2>1 DEF TypeInv, TypeOK
  <2>3. Read(n)' = Value(n)
    <3>1. CASE Value(n) = 0
      BY <1>4, <2>2, <3>1 DEF Read, Reported, Live, ReadFrom
    <3>2. CASE Value(n) # 0
      <4>1. traffic'[n[2]] = [n |-> Value(n), tag |-> tag, live |-> TRUE] /\ traffic'[n[2]] \in Item
        BY <1>2, <1>4, <2>2, <3>2 DEF Item, TypeInv, TypeOK
      <4>2. PICK i \in Item : traffic'[n[2]] = i /\ i.n = Value(n) /\ i.tag = tag /\ i.live
        BY <4>1
      <4> QED BY <4>2, NoneRecordAssumption DEF Read, Live, Reported, ReadFrom
    <3> QED BY <3>1, <3>2
  <2> QED BY <1>2, <2>1, <2>3 DEF Fresh
<1> QED BY <1>3, <1>4

LEMMA ResetFresh ==
  ASSUME TypeInv, LedgerInv, NEW u \in Users, ResetCounter(u), NEW n \in Names, Fresh(n)
  PROVE  Fresh(n)'
<1>1. PICK k \in Names : k = <<traffic[u].tag, u>>
  BY ResetShape
<1>2. /\ traffic[u] \in Item /\ traffic' = [traffic EXCEPT ![u] = None]
      /\ traffic[u].live => counter' = [counter EXCEPT ![k] = 0]
      /\ ~traffic[u].live => UNCHANGED counter
      /\ UNCHANGED since
  BY <1>1, ResetShape
<1>3. CASE n[2] # u
  <2>1. traffic'[n[2]] = traffic[n[2]] /\ counter'[n] = counter[n]
    BY <1>1, <1>2, <1>3, NameParts DEF TypeInv, TypeOK
  <2>2. Read(n)' = Read(n) /\ Value(n)' = Value(n)
    BY <2>1 DEF Read, Reported, Live, ReadFrom, Value
  <2> QED BY <1>2, <2>2, FreshStays
<1>4. CASE n[2] = u
  <2>1. traffic'[n[2]] = None
    BY <1>2, <1>4 DEF TypeInv, TypeOK
  <2>2. Read(n)' = 0
    BY <2>1 DEF Read, Live, ReadFrom
  <2>3. CASE n = k /\ traffic[u].live
    <3>1. Value(n)' = 0
      BY <1>2, <2>3, NoneAssumption DEF TypeInv, TypeOK, Value
    <3> QED BY <1>2, <2>2, <3>1, FreshStays
  <2>4. CASE ~(n = k /\ traffic[u].live)
    <3>1. Value(n)' = Value(n)
      BY <1>2, <2>4 DEF TypeInv, TypeOK, Value
    <3>2. ~Live(n)
      BY <1>1, <1>4, <2>4, NameParts DEF Live, ReadFrom
    <3>3. Read(n) = 0
      BY <3>2 DEF Read
    <3> QED BY <1>2, <2>2, <3>1, <3>3, FreshStays
  <2> QED BY <2>3, <2>4
<1> QED BY <1>3, <1>4

LEMMA UnregisterFresh ==
  ASSUME TypeInv, NEW t \in Tags, NEW us \in SUBSET Users, Unregister(t, us), UNCHANGED since,
         NEW n \in Names, Fresh(n)
  PROVE  Fresh(n)'
<1>1. counter'[n] = IF n[1] = t /\ n[2] \in us THEN None ELSE counter[n]
  BY UnregisterKeeps
<1>2. /\ traffic'[n[2]] = None <=> traffic[n[2]] = None
      /\ traffic[n[2]] # None =>
           /\ traffic'[n[2]].n = traffic[n[2]].n /\ traffic'[n[2]].tag = traffic[n[2]].tag
           /\ traffic'[n[2]].live = (traffic[n[2]].live /\ ~(traffic[n[2]].tag = t /\ n[2] \in us))
  BY NameParts, UnregisterKeeps
<1>3. Reported(n)' = Reported(n)
  BY <1>2 DEF Reported, ReadFrom
<1>4. CASE n[1] = t /\ n[2] \in us
  <2>1. ~Live(n)'
    BY <1>2, <1>4 DEF Live, ReadFrom
  <2>2. Value(n)' = 0 /\ Read(n)' = 0
    BY <1>1, <1>4, <2>1 DEF Value, Read
  <2> QED BY <2>2, FreshStays
<1>5. CASE ~(n[1] = t /\ n[2] \in us)
  <2>1. Live(n)' = Live(n)
    BY <1>2, <1>5 DEF Live, ReadFrom
  <2>2. Value(n)' = Value(n) /\ Read(n)' = Read(n)
    BY <1>1, <1>3, <1>5, <2>1 DEF Value, Read
  <2> QED BY <2>2, FreshStays
<1> QED BY <1>4, <1>5

\* Traffic of an earlier period, once it may be in a counter, may stay there.
LEMMA LeftoverStays == ASSUME [Next]_vars, ~leftover' PROVE ~leftover
<1>1. CASE ReportAccepted \/ ReportRefused \/ AnswerLost
  BY <1>1 DEF ReportAccepted, ReportRefused, AnswerLost, TryFails
<1>2. CASE Sync
  BY <1>2 DEF Sync, DeleteUsers, AddUsers, SwitchTag, AddInboundLimiter, SetUserList, Keep
<1>3. CASE Traffic
  BY <1>3 DEF Traffic, Dispatch, RegisterCounter, WriteMultiBuffer, Close, history
<1>4. CASE StartPass \/ (\E u \in Users : Collect(u)) \/ EndCollect \/ CleanupInactive
             \/ UnregisterIdle \/ (\E u \in Users : ResetCounter(u))
  BY <1>4 DEF StartPass, Collect, EndCollect, CleanupInactive, UnregisterIdle, ResetCounter, history
<1>5. CASE Tick \/ UNCHANGED vars
  BY <1>5 DEF Tick, vars, history
<1> QED BY <1>1, <1>2, <1>3, <1>4, <1>5 DEF Next, Pass

LEMMA NextFresh == ASSUME TypeInv, LedgerInv, FreshInv, [Next]_vars PROVE FreshInv'
<1> SUFFICES ASSUME ~leftover', NEW n \in Names, n[1] = tag' PROVE Fresh(n)'
  BY DEF FreshInv
<1>1. n[1] = tag => Fresh(n)
  BY LeftoverStays DEF FreshInv
<1>2. CASE UNCHANGED <<tag, counter, traffic, since>>
  <2>1. Value(n)' = Value(n) /\ Read(n)' = Read(n)
    BY <1>2 DEF Value, Read, Live, Reported, ReadFrom
  <2> QED BY <1>1, <1>2, <2>1, FreshStays
<1>3. CASE Traffic
  <2>1. UNCHANGED tag
    BY <1>3 DEF Traffic, Dispatch, RegisterCounter, WriteMultiBuffer, Close, ConnOnly, ctl
  <2> QED BY <1>1, <1>3, <2>1, TrafficFresh
<1>4. CASE ReportAccepted \/ ReportRefused \/ AnswerLost
  <2>1. UNCHANGED <<tag, counter, since>>
    BY <1>4, ReportShape DEF ctl
  <2>2. UNCHANGED traffic
    BY <1>4 DEF ReportAccepted, ReportRefused, AnswerLost, TryFails
  <2> QED BY <1>2, <2>1, <2>2
<1>5. ASSUME NEW u \in Users, Collect(u) PROVE Fresh(n)'
  <2>1. UNCHANGED tag
    BY <1>5, CollectShape DEF ctl
  <2> QED BY <1>1, <1>5, <2>1, CollectFresh
<1>6. ASSUME NEW u \in Users, ResetCounter(u) PROVE Fresh(n)'
  <2>1. UNCHANGED tag
    BY <1>6, ResetShape DEF ctl
  <2> QED BY <1>1, <1>6, <2>1, ResetFresh
<1>7. CASE UnregisterIdle
  <2>1. PICK t \in Tags : Unregister(t, {m[2] : m \in idle})
    BY <1>7 DEF UnregisterIdle
  <2>2. {m[2] : m \in idle} \in SUBSET Users
    BY NameParts DEF TypeInv, TypeOK
  <2>3. UNCHANGED <<tag, since>>
    BY <1>7 DEF UnregisterIdle, PassOnly, ctl
  <2> QED BY <1>1, <2>1, <2>2, <2>3, UnregisterFresh
<1>8. CASE DeleteUsers
  <2>1. PICK us \in SUBSET Users : Unregister(tag, us)
    BY <1>8 DEF DeleteUsers
  <2>2. tag \in Tags /\ UNCHANGED <<tag, since>>
    BY <1>8 DEF DeleteUsers, SyncOnly, TypeInv, TypeOK
  <2> QED BY <1>1, <2>1, <2>2, UnregisterFresh
<1>9. CASE SwitchTag
  <2>1. UNCHANGED <<counter, traffic, since>> /\ n[2] \in Users
    BY <1>9, NameParts DEF SwitchTag, SyncOnly
  <2>2. CASE tag' = tag
    BY <1>2, <2>1, <2>2
  <2>3. CASE tag' # tag
    <3>1. n = <<tag', n[2]>>
      BY NameParts
    <3>2. ~(counter[n] # None /\ counter[n] > 0)
      BY <1>9, <2>1, <2>3, <3>1 DEF SwitchTag, Value
    <3>3. Value(n) = 0 /\ Read(n) \in Nat /\ since[n[2]] \in Nat
      BY <2>1, <3>2, ValueTypes DEF Value, TypeInv, TypeOK
    <3>4. Value(n)' = Value(n) /\ Read(n)' = Read(n)
      BY <2>1 DEF Value, Read, Live, Reported, ReadFrom
    <3> QED BY <2>1, <3>3, <3>4 DEF Fresh
  <2> QED BY <2>2, <2>3
<1>10. CASE Tick \/ StartPass \/ EndCollect \/ CleanupInactive \/ AddUsers \/ AddInboundLimiter
              \/ SetUserList \/ UNCHANGED vars
  <2>1. UNCHANGED <<tag, counter, traffic, since>>
    BY <1>10 DEF Tick, StartPass, EndCollect, CleanupInactive, AddUsers, AddInboundLimiter, SetUserList,
                 PassOnly, Keep, SyncOnly, vars, ctl, pass, history
  <2> QED BY <1>2, <2>1
<1> QED BY <1>3, <1>4, <1>5, <1>6, <1>7, <1>8, <1>9, <1>10 DEF Next, Pass, Sync

\* Whose counter was too high was too fast, and gets the warning he deserves.
LEMMA CollectIsFair ==
  ASSUME TypeInv, SpeedInv, ~leftover, NEW u \in Users, Collect(u)
  PROVE  /\ Exceeds(Value(<<tag, u>>)) => Exceeds(since[u])
         /\ warnedUsers[<<u, todo[u]>>] <= streak[u]
         /\ userList[u] \notin {None, todo[u]} => warnedUsers[<<u, userList[u]>>] = 0
<1>1. PICK n \in Names : n = <<tag, u>> /\ n[1] = tag /\ n[2] = u
  BY CollectShape, NameParts
<1>2. pc = "collect" /\ todo[u] # None /\ traffic[n[2]] = None
  BY <1>1 DEF Collect, At, TypeInv, PassFits
<1>3. Fresh(n) /\ Read(n) = 0 /\ Value(n) \in Nat /\ since[u] \in Nat
  BY <1>1, <1>2, NothingRead, ValueTypes DEF SpeedInv, FreshInv, TypeInv, TypeOK
<1>4. Exceeds(Value(n)) => Exceeds(since[u])
  BY <1>1, <1>3, LimitAssumption DEF Fresh, Exceeds
<1> QED BY <1>1, <1>2, <1>4 DEF SpeedInv, WarnedInv, Warned

LEMMA NextWarned == ASSUME TypeInv, SpeedInv, [Next]_vars PROVE WarnedInv'
<1> SUFFICES ASSUME ~leftover', NEW u \in Users PROVE Warned(u)'
  BY DEF WarnedInv
<1>1. Warned(u) /\ ~leftover
  BY LeftoverStays DEF SpeedInv, WarnedInv
<1>2. /\ userList[u] \in Vers \cup {None} /\ todo[u] \in Vers \cup {None}
      /\ newList[u] \in Vers \cup {None} /\ streak[u] \in 0..WarnTimes + 1
      /\ \A v \in Vers : <<u, v>> \in Copy /\ warnedUsers[<<u, v>>] \in 0..WarnTimes
  BY DEF TypeInv, TypeOK, UserList, Copy
<1>3. CASE UNCHANGED <<userList, todo, warnedUsers, streak>>
  BY <1>1, <1>3 DEF Warned
<1>4. CASE StartPass
  <2>1. todo' = userList /\ UNCHANGED <<userList, warnedUsers, streak>>
    BY <1>4 DEF StartPass, PassOnly, ctl, history
  <2> QED BY <1>1, <2>1 DEF Warned
<1>5. ASSUME NEW w \in Users, Collect(w) PROVE Warned(u)'
  <2> DEFINE x == <<w, todo[w]>>
             n == Value(<<tag, w>>)
  <2>1. /\ todo[w] \in Vers /\ x \in Copy /\ todo' = [todo EXCEPT ![w] = None]
        /\ warnedUsers' = [warnedUsers EXCEPT ![x] = Warnings(x, n)]
        /\ streak' = [streak EXCEPT ![w] =
             IF ~Exceeds(since[w]) THEN 0 ELSE IF streak[w] > WarnTimes THEN streak[w] ELSE streak[w] + 1]
        /\ UNCHANGED userList
    BY <1>5, CollectShape DEF ctl
  <2>2. CASE u # w
    <3>1. todo'[u] = todo[u] /\ streak'[u] = streak[u]
      BY <2>1, <2>2 DEF TypeInv, TypeOK, UserList
    <3>2. \A v \in Vers : <<u, v>> # x /\ warnedUsers'[<<u, v>>] = warnedUsers[<<u, v>>]
      BY <1>2, <2>1, <2>2 DEF TypeInv, TypeOK
    <3> QED BY <1>1, <1>2, <2>1, <3>1, <3>2 DEF Warned
  <2>3. CASE u = w
    <3>1. todo'[u] = None
      BY <2>1, <2>3 DEF TypeInv, TypeOK, UserList
    <3>2. /\ Exceeds(n) => Exceeds(since[u])
          /\ warnedUsers[x] <= streak[u] /\ warnedUsers[x] \in 0..WarnTimes
          /\ userList[u] \notin {None, todo[u]} => warnedUsers[<<u, userList[u]>>] = 0
      BY <1>1, <1>2, <1>5, <2>1, <2>3, CollectIsFair
    <3>3. streak'[u] = IF ~Exceeds(since[u]) THEN 0
                       ELSE IF streak[u] > WarnTimes THEN streak[u] ELSE streak[u] + 1
      BY <2>1, <2>3 DEF TypeInv, TypeOK
    <3>4. Warnings(x, n) <= streak'[u] /\ streak'[u] \in Nat
      BY <1>2, <3>2, <3>3, LimitAssumption DEF Warnings
    <3>5. userList[u] # None => warnedUsers'[<<u, userList[u]>>] <= streak'[u]
      <4>1. CASE userList[u] = todo[u]
        BY <2>1, <2>3, <3>4, <4>1 DEF TypeInv, TypeOK
      <4>2. CASE userList[u] \notin {None, todo[u]}
        <5>1. <<u, userList[u]>> # x /\ <<u, userList[u]>> \in Copy
          BY <1>2, <2>3, <4>2
        <5>2. warnedUsers'[<<u, userList[u]>>] = 0
          BY <2>1, <3>2, <4>2, <5>1 DEF TypeInv, TypeOK
        <5> QED BY <3>4, <5>2
      <4> QED BY <4>1, <4>2
    <3> QED BY <2>1, <3>1, <3>5 DEF Warned
  <2> QED BY <2>2, <2>3
<1>6. CASE SetUserList
  <2>1. /\ userList' = newList /\ UNCHANGED <<todo, warnedUsers, streak>>
        /\ newList[u] \notin {None, userList[u]} => ~(warnedUsers[<<u, newList[u]>>] > 0)
    BY <1>6 DEF SetUserList, SyncOnly, auto
  <2>2. newList[u] \notin {None, userList[u]} => warnedUsers[<<u, newList[u]>>] = 0
    BY <1>2, <2>1, LimitAssumption
  <2> QED BY <1>1, <1>2, <2>1, <2>2 DEF Warned
<1>7. CASE ReportAccepted \/ ReportRefused \/ AnswerLost
  BY <1>3, <1>7, ReportShape DEF ctl, auto
<1>8. CASE Tick \/ Traffic \/ EndCollect \/ CleanupInactive \/ UnregisterIdle
             \/ (\E w \in Users : ResetCounter(w)) \/ UNCHANGED vars
  <2>1. UNCHANGED <<userList, todo, warnedUsers, streak>>
    BY <1>8 DEF Tick, Traffic, Dispatch, RegisterCounter, WriteMultiBuffer, Close, ConnOnly, EndCollect,
                CleanupInactive, UnregisterIdle, ResetCounter, PassOnly, vars, ctl, pass, auto, history
  <2> QED BY <1>3, <2>1
<1>9. CASE DeleteUsers \/ AddUsers \/ SwitchTag \/ AddInboundLimiter
  <2>1. UNCHANGED <<userList, todo, warnedUsers, streak>>
    BY <1>9 DEF DeleteUsers, AddUsers, SwitchTag, AddInboundLimiter, SyncOnly, auto
  <2> QED BY <1>3, <2>1
<1> QED BY <1>4, <1>5, <1>6, <1>7, <1>8, <1>9 DEF Next, Pass, Sync

\* Of all steps, only collecting a user's traffic limits a copy.
LEMMA OnlyCollectLimits ==
  ASSUME TypeInv, LedgerInv, Next, NEW x \in Copy, limitedUsers[x] = None, limitedUsers'[x] # None
  PROVE  \E u \in Users : Collect(u)
<1>1. ~Tick /\ ~StartPass
  BY DEF Tick, StartPass, Minus, Over
<1>2. ~Traffic
  BY DEF Traffic, Dispatch, RegisterCounter, WriteMultiBuffer, Close, ConnOnly, auto
<1>3. ~Sync
  BY DEF Sync, DeleteUsers, AddUsers, SwitchTag, AddInboundLimiter, SetUserList, SyncOnly, auto
<1>4. ~(EndCollect \/ ReportAccepted \/ ReportRefused \/ AnswerLost \/ CleanupInactive \/ UnregisterIdle)
  BY DEF EndCollect, ReportAccepted, ReportRefused, AnswerLost, ReportOnly, CleanupInactive,
         UnregisterIdle, auto
<1>5. ~\E u \in Users : ResetCounter(u)
  BY DEF ResetCounter, auto
<1> QED BY <1>1, <1>2, <1>3, <1>4, <1>5 DEF Next, Pass

\* A user is limited only after more than WarnTimes periods in a row above the
\* limit (userInfoMonitor), unless a report failed, or a reload brought an
\* earlier tag back, or a list an earlier copy of a user.
THEOREM LimitsAreDeserved == Spec => LimitedIfFast
<1> DEFINE Limits == ~leftover => \A x \in Copy :
             limitedUsers[x] = None /\ limitedUsers'[x] # None => streak'[x[1]] > WarnTimes
<1>1. Init => SpeedInv
  <2> SUFFICES ASSUME Init PROVE SpeedInv
    OBVIOUS
  <2>1. ASSUME NEW n \in Names PROVE Fresh(n)
    <3>1. traffic[n[2]] = None /\ counter[n] = None /\ since[n[2]] = 0
      BY NameParts DEF Init, NoUsers, NoTime
    <3>2. Read(n) = 0 /\ Value(n) = 0
      BY <3>1, NothingRead DEF Value
    <3> QED BY <3>1, <3>2 DEF Fresh
  <2>2. ASSUME NEW u \in Users PROVE Warned(u)
    <3>1. /\ userList[u] # None => <<u, userList[u]>> \in Copy
          /\ todo[u] = None /\ streak[u] = 0
      BY DEF Init, UserList, Copy, NoUsers, NoTime
    <3> QED BY <3>1 DEF Init, Warned
  <2> QED BY <2>1, <2>2 DEF SpeedInv, FreshInv, WarnedInv
<1>2. TypeInv /\ LedgerInv /\ SpeedInv /\ [Next]_vars => SpeedInv'
  BY NextFresh, NextWarned DEF SpeedInv
<1>3. ASSUME TypeInv, LedgerInv, SpeedInv, [Next]_vars PROVE [Limits]_vars
  <2> SUFFICES ASSUME Next, ~leftover, NEW x \in Copy,
                      limitedUsers[x] = None, limitedUsers'[x] # None
               PROVE  streak'[x[1]] > WarnTimes
    BY <1>3
  <2>1. PICK u \in Users : Collect(u)
    BY <1>3, OnlyCollectLimits
  <2> DEFINE y == <<u, todo[u]>>
             n == Value(<<tag, u>>)
  <2>2. /\ y \in Copy
        /\ limitedUsers' = IF Punishes(y, n) THEN [limitedUsers EXCEPT ![y] = LimitDuration + 1]
                           ELSE limitedUsers
        /\ streak' = [streak EXCEPT ![u] =
             IF ~Exceeds(since[u]) THEN 0 ELSE IF streak[u] > WarnTimes THEN streak[u] ELSE streak[u] + 1]
    BY <1>3, <2>1, CollectShape
  <2>3. /\ Exceeds(n) => Exceeds(since[u])
        /\ warnedUsers[y] <= streak[u]
    BY <1>3, <2>1, CollectIsFair
  <2>4. warnedUsers[y] \in 0..WarnTimes /\ streak[u] \in 0..WarnTimes + 1
    BY <1>3, <2>2 DEF TypeInv, TypeOK
  <2>5. x = y /\ x[1] = u /\ Punishes(y, n)
    <3> HIDE DEF y
    <3>1. x = y /\ Punishes(y, n)
      BY <1>3, <2>2 DEF TypeInv, TypeOK
    <3> QED BY <3>1 DEF y
  <2>6. streak'[u] = IF ~Exceeds(since[u]) THEN 0
                     ELSE IF streak[u] > WarnTimes THEN streak[u] ELSE streak[u] + 1
    BY <1>3, <2>2 DEF TypeInv, TypeOK
  <2> QED BY <2>3, <2>4, <2>5, <2>6, LimitAssumption DEF Punishes
<1>4. Spec => [](TypeInv /\ LedgerInv /\ SpeedInv)
  BY <1>1, <1>2, CoreAlways, PTL DEF Spec
<1> QED BY <1>3, <1>4, CoreAlways, PTL DEF Spec, LimitedIfFast, Limits
=============================================================================
