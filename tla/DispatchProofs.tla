--------------------------- MODULE DispatchProofs ---------------------------
(***************************************************************************)
(* Proofs about the dispatcher and the rule manager: payload keeps its     *)
(* order, no link is left open, the rules are enforced and no recorded hit *)
(* is forgotten.                                                           *)
(***************************************************************************)
EXTENDS Dispatch, SequenceTheorems, TLAPS

\* What a connection's locals hold at each of its steps.
LocalsFit(c) ==
  /\ at[c] \in {"sniff", "record", "add", "store", "route"} => conn[c] \in ConnInfo
  /\ at[c] \in {"record", "add", "store"} => hit[c] \in Pair
  /\ at[c] \in {"add", "store"} => conn[c].set # None
  /\ at[c] \in {"new", "sniff", "record"} => c \notin due

\* What userInfoMonitor holds between its steps.
MonitorFits ==
  /\ taken # None <=> mpc = "iterate"
  /\ mpc # "send" => batch = {} /\ held = {}

ControlInv == MonitorFits /\ \A c \in Conns : LocalsFit(c) /\ (c \in due => hit[c] \in Pair)

\* A set exists once the connection it is named after has recorded its hit.
Made(step, o) == step[o] \notin {"new", "sniff", "record"}
SetsInv ==
  /\ \A c \in Conns : ~Made(at, c) => elems[c] = {}
  /\ \A t \in Tags : current[t] # None => Made(at, current[t])
  /\ taken # None => Made(at, taken)
  /\ \A c \in Conns : at[c] \in {"add", "store"} => Made(at, conn[c].set)

\* Sets that will be taken, or are being read.
Alive(o) ==
  /\ o # None
  /\ \/ \E t \in Tags : current[t] = o
     \/ taken = o
     \/ \E c \in Conns : at[c] = "store" /\ conn[c].set = o
Waits(c) == at[c] = "add" /\ hit[c] \notin elems[conn[c].set]
Kept(c) == Waits(c) \/ c \in held \/ \E o \in Objects : Alive(o) /\ hit[c] \in elems[o]
HitInv == \A c \in due : Kept(c)

\* The rules see the destination that is dialled, unless only the router's is another.
Follows(i) == i.route = None => i.target = i.dest

TypeInv == TypeOK /\ ControlInv
-----------------------------------------------------------------------------
(* What sniffing and the hosts table leave of a connection's locals.       *)

\* The fields that do not follow the destination.
SameConn(i, j) == i.user = j.user /\ i.tag = j.tag /\ i.set = j.set /\ i.spare = j.spare

LEMMA SniffedKeeps ==
  ASSUME NEW i \in ConnInfo, NEW s \in Sniffed(i)
  PROVE  s \in ConnInfo /\ SameConn(s, i) /\ (Follows(i) => Follows(s))
<1>1. CASE s = i
  BY <1>1 DEF SameConn
<1>2. CASE s # i
  <2>1. PICK r \in FakeDNS \cup Content : s \in Override(i, r)
    BY <1>2 DEF Sniffed
  <2>2. r.domain \in Dests
    BY DEF FakeDNS, Content
  <2>3. \/ s = [i EXCEPT !.dest = r.domain, !.target = r.domain]
        \/ s = [i EXCEPT !.dest = r.domain, !.route = r.domain]
    BY <2>1 DEF Override
  <2> QED BY <2>2, <2>3, DispatchAssumption DEF ConnInfo, SameConn, Follows
<1> QED BY <1>1, <1>2

LEMMA MappedKeeps ==
  ASSUME NEW i \in ConnInfo, NEW s \in Mapped(i)
  PROVE  s \in ConnInfo /\ SameConn(s, i) /\ (Follows(i) => Follows(s))
<1>1. CASE s = i
  BY <1>1 DEF SameConn
<1>2. CASE s # i
  <2>1. \E d \in Dests : \/ s = [i EXCEPT !.dest = d, !.route = d]
                         \/ s = [i EXCEPT !.dest = d, !.target = d]
    BY <1>2 DEF Mapped
  <2> QED BY <2>1, DispatchAssumption DEF ConnInfo, SameConn, Follows
<1> QED BY <1>1, <1>2

LEMMA DestinationKeeps ==
  ASSUME NEW c \in Conns, conn[c] \in ConnInfo, NEW s \in Sniffed(conn[c]), NEW i \in Mapped(s)
  PROVE  i \in ConnInfo /\ SameConn(i, conn[c]) /\ (Follows(conn[c]) => Follows(i))
BY SniffedKeeps, MappedKeeps DEF SameConn
-----------------------------------------------------------------------------
(* Types and control state.                                                *)

LEMMA InitTypes == ASSUME Init PROVE TypeInv
<1>1. rules \in [Tags -> SUBSET Rule]
  BY DispatchAssumption DEF Init
<1>2. <<>> \in Seq(Nat)
  OBVIOUS
<1>3. TypeOK
  BY <1>1, <1>2 DEF Init, TypeOK, Steps
<1>4. ControlInv
  BY DEF Init, ControlInv, MonitorFits, LocalsFit
<1> QED BY <1>3, <1>4 DEF TypeInv

\* What a goroutine's return does to its own state.
LEMMA ReturnFits ==
  ASSUME TypeInv, NEW c \in Conns, Serving(c) \/ Terminate(c)
  PROVE  /\ at' \in [Conns -> Steps] /\ conn' \in [Conns -> ConnInfo \cup {None}]
         /\ ended' \in [Conns -> SUBSET {"up", "down"}]
         /\ at'[c] \in {"served", "closed"}
         /\ \A d \in Conns \ {c} : at'[d] = at[d] /\ conn'[d] = conn[d]
<1>1. PICK l \in {"served", "closed"} : at' = [at EXCEPT ![c] = l]
  BY DEF Serving, Terminate, Goto
<1>2. conn' = [conn EXCEPT ![c] = None] /\ ended' \in {ended, [ended EXCEPT ![c] = {"up", "down"}]}
  BY DEF Serving, Terminate
<1>3. ended' \in [Conns -> SUBSET {"up", "down"}]
  BY <1>2 DEF TypeInv, TypeOK
<1> QED BY <1>1, <1>2, <1>3 DEF TypeInv, TypeOK, Steps

LEMMA DispatchStepTypes ==
  ASSUME TypeInv, NEW c \in Conns, Dispatch(c)
  PROVE  TypeInv'
<1>1. UNCHANGED <<core, rules, results, monitor, stream, history, budgets>>
  BY DEF Dispatch, Own, budgets
<1>2. /\ at' \in [Conns -> Steps] /\ conn' \in [Conns -> ConnInfo \cup {None}]
      /\ ended' \in [Conns -> SUBSET {"up", "down"}]
      /\ at'[c] \in {"sniff", "served", "closed"} /\ (at'[c] = "sniff" => conn'[c] \in ConnInfo)
      /\ \A d \in Conns \ {c} : at'[d] = at[d] /\ conn'[d] = conn[d]
  <2>1. CASE Terminate(c)
    BY <2>1, ReturnFits
  <2>2. CASE ~Terminate(c)
    <3>1. PICK u \in Users \cup {NoUser}, d \in Dests :
            /\ conn' = [conn EXCEPT ![c] =
                 [user |-> u, tag |-> tag, target |-> d, route |-> None, dest |-> d,
                  set |-> None, spare |-> Allowed(rules[tag])]]
            /\ Goto(c, "sniff") /\ UNCHANGED ended
      BY <2>2 DEF Dispatch
    <3>2. [user |-> u, tag |-> tag, target |-> d, route |-> None, dest |-> d,
           set |-> None, spare |-> Allowed(rules[tag])] \in ConnInfo
      BY DEF TypeInv, TypeOK, ConnInfo, Allowed
    <3> QED BY <3>1, <3>2 DEF TypeInv, TypeOK, Goto, Steps
  <2> QED BY <2>1, <2>2
<1>3. TypeOK'
  BY <1>1, <1>2 DEF TypeInv, TypeOK, core, results, monitor, stream, history, budgets
<1>4. ControlInv'
  BY <1>1, <1>2
  DEF TypeInv, Dispatch, ControlInv, MonitorFits, LocalsFit, monitor, history
<1> QED BY <1>3, <1>4 DEF TypeInv

LEMMA PayloadTypes ==
  ASSUME TypeInv, NEW c \in Conns, Payload(c)
  PROVE  TypeInv'
<1>1. UNCHANGED <<core, rules, results, monitor, at, conn, ended, history, budgets>>
  BY DEF Payload, ClientWrite, Cache, ReadMultiBuffer, PayloadOnly, Own, budgets
<1>2. /\ pipe[c] \in Seq(Nat) /\ cache[c] \in Seq(Nat) /\ got[c] \in Seq(Nat)
      /\ <<>> \in Seq(Nat) /\ sent[c] + 1 \in Nat
  BY DEF TypeInv, TypeOK
<1>3. /\ pipe[c] \o <<>> \in Seq(Nat) /\ cache[c] \o pipe[c] \in Seq(Nat)
      /\ got[c] \o pipe[c] \in Seq(Nat) /\ got[c] \o cache[c] \in Seq(Nat)
      /\ Append(pipe[c], sent[c] + 1) \in Seq(Nat)
  BY <1>2, ConcatProperties, AppendProperties
<1>4. /\ pipe' \in [Conns -> Seq(Nat)] /\ cache' \in [Conns -> Seq(Nat)]
      /\ got' \in [Conns -> Seq(Nat)] /\ sent' \in [Conns -> Nat]
  <2>1. CASE ClientWrite(c)
    <3>1. /\ sent' = [sent EXCEPT ![c] = sent[c] + 1]
          /\ pipe' = [pipe EXCEPT ![c] = Append(pipe[c], sent'[c])] /\ UNCHANGED <<cache, got>>
      BY <2>1 DEF ClientWrite
    <3>2. sent' \in [Conns -> Nat] /\ sent'[c] = sent[c] + 1
      BY <1>2, <3>1 DEF TypeInv, TypeOK
    <3>3. pipe' \in [Conns -> Seq(Nat)]
      BY <1>3, <3>1, <3>2 DEF TypeInv, TypeOK
    <3> QED BY <3>1, <3>2, <3>3 DEF TypeInv, TypeOK
  <2>2. CASE Cache(c)
    <3>1. /\ cache' = [cache EXCEPT ![c] = cache[c] \o pipe[c]]
          /\ pipe' = [pipe EXCEPT ![c] = <<>>] /\ UNCHANGED <<got, sent>>
      BY <2>2 DEF Cache
    <3>2. cache' \in [Conns -> Seq(Nat)]
      BY <1>3, <3>1 DEF TypeInv, TypeOK
    <3>3. pipe' \in [Conns -> Seq(Nat)]
      BY <3>1 DEF TypeInv, TypeOK
    <3> QED BY <3>1, <3>2, <3>3 DEF TypeInv, TypeOK
  <2>3. CASE ReadMultiBuffer(c)
    <3>1. UNCHANGED sent
      BY <2>3 DEF ReadMultiBuffer, Read
    <3>2. CASE /\ got' = [got EXCEPT ![c] = got[c] \o cache[c]]
               /\ cache' = [cache EXCEPT ![c] = <<>>] /\ UNCHANGED pipe
      <4>1. got' \in [Conns -> Seq(Nat)]
        BY <1>3, <3>2 DEF TypeInv, TypeOK
      <4>2. cache' \in [Conns -> Seq(Nat)]
        BY <3>2 DEF TypeInv, TypeOK
      <4> QED BY <3>1, <3>2, <4>1, <4>2 DEF TypeInv, TypeOK
    <3>3. CASE /\ got' = [got EXCEPT ![c] = got[c] \o pipe[c]]
               /\ pipe' = [pipe EXCEPT ![c] = <<>>] /\ UNCHANGED cache
      <4>1. got' \in [Conns -> Seq(Nat)]
        BY <1>3, <3>3 DEF TypeInv, TypeOK
      <4>2. pipe' \in [Conns -> Seq(Nat)]
        BY <3>3 DEF TypeInv, TypeOK
      <4> QED BY <3>1, <3>3, <4>1, <4>2 DEF TypeInv, TypeOK
    <3> QED BY <2>3, <3>2, <3>3 DEF ReadMultiBuffer, Read
  <2> QED BY <2>1, <2>2, <2>3 DEF Payload
<1>5. TypeOK'
  BY <1>1, <1>4 DEF TypeInv, TypeOK, core, results, monitor, history, budgets
<1>6. ControlInv'
  BY <1>1 DEF TypeInv, ControlInv, MonitorFits, LocalsFit, monitor, history
<1> QED BY <1>5, <1>6 DEF TypeInv

LEMMA DetectTypes ==
  ASSUME TypeInv, NEW c \in Conns, Detect(c)
  PROVE  TypeInv'
<1>1. at[c] = "sniff" /\ conn[c] \in ConnInfo /\ c \notin due
  BY DEF TypeInv, ControlInv, LocalsFit, Detect
<1>2. UNCHANGED <<core, rules, results, monitor, stream, due, reloads, updates, faults>>
  BY DEF Detect, Own
<1>3. detours' \in Nat
  BY DEF Detect, TypeInv, TypeOK
<1>4. PICK s \in Sniffed(conn[c]) : \E i \in Mapped(s) :
        \/ /\ Goto(c, "route") /\ conn' = [conn EXCEPT ![c] = i] /\ UNCHANGED <<ended, hit>>
        \/ /\ i.user # NoUser
           /\ \E r \in Matches(i) :
                IF ~Records(r) THEN Terminate(c) /\ UNCHANGED hit
                ELSE /\ Goto(c, "record") /\ conn' = [conn EXCEPT ![c] = i]
                     /\ hit' = [hit EXCEPT ![c] = <<i.user, r.id>>] /\ UNCHANGED ended
  BY DEF Detect
<1>5. PICK i \in Mapped(s) :
        \/ /\ Goto(c, "route") /\ conn' = [conn EXCEPT ![c] = i] /\ UNCHANGED <<ended, hit>>
        \/ /\ i.user # NoUser
           /\ \E r \in Matches(i) :
                IF ~Records(r) THEN Terminate(c) /\ UNCHANGED hit
                ELSE /\ Goto(c, "record") /\ conn' = [conn EXCEPT ![c] = i]
                     /\ hit' = [hit EXCEPT ![c] = <<i.user, r.id>>] /\ UNCHANGED ended
  BY <1>4
<1>6. i \in ConnInfo
  BY <1>1, DestinationKeeps
<1> DEFINE Fits ==
              /\ at' \in [Conns -> Steps] /\ conn' \in [Conns -> ConnInfo \cup {None}]
              /\ ended' \in [Conns -> SUBSET {"up", "down"}] /\ hit' \in [Conns -> Pair \cup {None}]
              /\ at'[c] \in {"route", "record", "served", "closed"}
              /\ at'[c] \in {"route", "record"} => conn'[c] \in ConnInfo
              /\ at'[c] = "record" => hit'[c] \in Pair
              /\ \A d \in Conns \ {c} : at'[d] = at[d] /\ conn'[d] = conn[d] /\ hit'[d] = hit[d]
<1>7. Fits
  <2>1. CASE Goto(c, "route") /\ conn' = [conn EXCEPT ![c] = i] /\ UNCHANGED <<ended, hit>>
    BY <1>6, <2>1 DEF TypeInv, TypeOK, Goto, Steps
  <2>2. CASE Terminate(c) /\ UNCHANGED hit
    BY <2>2, ReturnFits DEF TypeInv, TypeOK
  <2>3. ASSUME i.user # NoUser, NEW r \in Matches(i), Records(r), Goto(c, "record"),
               conn' = [conn EXCEPT ![c] = i], hit' = [hit EXCEPT ![c] = <<i.user, r.id>>],
               UNCHANGED ended
        PROVE  Fits
    <3>1. r \in Rule
      BY <1>6 DEF Matches, TypeInv, TypeOK, ConnInfo
    <3>2. <<i.user, r.id>> \in Pair
      BY <1>6, <2>3, <3>1 DEF Pair, Rule, Records, ConnInfo
    <3> QED BY <1>6, <2>3, <3>2 DEF TypeInv, TypeOK, Goto, Steps
  <2> QED BY <1>5, <2>1, <2>2, <2>3
<1>8. TypeOK'
  BY <1>2, <1>3, <1>7 DEF TypeInv, TypeOK, core, results, monitor, stream
<1>9. ControlInv'
  BY <1>1, <1>2, <1>7 DEF TypeInv, ControlInv, MonitorFits, LocalsFit, monitor
<1> QED BY <1>8, <1>9 DEF TypeInv

\* Recording a hit: the sets change, and what is due.
LEMMA RecordTypes ==
  ASSUME TypeInv, NEW c \in Conns, Record(c) \/ Add(c) \/ Store(c)
  PROVE  TypeInv'
<1>1. /\ UNCHANGED <<core, rules, stream, monitor, hit, budgets>>
      /\ at[c] \in {"record", "add", "store"} /\ conn[c] \in ConnInfo /\ hit[c] \in Pair
  BY DEF Record, Add, Store, RecordOnly, TypeInv, TypeOK, ControlInv, LocalsFit
<1>2. conn[c].tag \in Tags /\ (at[c] \in {"add", "store"} => conn[c].set \in Objects)
  BY <1>1 DEF TypeInv, ControlInv, LocalsFit, ConnInfo
<1>3. /\ at' \in [Conns -> Steps] /\ conn' \in [Conns -> ConnInfo \cup {None}]
      /\ ended' \in [Conns -> SUBSET {"up", "down"}]
      /\ at'[c] \in {"add", "store", "served", "closed"}
      /\ at'[c] \in {"add", "store"} => conn'[c] \in ConnInfo /\ conn'[c].set # None
      /\ \A d \in Conns \ {c} : at'[d] = at[d] /\ conn'[d] = conn[d]
  <2>1. CASE Terminate(c)
    BY <2>1, ReturnFits
  <2>2. CASE ~Terminate(c)
    <3>1. CASE Record(c)
      <4>1. /\ conn' = [conn EXCEPT ![c].set = current[conn[c].tag]] /\ Goto(c, "add")
            /\ UNCHANGED ended /\ current[conn[c].tag] # None
        BY <2>2, <3>1 DEF Record
      <4>2. current[conn[c].tag] \in Objects
        BY <1>2, <4>1 DEF TypeInv, TypeOK
      <4> QED BY <1>1, <4>1, <4>2 DEF TypeInv, TypeOK, Goto, Steps, ConnInfo
    <3>2. CASE Add(c)
      <4>1. Goto(c, "store") /\ UNCHANGED <<conn, ended>> /\ conn[c].set # None
        BY <2>2, <3>2 DEF Add, TypeInv, ControlInv, LocalsFit
      <4> QED BY <1>1, <4>1 DEF TypeInv, TypeOK, Goto, Steps
    <3> QED BY <2>2, <3>1, <3>2 DEF Store
  <2> QED BY <2>1, <2>2
<1>4. /\ current' \in [Tags -> Objects \cup {None}] /\ elems' \in [Objects -> SUBSET Pair]
      /\ due' \subseteq due \cup {c}
  <2>1. CASE Record(c)
    <3>1. CASE current[conn[c].tag] = None
      <4>1. /\ current' = [current EXCEPT ![conn[c].tag] = c]
            /\ elems' = [elems EXCEPT ![c] = {hit[c]}] /\ due' = due \cup {c}
        BY <2>1, <3>1 DEF Record
      <4> QED BY <1>1, <1>2, <4>1 DEF TypeInv, TypeOK, Objects
    <3>2. CASE current[conn[c].tag] # None
      BY <2>1, <3>2 DEF Record, TypeInv, TypeOK
    <3> QED BY <3>1, <3>2
  <2>2. CASE Add(c)
    BY <1>1, <1>2, <2>2 DEF Add, TypeInv, TypeOK
  <2>3. CASE Store(c)
    BY <1>1, <1>2, <2>3 DEF Store, TypeInv, TypeOK
  <2> QED BY <2>1, <2>2, <2>3
<1>5. TypeOK'
  BY <1>1, <1>3, <1>4 DEF TypeInv, TypeOK, core, stream, monitor, budgets
<1>6. ControlInv'
  <2>2. MonitorFits'
    BY <1>1 DEF TypeInv, ControlInv, MonitorFits, monitor
  <2>3. \A d \in Conns : LocalsFit(d)' /\ (d \in due' => hit'[d] \in Pair)
    BY <1>1, <1>3, <1>4 DEF TypeInv, ControlInv, LocalsFit
  <2> QED BY <2>2, <2>3 DEF ControlInv
<1> QED BY <1>5, <1>6 DEF TypeInv

LEMMA RouteTypes ==
  ASSUME TypeInv, NEW c \in Conns, Route(c)
  PROVE  TypeInv'
<1>1. UNCHANGED <<core, rules, results, monitor, stream, history, budgets>>
  BY DEF Route, RouteOnly, Own, budgets
<1>2. Serving(c) \/ Terminate(c)
  BY DEF Route
<1>3. TypeOK'
  BY <1>1, <1>2, ReturnFits DEF TypeInv, TypeOK, core, results, monitor, stream, history, budgets
<1>4. ControlInv'
  BY <1>1, <1>2, ReturnFits DEF TypeInv, ControlInv, MonitorFits, LocalsFit, monitor, history
<1> QED BY <1>3, <1>4 DEF TypeInv

LEMMA ReportTypes ==
  ASSUME TypeInv, Report
  PROVE  TypeInv'
<1>1. UNCHANGED <<core, rules, at, conn, stream, ended, hit, detours, reloads, updates, elems>>
  BY DEF Report, Take, Iterate, ReportAll, ReportEach, ReportFails, MonitorOnly, results
<1>2. /\ current' \in [Tags -> Objects \cup {None}] /\ due' \subseteq due
      /\ mpc' \in {"idle", "iterate", "send"} /\ taken' \in Objects \cup {None}
      /\ batch' \subseteq Pair /\ held' \subseteq Conns /\ faults' \in Nat /\ MonitorFits'
  <2>1. CASE Take
    BY <2>1 DEF Take, TypeInv, TypeOK, ControlInv, MonitorFits
  <2>2. CASE Iterate
    BY <2>2 DEF Iterate, TypeInv, TypeOK, ControlInv, MonitorFits, results
  <2>3. CASE ReportAll \/ ReportFails
    BY <2>3 DEF ReportAll, ReportFails, Finish, TypeInv, TypeOK, ControlInv, MonitorFits, results
  <2>4. CASE ReportEach
    BY <2>4 DEF ReportEach, Delivered, Finish, TypeInv, TypeOK, ControlInv, MonitorFits, results
  <2> QED BY <2>1, <2>2, <2>3, <2>4 DEF Report
<1>3. TypeOK'
  BY <1>1, <1>2 DEF TypeInv, TypeOK, core, stream
<1>4. ControlInv'
  BY <1>1, <1>2 DEF TypeInv, ControlInv, LocalsFit
<1> QED BY <1>3, <1>4 DEF TypeInv

\* A connection of the tag whose rules are replaced is told what they allow.
LEMMA UpdateRuleKeeps ==
  ASSUME TypeInv, UpdateRule, NEW c \in Conns
  PROVE  /\ conn'[c] = None <=> conn[c] = None
         /\ conn[c] # None =>
              /\ conn'[c] \in ConnInfo
              /\ conn'[c] = [conn[c] EXCEPT !.spare = conn'[c].spare]
              /\ conn[c].spare \subseteq conn'[c].spare
              /\ conn[c].tag = tag => Allowed(rules'[tag]) \subseteq conn'[c].spare
<1>1. conn'[c] = IF conn[c] # None /\ conn[c].tag = tag
                   THEN [conn[c] EXCEPT !.spare = conn[c].spare \cup Allowed(rules'[tag])]
                   ELSE conn[c]
  BY DEF UpdateRule
<1>2. CASE conn[c] = None
  BY <1>1, <1>2
<1>3. CASE conn[c] # None
  <2>1. conn[c] \in ConnInfo /\ Allowed(rules'[tag]) \subseteq Dests
    BY <1>3 DEF TypeInv, TypeOK, Allowed
  <2>2. conn'[c] \in ConnInfo
    BY <1>1, <1>3, <2>1 DEF ConnInfo
  <2>3. /\ conn'[c] = [conn[c] EXCEPT !.spare = conn'[c].spare]
        /\ conn[c].spare \subseteq conn'[c].spare
        /\ conn[c].tag = tag => Allowed(rules'[tag]) \subseteq conn'[c].spare
    BY <1>1, <1>3, <2>1 DEF ConnInfo
  <2> QED BY <1>3, <2>2, <2>3, NoneAssumption
<1> QED BY <1>2, <1>3

LEMMA NodeTypes ==
  ASSUME TypeInv, Node
  PROVE  TypeInv'
<1>1. UNCHANGED <<client, results, at, stream, ended, monitor, history, detours, faults>>
  BY DEF Node, UpdateRule, RemoveOutbound, AddOutbound, NodeOnly
<1>2. /\ tag' \in Tags /\ outbounds' \subseteq Tags /\ default' \in Tags \cup {"config", None}
      /\ rules' \in [Tags -> SUBSET Rule] /\ reloads' \in Nat /\ updates' \in Nat
      /\ conn' \in [Conns -> ConnInfo \cup {None}]
      /\ \A c \in Conns : conn[c] \in ConnInfo =>
           conn'[c] \in ConnInfo /\ conn'[c].set = conn[c].set
  <2>1. CASE UpdateRule
    <3>1. rules' \in [Tags -> SUBSET Rule]
      BY <2>1, DispatchAssumption DEF UpdateRule, TypeInv, TypeOK
    <3>2. \A c \in Conns : /\ conn'[c] \in ConnInfo \cup {None}
                           /\ conn[c] \in ConnInfo =>
                                conn'[c] \in ConnInfo /\ conn'[c].set = conn[c].set
      BY <2>1, UpdateRuleKeeps, NoneAssumption DEF ConnInfo
    <3>3. conn' \in [Conns -> ConnInfo \cup {None}]
      BY <2>1, <3>2 DEF UpdateRule
    <3>4. UNCHANGED <<tag, outbounds, default, reloads>> /\ updates' = updates + 1
      BY <2>1 DEF UpdateRule
    <3> QED BY <3>1, <3>2, <3>3, <3>4 DEF TypeInv, TypeOK
  <2>2. CASE RemoveOutbound \/ AddOutbound
    BY <2>2 DEF RemoveOutbound, AddOutbound, TypeInv, TypeOK
  <2> QED BY <2>1, <2>2 DEF Node
<1>3. TypeOK'
  BY <1>1, <1>2 DEF TypeInv, TypeOK, results, stream, monitor, history
<1>4. ControlInv'
  BY <1>1, <1>2 DEF TypeInv, ControlInv, MonitorFits, LocalsFit, monitor, history
<1> QED BY <1>3, <1>4 DEF TypeInv

LEMMA NextTypes == ASSUME TypeInv, [Next]_vars PROVE TypeInv'
<1>1. CASE UNCHANGED vars
  <2>1. UNCHANGED <<core, rules, results, at, conn, stream, ended, monitor, history, budgets>>
    BY <1>1 DEF vars
  <2>2. TypeOK'
    BY <2>1 DEF TypeInv, TypeOK, core, results, stream, monitor, history, budgets
  <2>3. ControlInv'
    BY <2>1 DEF TypeInv, ControlInv, MonitorFits, LocalsFit, monitor, history
  <2> QED BY <2>2, <2>3 DEF TypeInv
<1>2. ASSUME NEW c \in Conns, Serve(c) PROVE TypeInv'
  BY <1>2, DispatchStepTypes, DetectTypes, RecordTypes, RouteTypes DEF Serve
<1> QED BY <1>1, <1>2, PayloadTypes, ReportTypes, NodeTypes DEF Next

LEMMA TypesAlways == Spec => []TypeInv
<1>1. Init => TypeInv
  BY InitTypes
<1>2. TypeInv /\ [Next]_vars => TypeInv'
  BY NextTypes
<1> QED BY <1>1, <1>2, PTL DEF Spec
-----------------------------------------------------------------------------
(* The payload.                                                            *)

Sent(n) == [i \in 1..n |-> i]

LEMMA SentAppend == ASSUME NEW n \in Nat PROVE Append(Sent(n), n + 1) = Sent(n + 1)
<1>1. Sent(n) \in Seq(Nat) /\ Len(Sent(n)) = n /\ Sent(n + 1) \in Seq(Nat) /\ Len(Sent(n + 1)) = n + 1
  BY DEF Sent
<1>2. /\ Append(Sent(n), n + 1) \in Seq(Nat) /\ Len(Append(Sent(n), n + 1)) = n + 1
      /\ \A i \in 1..n : Append(Sent(n), n + 1)[i] = Sent(n)[i]
      /\ Append(Sent(n), n + 1)[n + 1] = n + 1
  BY <1>1, AppendProperties
<1>3. \A i \in 1..n : Sent(n)[i] = i
  BY DEF Sent
<1>4. \A i \in 1..(n + 1) : Sent(n + 1)[i] = i
  BY DEF Sent
<1>5. \A i \in 1..(n + 1) : Append(Sent(n), n + 1)[i] = Sent(n + 1)[i]
  BY <1>2, <1>3, <1>4
<1> QED BY <1>1, <1>2, <1>5, SeqEqual

\* Reading moves the boundary between what is read and what is not.
LEMMA MoveChunks ==
  ASSUME NEW r \in Seq(Nat), NEW s \in Seq(Nat), NEW t \in Seq(Nat)
  PROVE  /\ r \o (s \o t) \o <<>> = r \o s \o t
         /\ (r \o s) \o <<>> \o t = r \o s \o t
         /\ s = <<>> => (r \o t) \o s \o <<>> = r \o s \o t
         /\ \A n \in Nat : r \o s \o Append(t, n) = Append(r \o s \o t, n)
<1>1. /\ <<>> \in Seq(Nat) /\ s \o t \in Seq(Nat) /\ r \o s \in Seq(Nat) /\ r \o t \in Seq(Nat)
      /\ r \o s \o t \in Seq(Nat)
  BY ConcatProperties
<1>2. r \o (s \o t) \o <<>> = r \o s \o t
  <2>1. r \o (s \o t) = r \o s \o t
    BY ConcatAssociative
  <2> QED BY <1>1, <2>1, ConcatEmptySeq
<1>3. (r \o s) \o <<>> \o t = r \o s \o t
  BY <1>1, ConcatEmptySeq
<1>4. s = <<>> => (r \o t) \o s \o <<>> = r \o s \o t
  BY <1>1, ConcatEmptySeq
<1>5. ASSUME NEW n \in Nat PROVE r \o s \o Append(t, n) = Append(r \o s \o t, n)
  <2>1. <<n>> \in Seq(Nat)
    OBVIOUS
  <2>2. Append(t, n) = t \o <<n>> /\ Append(r \o s \o t, n) = (r \o s \o t) \o <<n>>
    BY <1>1, AppendIsConcat
  <2>3. (r \o s) \o (t \o <<n>>) = (r \o s \o t) \o <<n>>
    BY <1>1, <2>1, ConcatAssociative
  <2> QED BY <2>2, <2>3
<1> QED BY <1>2, <1>3, <1>4, <1>5

LEMMA PayloadStep ==
  ASSUME TypeInv, PayloadInOrder, NEW c \in Conns, Payload(c)
  PROVE  PayloadInOrder'
<1>1. /\ pipe[c] \in Seq(Nat) /\ cache[c] \in Seq(Nat) /\ got[c] \in Seq(Nat) /\ sent[c] \in Nat
      /\ got[c] \o cache[c] \o pipe[c] = Sent(sent[c])
  BY DEF TypeInv, TypeOK, PayloadInOrder, Sent
<1>2. /\ got'[c] \o cache'[c] \o pipe'[c] = Sent(sent'[c])
      /\ \A d \in Conns \ {c} : /\ got'[d] = got[d] /\ cache'[d] = cache[d]
                                /\ pipe'[d] = pipe[d] /\ sent'[d] = sent[d]
  <2>1. CASE ClientWrite(c)
    <3>1. /\ sent' = [sent EXCEPT ![c] = sent[c] + 1]
          /\ pipe' = [pipe EXCEPT ![c] = Append(pipe[c], sent'[c])] /\ UNCHANGED <<cache, got>>
      BY <2>1 DEF ClientWrite
    <3>2. /\ sent'[c] = sent[c] + 1 /\ pipe'[c] = Append(pipe[c], sent[c] + 1)
          /\ \A d \in Conns \ {c} : pipe'[d] = pipe[d] /\ sent'[d] = sent[d]
      BY <3>1 DEF TypeInv, TypeOK
    <3>3. sent[c] + 1 \in Nat
      BY <1>1
    <3>4. \A n \in Nat : got[c] \o cache[c] \o Append(pipe[c], n)
                          = Append(got[c] \o cache[c] \o pipe[c], n)
      BY <1>1, MoveChunks
    <3>5. got[c] \o cache[c] \o Append(pipe[c], sent[c] + 1) = Append(Sent(sent[c]), sent[c] + 1)
      BY <1>1, <3>3, <3>4
    <3> QED BY <1>1, <3>1, <3>2, <3>5, SentAppend
  <2>2. CASE Cache(c)
    <3>1. /\ cache' = [cache EXCEPT ![c] = cache[c] \o pipe[c]]
          /\ pipe' = [pipe EXCEPT ![c] = <<>>] /\ UNCHANGED <<got, sent>>
      BY <2>2 DEF Cache
    <3>2. /\ cache'[c] = cache[c] \o pipe[c] /\ pipe'[c] = <<>>
          /\ \A d \in Conns \ {c} : cache'[d] = cache[d] /\ pipe'[d] = pipe[d]
      BY <3>1 DEF TypeInv, TypeOK
    <3>3. got[c] \o (cache[c] \o pipe[c]) \o <<>> = got[c] \o cache[c] \o pipe[c]
      BY <1>1, MoveChunks
    <3> QED BY <1>1, <3>1, <3>2, <3>3
  <2>3. CASE Read(c, cache) /\ cache' = [cache EXCEPT ![c] = <<>>] /\ UNCHANGED <<pipe, sent>>
    <3>1. /\ got'[c] = got[c] \o cache[c] /\ cache'[c] = <<>>
          /\ \A d \in Conns \ {c} : got'[d] = got[d] /\ cache'[d] = cache[d]
      BY <2>3 DEF Read, TypeInv, TypeOK
    <3>2. (got[c] \o cache[c]) \o <<>> \o pipe[c] = got[c] \o cache[c] \o pipe[c]
      BY <1>1, MoveChunks
    <3> QED BY <1>1, <2>3, <3>1, <3>2
  <2>4. CASE /\ cache[c] = <<>> /\ Read(c, pipe)
             /\ pipe' = [pipe EXCEPT ![c] = <<>>] /\ UNCHANGED <<cache, sent>>
    <3>1. /\ got'[c] = got[c] \o pipe[c] /\ pipe'[c] = <<>>
          /\ \A d \in Conns \ {c} : got'[d] = got[d] /\ pipe'[d] = pipe[d]
      BY <2>4 DEF Read, TypeInv, TypeOK
    <3>2. (got[c] \o pipe[c]) \o cache[c] \o <<>> = got[c] \o cache[c] \o pipe[c]
      BY <1>1, <2>4, MoveChunks
    <3> QED BY <1>1, <2>4, <3>1, <3>2
  <2> QED BY <2>1, <2>2, <2>3, <2>4 DEF Payload, ReadMultiBuffer
<1> QED BY <1>2 DEF PayloadInOrder, Sent

LEMMA StreamStays ==
  ASSUME Next, ~\E c \in Conns : Payload(c)
  PROVE  UNCHANGED stream
BY DEF Next, Serve, Dispatch, Detect, Record, Add, Store, Route, RouteOnly, RecordOnly,
       Report, Take, Iterate, ReportAll, ReportEach, ReportFails, MonitorOnly,
       Node, UpdateRule, RemoveOutbound, AddOutbound, NodeOnly

\* The outbound gets the payload from the first byte on and in order, whatever
\* was read ahead (cachedReader.Cache and ReadMultiBuffer).
THEOREM PayloadKeepsOrder == Spec => []PayloadInOrder
<1>1. Init => PayloadInOrder
  BY ConcatEmptySeq DEF Init, PayloadInOrder
<1>2. TypeInv /\ PayloadInOrder /\ [Next]_vars => PayloadInOrder'
  <2> SUFFICES ASSUME TypeInv, PayloadInOrder, [Next]_vars PROVE PayloadInOrder'
    OBVIOUS
  <2>1. CASE UNCHANGED stream
    BY <2>1 DEF stream, PayloadInOrder
  <2>2. CASE ~UNCHANGED stream
    BY <2>2, StreamStays, PayloadStep DEF vars
  <2> QED BY <2>1, <2>2
<1> QED BY <1>1, <1>2, TypesAlways, PTL DEF Spec

\* Every variable of the dispatcher has its type (mydispatcher, common/rule).
THEOREM DispatchTypes == Spec => []TypeOK
<1>1. TypeInv => TypeOK
  BY DEF TypeInv
<1> QED BY <1>1, TypesAlways, PTL
-----------------------------------------------------------------------------
(* Links.                                                                  *)

\* A dispatched link is handed to an outbound or terminated in both directions
\* (routedDispatch, DefaultDispatcher.Dispatch), whatever a reload removes.
THEOREM NoLinkLeftOpen == Spec => []NoDanglingLink
<1>1. Init => NoDanglingLink
  BY DEF Init, NoDanglingLink
<1>2. TypeInv /\ NoDanglingLink /\ [Next]_vars => NoDanglingLink'
  <2> SUFFICES ASSUME TypeInv, NoDanglingLink, [Next]_vars PROVE NoDanglingLink'
    OBVIOUS
  <2>1. CASE UNCHANGED <<at, ended>>
    BY <2>1 DEF NoDanglingLink
  <2>2. ASSUME NEW c \in Conns, Terminate(c) PROVE NoDanglingLink'
    BY <2>2 DEF Terminate, Goto, NoDanglingLink, TypeInv, TypeOK
  <2>3. ASSUME NEW c \in Conns, NEW l \in Steps \ {"closed"}, Goto(c, l), UNCHANGED ended
        PROVE  NoDanglingLink'
    BY <2>3 DEF Goto, NoDanglingLink, TypeInv, TypeOK
  <2>4. ASSUME NEW c \in Conns, Serve(c)
        PROVE  \/ UNCHANGED <<at, ended>> \/ Terminate(c)
               \/ \E l \in Steps \ {"closed"} : Goto(c, l) /\ UNCHANGED ended
    BY <2>4
    DEF Serve, Dispatch, Detect, Record, Add, Store, Route, Serving, Steps
  <2>5. CASE Next /\ ~\E c \in Conns : Serve(c)
    BY <2>1, <2>5
    DEF Next, Payload, ClientWrite, Cache, ReadMultiBuffer, PayloadOnly,
        Report, Take, Iterate, ReportAll, ReportEach, ReportFails, MonitorOnly,
        Node, UpdateRule, RemoveOutbound, AddOutbound, NodeOnly
  <2> QED BY <2>1, <2>2, <2>3, <2>4, <2>5 DEF vars
<1> QED BY <1>1, <1>2, TypesAlways, PTL DEF Spec
-----------------------------------------------------------------------------
(* The rules.                                                              *)

\* The rules see the destination that is dialled, unless the sniffer changed
\* only what the router sees; and what they allowed is not forgotten.
RulesHold(c) ==
  /\ at[c] \in {"sniff", "route"} => Follows(conn[c])
  /\ at[c] = "sniff" => Allowed(rules[conn[c].tag]) \subseteq conn[c].spare
  /\ at[c] = "route" /\ conn[c].user # NoUser => conn[c].dest \in conn[c].spare

\* A destination that no rule of the tag matches is one its list allows.
LEMMA NoMatchAllowed ==
  ASSUME NEW i \in ConnInfo, Matches(i) = {}
  PROVE  i.dest \in Allowed(rules[i.tag])
BY DEF ConnInfo, Matches, Allowed

\* A connection's own steps keep what the rules see.
LEMMA ServeKeepsRules ==
  ASSUME TypeInv, NEW c \in Conns, RulesHold(c), Serve(c)
  PROVE  RulesHold(c)'
<1>1. UNCHANGED rules
  BY DEF Serve, Dispatch, Detect, Record, Add, Store, Route, RecordOnly, RouteOnly, Own
<1>2. CASE at'[c] \notin {"sniff", "route"}
  BY <1>2 DEF RulesHold
<1>3. CASE Dispatch(c) /\ at'[c] \in {"sniff", "route"}
  <2>1. PICK u \in Users \cup {NoUser}, d \in Dests :
          /\ conn' = [conn EXCEPT ![c] =
               [user |-> u, tag |-> tag, target |-> d, route |-> None, dest |-> d,
                set |-> None, spare |-> Allowed(rules[tag])]]
          /\ Goto(c, "sniff")
    BY <1>3 DEF Dispatch, Terminate, Goto, TypeInv, TypeOK
  <2>2. /\ at'[c] = "sniff"
        /\ conn'[c] = [user |-> u, tag |-> tag, target |-> d, route |-> None, dest |-> d,
                       set |-> None, spare |-> Allowed(rules[tag])]
    BY <2>1 DEF Goto, TypeInv, TypeOK
  <2> QED BY <1>1, <2>2 DEF RulesHold, Follows
<1>4. CASE Detect(c) /\ at'[c] \in {"sniff", "route"}
  <2>1. at[c] = "sniff" /\ conn[c] \in ConnInfo
    BY <1>4 DEF Detect, TypeInv, ControlInv, LocalsFit
  <2>2. PICK s \in Sniffed(conn[c]) : \E i \in Mapped(s) :
          /\ i.user = NoUser \/ Matches(i) = {}
          /\ Goto(c, "route") /\ conn' = [conn EXCEPT ![c] = i]
    BY <1>4 DEF Detect, Terminate, Goto, TypeInv, TypeOK
  <2>3. PICK i \in Mapped(s) : /\ i.user = NoUser \/ Matches(i) = {}
                               /\ Goto(c, "route") /\ conn' = [conn EXCEPT ![c] = i]
    BY <2>2
  <2>4. at'[c] = "route" /\ conn'[c] = i
    BY <2>3 DEF Goto, TypeInv, TypeOK
  <2>5. i \in ConnInfo /\ SameConn(i, conn[c]) /\ (Follows(conn[c]) => Follows(i))
    BY <2>1, DestinationKeeps
  <2>6. i.user # NoUser => i.dest \in i.spare
    BY <2>1, <2>3, <2>5, NoMatchAllowed DEF RulesHold, SameConn
  <2> QED BY <2>1, <2>4, <2>5, <2>6 DEF RulesHold
<1>5. CASE (Record(c) \/ Add(c) \/ Store(c) \/ Route(c)) /\ at'[c] \in {"sniff", "route"}
  BY <1>5
  DEF Record, Add, Store, Route, Serving, Terminate, Goto, TypeInv, TypeOK
<1> QED BY <1>2, <1>3, <1>4, <1>5 DEF Serve

\* So does a new list of rules: what it allows is added to what was allowed.
LEMMA UpdateRuleKeepsRules ==
  ASSUME TypeInv, UpdateRule, NEW c \in Conns, RulesHold(c)
  PROVE  RulesHold(c)'
<1>1. UNCHANGED <<at, tag>>
  BY DEF UpdateRule, NodeOnly
<1>2. CASE at[c] \notin {"sniff", "route"}
  BY <1>1, <1>2 DEF RulesHold
<1>3. CASE at[c] \in {"sniff", "route"}
  <2>1. conn[c] \in ConnInfo
    BY <1>3 DEF TypeInv, ControlInv, LocalsFit
  <2>2. /\ conn'[c].user = conn[c].user /\ conn'[c].tag = conn[c].tag
        /\ conn'[c].route = conn[c].route /\ conn'[c].target = conn[c].target
        /\ conn'[c].dest = conn[c].dest /\ conn[c].spare \subseteq conn'[c].spare
        /\ conn[c].tag = tag => Allowed(rules'[tag]) \subseteq conn'[c].spare
    BY <2>1, UpdateRuleKeeps, NoneAssumption DEF ConnInfo
  <2>3. conn[c].tag # tag => rules'[conn[c].tag] = rules[conn[c].tag]
    BY <2>1 DEF UpdateRule, TypeInv, TypeOK, ConnInfo
  <2>4. Follows(conn'[c]) <=> Follows(conn[c])
    BY <2>2 DEF Follows
  <2>5. at[c] = "sniff" => Allowed(rules'[conn'[c].tag]) \subseteq conn'[c].spare
    <3>1. CASE conn[c].tag = tag
      BY <2>2, <3>1
    <3>2. CASE conn[c].tag # tag
      BY <2>2, <2>3, <3>2 DEF RulesHold
    <3> QED BY <3>1, <3>2
  <2> QED BY <1>1, <2>2, <2>4, <2>5 DEF RulesHold
<1> QED BY <1>2, <1>3

\* No step touches the state of two connections' destinations.
LEMMA OthersStay ==
  ASSUME TypeInv, NEW c \in Conns, Serve(c), NEW d \in Conns \ {c}
  PROVE  at'[d] = at[d] /\ conn'[d] = conn[d] /\ rules' = rules
<1>1. rules' = rules
  BY DEF Serve, Dispatch, Detect, Record, Add, Store, Route, RecordOnly, RouteOnly, Own
<1>2. CASE Serving(c) \/ Terminate(c)
  BY <1>1, <1>2, ReturnFits
<1>3. CASE Dispatch(c)
  BY <1>1, <1>2, <1>3 DEF Dispatch, Goto, TypeInv, TypeOK
<1>4. CASE Detect(c)
  BY <1>1, <1>2, <1>4 DEF Detect, Goto, TypeInv, TypeOK
<1>5. CASE Record(c) \/ Add(c) \/ Store(c) \/ Route(c)
  BY <1>1, <1>2, <1>5 DEF Record, Add, Store, Route, Goto, TypeInv, TypeOK
<1> QED BY <1>3, <1>4, <1>5 DEF Serve

LEMMA RulesStay ==
  ASSUME Next, ~UpdateRule, ~\E c \in Conns : Serve(c)
  PROVE  UNCHANGED <<at, conn, rules>>
BY DEF Next, Payload, ClientWrite, Cache, ReadMultiBuffer, PayloadOnly, Own,
       Report, Take, Iterate, ReportAll, ReportEach, ReportFails, MonitorOnly,
       Node, RemoveOutbound, AddOutbound, NodeOnly

\* A link that is handed to an outbound goes nowhere that the rules of its tag
\* forbade during all of its dispatch (RuleManager.Detect, called once sniffing
\* is over, and UpdateRule), whoever sniffed, mapped or updated meanwhile.
THEOREM RulesAreEnforced == Spec => RulesEnforced
<1> DEFINE Inv == \A c \in Conns : RulesHold(c)
<1>1. Init => Inv
  BY DEF Init, RulesHold
<1>2. TypeInv /\ Inv /\ [Next]_vars => Inv'
  <2> SUFFICES ASSUME TypeInv, Inv, [Next]_vars, NEW c \in Conns PROVE RulesHold(c)'
    OBVIOUS
  <2>1. CASE UNCHANGED <<at, conn, rules>>
    BY <2>1 DEF RulesHold
  <2>2. ASSUME NEW d \in Conns, Serve(d) PROVE RulesHold(c)'
    <3>1. CASE c = d
      BY <2>2, <3>1, ServeKeepsRules
    <3>2. CASE c # d
      BY <2>2, <3>2, OthersStay DEF RulesHold
    <3> QED BY <3>1, <3>2
  <2>3. CASE UpdateRule
    BY <2>3, UpdateRuleKeepsRules
  <2> QED BY <2>1, <2>2, <2>3, RulesStay DEF vars
<1>3. TypeInv /\ Inv /\ [Next]_vars
        => [\A c \in Conns :
             at[c] # "served" /\ at'[c] = "served" /\ conn[c].user # NoUser /\ conn[c].route = None
               => conn[c].target \in conn[c].spare]_vars
  <2> SUFFICES ASSUME TypeInv, Inv, Next, NEW c \in Conns, at[c] # "served", at'[c] = "served",
                      conn[c].user # NoUser, conn[c].route = None
               PROVE  conn[c].target \in conn[c].spare
    OBVIOUS
  <2>1. Serve(c)
    BY OthersStay, RulesStay DEF UpdateRule, NodeOnly
  <2>2. at[c] = "route"
    <3>1. ~(Dispatch(c) \/ Detect(c) \/ Record(c) \/ Add(c) \/ Store(c))
      BY DEF Dispatch, Detect, Record, Add, Store, Terminate, Goto, TypeInv, TypeOK
    <3> QED BY <2>1, <3>1 DEF Serve, Route
  <2> QED BY <2>2 DEF RulesHold, Follows
<1> QED BY <1>1, <1>2, <1>3, TypesAlways, PTL DEF Spec, RulesEnforced
-----------------------------------------------------------------------------
(* The hits. Every step but those of Record, Add, Store and of the monitor *)
(* leaves the sets, their holders and what is due alone.                   *)

SetInv == SetsInv /\ HitInv

\* A hit stays kept if its set stays alive and keeps it.
LEMMA KeptStays ==
  ASSUME NEW d \in Conns, Kept(d), hit'[d] = hit[d], d \in held => d \in held',
         Waits(d) => Kept(d)',
         \A o \in Objects : elems[o] \subseteq elems'[o] /\ (Alive(o) => Alive(o)')
  PROVE  Kept(d)'
BY DEF Kept

\* A set once made stays so.
LEMMA MadeStays ==
  ASSUME TypeInv, [Next]_vars, NEW o \in Conns, Made(at, o)
  PROVE  Made(at', o)
<1>1. CASE UNCHANGED at
  BY <1>1 DEF Made
<1>2. ASSUME NEW c \in Conns, Serve(c) PROVE Made(at', o)
  <2>1. CASE o # c
    BY <1>2, <2>1, OthersStay DEF Made
  <2>2. CASE o = c
    <3>1. Add(c) \/ Store(c) \/ Route(c)
      BY <1>2, <2>2 DEF Serve, Dispatch, Detect, Record, Made
    <3> QED BY <2>2, <3>1
      DEF Add, Store, Route, Serving, Terminate, Goto, Made, TypeInv, TypeOK
  <2> QED BY <2>1, <2>2
<1> QED BY <1>1, <1>2, RulesStay DEF vars, UpdateRule, NodeOnly

LEMMA QuietStep ==
  ASSUME TypeInv, SetInv, [Next]_vars, UNCHANGED <<results, taken, held, due>>,
         \A d \in Conns : at'[d] \in {"add", "store"} \/ at[d] \in {"add", "store"} =>
                           at'[d] = at[d] /\ conn'[d].set = conn[d].set,
         \A d \in due : hit'[d] = hit[d]
  PROVE  SetInv'
<1>1. \A o \in Conns : Made(at, o) => Made(at', o)
  BY MadeStays
<1>2. SetsInv'
  BY <1>1 DEF SetInv, SetsInv, results, TypeInv, TypeOK, ControlInv, LocalsFit, ConnInfo, Objects
<1>3. \A o \in Objects : Alive(o) => Alive(o)'
  BY DEF Alive, results
<1>4. ASSUME NEW d \in due PROVE Kept(d)'
  <2>1. d \in Conns /\ Kept(d) /\ hit'[d] = hit[d]
    BY <1>4 DEF SetInv, HitInv, TypeInv, TypeOK
  <2>2. Waits(d) => Waits(d)'
    BY <2>1 DEF Waits, results
  <2> QED BY <1>3, <2>1, <2>2, KeptStays DEF Kept, results
<1> QED BY <1>2, <1>4 DEF SetInv, HitInv

LEMMA QuietServe ==
  ASSUME TypeInv, SetInv, NEW c \in Conns, Dispatch(c) \/ Detect(c) \/ Route(c)
  PROVE  SetInv'
<1>1. Serve(c) /\ Next
  BY DEF Serve, Next
<1>2. UNCHANGED <<results, taken, held, due>>
  BY DEF Dispatch, Detect, Route, RouteOnly, Own, monitor, history
<1>3. at[c] \notin {"add", "store"} /\ at'[c] \notin {"add", "store"}
  BY DEF Dispatch, Detect, Route, Serving, Terminate, Goto, TypeInv, TypeOK
<1>4. \A d \in Conns \ {c} : at'[d] = at[d] /\ conn'[d] = conn[d]
  BY <1>1, OthersStay
<1>5. \A d \in due : hit'[d] = hit[d]
  BY DEF Dispatch, Detect, Route, RouteOnly, history, TypeInv, TypeOK, ControlInv, LocalsFit
<1> QED BY <1>1, <1>2, <1>3, <1>4, <1>5, QuietStep

LEMMA QuietOthers ==
  ASSUME TypeInv, SetInv, (\E c \in Conns : Payload(c)) \/ Node
  PROVE  SetInv'
<1>1. Next
  BY DEF Next
<1>2. UNCHANGED <<results, taken, held, due, at, hit>>
  BY DEF Payload, ClientWrite, Cache, ReadMultiBuffer, PayloadOnly, Own,
         Node, UpdateRule, RemoveOutbound, AddOutbound, NodeOnly, monitor, history
<1>3. ASSUME NEW d \in Conns, at[d] \in {"add", "store"} PROVE conn'[d].set = conn[d].set
  <2>1. conn[d] \in ConnInfo
    BY <1>3 DEF TypeInv, ControlInv, LocalsFit
  <2>2. CASE UpdateRule
    BY <2>1, <2>2, UpdateRuleKeeps, NoneAssumption DEF ConnInfo
  <2>3. CASE ~UpdateRule
    BY <2>3 DEF Payload, ClientWrite, Cache, ReadMultiBuffer, PayloadOnly,
                Node, RemoveOutbound, AddOutbound, NodeOnly
  <2> QED BY <2>2, <2>3
<1> QED BY <1>1, <1>2, <1>3, QuietStep

\* The steps that touch the sets share this much.
LEMMA RecordShape ==
  ASSUME TypeInv, SetInv, NEW c \in Conns, Record(c) \/ Add(c) \/ Store(c)
  PROVE  /\ UNCHANGED <<taken, held, hit>> /\ conn[c].tag \in Tags
         /\ \A o \in Conns : Made(at, o) => Made(at', o)
         /\ \A d \in Conns \ {c} : at'[d] = at[d] /\ conn'[d] = conn[d]
         /\ \A d \in Conns : d \in due => Kept(d)
<1>1. Serve(c) /\ Next
  BY DEF Serve, Next
<1>2. conn[c] \in ConnInfo
  BY DEF Record, Add, Store, TypeInv, ControlInv, LocalsFit
<1>3. UNCHANGED <<taken, held, hit>>
  BY DEF Record, Add, Store, RecordOnly, monitor
<1>4. \A o \in Conns : Made(at, o) => Made(at', o)
  BY <1>1, MadeStays
<1>5. \A d \in Conns \ {c} : at'[d] = at[d] /\ conn'[d] = conn[d]
  BY <1>1, OthersStay
<1> QED BY <1>2, <1>3, <1>4, <1>5 DEF ConnInfo, SetInv, HitInv

\* The set of a tag without one: it is empty so far, and alive from here on.
LEMMA RecordFirstKeeps ==
  ASSUME TypeInv, SetInv, NEW c \in Conns, Record(c), current[conn[c].tag] = None
  PROVE  SetInv'
<1> DEFINE t == conn[c].tag
<1>1. /\ UNCHANGED <<taken, held, hit>> /\ t \in Tags
      /\ \A o \in Conns : Made(at, o) => Made(at', o)
      /\ \A d \in Conns \ {c} : at'[d] = at[d] /\ conn'[d] = conn[d]
      /\ \A d \in Conns : d \in due => Kept(d)
  BY RecordShape
<1>2. /\ at[c] = "record" /\ elems[c] = {} /\ c \notin due /\ c # None
  BY DispatchAssumption DEF Record, SetInv, SetsInv, Made, TypeInv, ControlInv, LocalsFit
<1>3. /\ current' = [current EXCEPT ![t] = c] /\ elems' = [elems EXCEPT ![c] = {hit[c]}]
      /\ Terminate(c) /\ due' = due \cup {c}
  BY DEF Record
<1>4. /\ current'[t] = c /\ \A u \in Tags \ {t} : current'[u] = current[u]
      /\ elems'[c] = {hit[c]} /\ \A o \in Conns \ {c} : elems'[o] = elems[o]
      /\ at'[c] = "closed"
  BY <1>1, <1>3 DEF TypeInv, TypeOK, Objects, Terminate, Goto
<1> HIDE DEF t
<1>5. SetsInv'
  <2>1. Made(at', c)
    BY <1>4 DEF Made
  <2>2. \A u \in Tags : current'[u] # None => Made(at', current'[u])
    <3> SUFFICES ASSUME NEW u \in Tags \ {t}, current[u] # None PROVE Made(at', current[u])
      BY <1>1, <1>4, <2>1
    <3>1. current[u] \in Conns /\ Made(at, current[u])
      BY DEF TypeInv, TypeOK, Objects, SetInv, SetsInv
    <3> QED BY <1>1, <3>1
  <2>3. taken' # None => Made(at', taken')
    BY <1>1 DEF TypeInv, TypeOK, Objects, SetInv, SetsInv
  <2>4. \A d \in Conns : at'[d] \in {"add", "store"} => Made(at', conn'[d].set)
    <3> SUFFICES ASSUME NEW d \in Conns \ {c}, at[d] \in {"add", "store"} PROVE Made(at', conn[d].set)
      BY <1>1, <1>4
    <3>1. conn[d].set \in Conns /\ Made(at, conn[d].set)
      BY DEF TypeInv, ControlInv, LocalsFit, ConnInfo, Objects, SetInv, SetsInv
    <3> QED BY <1>1, <3>1
  <2> QED BY <1>1, <1>4, <2>1, <2>2, <2>3, <2>4 DEF SetInv, SetsInv
<1>6. \A o \in Objects : elems[o] \subseteq elems'[o] /\ (Alive(o) => Alive(o)')
  <2> SUFFICES ASSUME NEW o \in Objects PROVE elems[o] \subseteq elems'[o] /\ (Alive(o) => Alive(o)')
    OBVIOUS
  <2>1. elems[o] \subseteq elems'[o]
    BY <1>2, <1>4 DEF Objects
  <2>2. \A u \in Tags : current[u] = o /\ o # None => current'[u] = o
    BY <1>4, current[t] = None DEF t
  <2>3. \A d \in Conns : at[d] = "store" /\ conn[d].set = o => at'[d] = "store" /\ conn'[d].set = o
    BY <1>1, <1>2
  <2> QED BY <1>1, <2>1, <2>2, <2>3 DEF Alive
<1>7. Kept(c)'
  <2>1. Alive(c)'
    BY <1>1, <1>2, <1>4 DEF Alive
  <2> QED BY <1>1, <1>4, <2>1 DEF Kept, Objects
<1>8. ASSUME NEW d \in Conns \ {c}, d \in due PROVE Kept(d)'
  <2>1. Waits(d) => Waits(d)'
    <3> SUFFICES ASSUME Waits(d) PROVE Waits(d)'
      OBVIOUS
    <3>1. at[d] = "add" /\ conn[d].set \in Conns /\ Made(at, conn[d].set) /\ ~Made(at, c)
      BY <1>2 DEF Waits, TypeInv, ControlInv, LocalsFit, ConnInfo, Objects, SetInv, SetsInv, Made
    <3> QED BY <1>1, <1>4, <3>1 DEF Waits
  <2> QED BY <1>1, <1>6, <1>8, <2>1, KeptStays DEF Kept
<1>9. HitInv'
  BY <1>3, <1>7, <1>8 DEF HitInv, TypeInv, TypeOK
<1> QED BY <1>5, <1>9 DEF SetInv

\* The set of a tag that has one: the hit is about to be added to it.
LEMMA RecordLaterKeeps ==
  ASSUME TypeInv, SetInv, NEW c \in Conns, Record(c), current[conn[c].tag] # None
  PROVE  SetInv'
<1>1. /\ UNCHANGED <<taken, held, hit>> /\ conn[c].tag \in Tags
      /\ \A o \in Conns : Made(at, o) => Made(at', o)
      /\ \A d \in Conns \ {c} : at'[d] = at[d] /\ conn'[d] = conn[d]
      /\ \A d \in Conns : d \in due => Kept(d)
  BY RecordShape
<1>2. /\ at[c] = "record" /\ conn[c] \in ConnInfo
      /\ current[conn[c].tag] \in Conns /\ Made(at, current[conn[c].tag])
  BY <1>1 DEF Record, SetInv, SetsInv, TypeInv, TypeOK, ControlInv, LocalsFit, Objects
<1>3. /\ conn' = [conn EXCEPT ![c].set = current[conn[c].tag]] /\ Goto(c, "add")
      /\ UNCHANGED <<current, elems>> /\ due' = due \cup {c}
  BY DEF Record
<1>4. at'[c] = "add" /\ conn'[c].set = current[conn[c].tag]
  BY <1>2, <1>3 DEF TypeInv, TypeOK, Goto, ConnInfo
<1>5. SetsInv'
  <2>1. \A u \in Tags : current[u] # None => current[u] \in Conns /\ Made(at, current[u])
    BY DEF TypeInv, TypeOK, Objects, SetInv, SetsInv
  <2>2. taken # None => taken \in Conns /\ Made(at, taken)
    BY DEF TypeInv, TypeOK, Objects, SetInv, SetsInv
  <2>3. \A d \in Conns \ {c} :
          at[d] \in {"add", "store"} => conn[d].set \in Conns /\ Made(at, conn[d].set)
    BY DEF TypeInv, ControlInv, LocalsFit, ConnInfo, Objects, SetInv, SetsInv
  <2>4. \A d \in Conns : ~Made(at, d) => elems[d] = {}
    BY DEF SetInv, SetsInv
  <2> QED BY <1>1, <1>2, <1>3, <1>4, <2>1, <2>2, <2>3, <2>4 DEF SetsInv
<1>6. \A o \in Objects : Alive(o) => Alive(o)'
  <2> SUFFICES ASSUME NEW o \in Objects, Alive(o) PROVE Alive(o)'
    OBVIOUS
  <2>1. \A d \in Conns : at[d] = "store" /\ conn[d].set = o => at'[d] = "store" /\ conn'[d].set = o
    BY <1>1, <1>2
  <2> QED BY <1>1, <1>3, <2>1 DEF Alive
<1>7. Kept(c)'
  <2>1. Alive(current[conn[c].tag])'
    BY <1>1, <1>3, <1>2, DispatchAssumption DEF Alive
  <2>2. CASE hit[c] \in elems[current[conn[c].tag]]
    BY <1>1, <1>2, <1>3, <2>1, <2>2 DEF Kept, Objects
  <2>3. CASE hit[c] \notin elems[current[conn[c].tag]]
    BY <1>1, <1>3, <1>4, <2>3 DEF Kept, Waits
  <2> QED BY <2>2, <2>3
<1>8. ASSUME NEW d \in Conns \ {c}, d \in due PROVE Kept(d)'
  <2>1. Waits(d) => Waits(d)'
    BY <1>1, <1>3 DEF Waits
  <2> QED BY <1>1, <1>3, <1>6, <1>8, <2>1, KeptStays DEF Kept
<1>9. HitInv'
  BY <1>3, <1>7, <1>8 DEF HitInv, TypeInv, TypeOK
<1> QED BY <1>5, <1>9 DEF SetInv

\* A hit that was not in the set brings the set back with it, once stored; one
\* that was is kept by what kept the set.
LEMMA AddKeeps ==
  ASSUME TypeInv, SetInv, NEW c \in Conns, Add(c)
  PROVE  SetInv'
<1>0. PICK o \in Conns : o = conn[c].set /\ at[c] = "add" /\ Made(at, o)
  BY DEF Add, SetInv, SetsInv, TypeInv, ControlInv, LocalsFit, ConnInfo, Objects
<1>1. /\ UNCHANGED <<taken, held, hit>>
      /\ \A x \in Conns : Made(at, x) => Made(at', x)
      /\ \A d \in Conns \ {c} : at'[d] = at[d] /\ conn'[d] = conn[d]
      /\ \A d \in Conns : d \in due => Kept(d)
  BY RecordShape
<1>2. at[c] = "add" /\ o \in Conns /\ Made(at, o) /\ o # None
  BY <1>0, DispatchAssumption
<1>3. /\ elems' = [elems EXCEPT ![o] = elems[o] \cup {hit[c]}] /\ UNCHANGED <<current, due>>
      /\ IF hit[c] \in elems[o] THEN Terminate(c) ELSE Goto(c, "store") /\ UNCHANGED conn
  BY <1>0 DEF Add
<1>4. /\ elems'[o] = elems[o] \cup {hit[c]} /\ \A x \in Conns \ {o} : elems'[x] = elems[x]
      /\ at'[c] = IF hit[c] \in elems[o] THEN "closed" ELSE "store"
      /\ hit[c] \notin elems[o] => conn'[c].set = o
  BY <1>0, <1>2, <1>3 DEF TypeInv, TypeOK, Objects, Terminate, Goto
<1>5. SetsInv'
  <2>1. \A u \in Tags : current[u] # None => current[u] \in Conns /\ Made(at, current[u])
    BY DEF TypeInv, TypeOK, Objects, SetInv, SetsInv
  <2>2. taken # None => taken \in Conns /\ Made(at, taken)
    BY DEF TypeInv, TypeOK, Objects, SetInv, SetsInv
  <2>3. \A d \in Conns \ {c} :
          at[d] \in {"add", "store"} => conn[d].set \in Conns /\ Made(at, conn[d].set)
    BY DEF TypeInv, ControlInv, LocalsFit, ConnInfo, Objects, SetInv, SetsInv
  <2>4. \A d \in Conns : ~Made(at, d) => elems[d] = {}
    BY DEF SetInv, SetsInv
  <2>5. \A d \in Conns : ~Made(at', d) => elems'[d] = {}
    BY <1>1, <1>2, <1>4, <2>4
  <2>6. \A d \in Conns : at'[d] \in {"add", "store"} => Made(at', conn'[d].set)
    <3>1. CASE hit[c] \in elems[o]
      BY <1>1, <1>4, <2>3, <3>1
    <3>2. CASE hit[c] \notin elems[o]
      BY <1>1, <1>2, <1>4, <2>3, <3>2
    <3> QED BY <3>1, <3>2
  <2> QED BY <1>1, <1>3, <2>1, <2>2, <2>5, <2>6 DEF SetsInv
<1>6. \A x \in Objects : elems[x] \subseteq elems'[x] /\ (Alive(x) => Alive(x)')
  <2> SUFFICES ASSUME NEW x \in Objects PROVE elems[x] \subseteq elems'[x] /\ (Alive(x) => Alive(x)')
    OBVIOUS
  <2>1. elems[x] \subseteq elems'[x]
    BY <1>4 DEF Objects
  <2>2. \A d \in Conns : at[d] = "store" /\ conn[d].set = x => at'[d] = "store" /\ conn'[d].set = x
    BY <1>1, <1>2
  <2> QED BY <1>1, <1>3, <2>1, <2>2 DEF Alive
<1>7. hit[c] \notin elems[o] => Alive(o)'
  BY <1>2, <1>4 DEF Alive
<1>8. ASSUME NEW d \in Conns, d \in due PROVE Kept(d)'
  <2>1. Waits(d) => Kept(d)'
    <3> SUFFICES ASSUME Waits(d) PROVE Kept(d)'
      OBVIOUS
    <3>1. at[d] = "add" /\ conn[d].set \in Conns /\ hit[d] \notin elems[conn[d].set]
      BY DEF Waits, TypeInv, ControlInv, LocalsFit, ConnInfo, Objects
    <3>2. CASE hit[d] \in elems'[conn[d].set]
      <4>1. conn[d].set = o /\ hit[d] = hit[c]
        BY <1>4, <3>1, <3>2
      <4> QED BY <1>1, <1>2, <1>7, <3>1, <3>2, <4>1 DEF Kept, Objects
    <3>3. CASE hit[d] \notin elems'[conn[d].set]
      <4>1. d # c
        BY <1>0, <1>4, <3>3
      <4> QED BY <1>1, <3>1, <3>3, <4>1 DEF Kept, Waits
    <3> QED BY <3>2, <3>3
  <2> QED BY <1>1, <1>6, <1>8, <2>1, KeptStays
<1>9. HitInv'
  BY <1>3, <1>8 DEF HitInv, TypeInv, TypeOK
<1> QED BY <1>5, <1>9 DEF SetInv

\* Storing a set back may cost the hits of the set that it replaces, no others.
LEMMA StoreKeeps ==
  ASSUME TypeInv, SetInv, NEW c \in Conns, Store(c)
  PROVE  SetInv'
<1>0. PICK o \in Conns, t \in Tags :
        o = conn[c].set /\ t = conn[c].tag /\ at[c] = "store" /\ Made(at, o)
  BY DEF Store, SetInv, SetsInv, TypeInv, ControlInv, LocalsFit, ConnInfo, Objects
<1>1. /\ UNCHANGED <<taken, held, hit>> /\ t \in Tags
      /\ \A x \in Conns : Made(at, x) => Made(at', x)
      /\ \A d \in Conns \ {c} : at'[d] = at[d] /\ conn'[d] = conn[d]
      /\ \A d \in Conns : d \in due => Kept(d)
  BY RecordShape
<1>2. at[c] = "store" /\ o \in Conns /\ Made(at, o) /\ o # None
  BY <1>0, DispatchAssumption
<1>3. /\ current' = [current EXCEPT ![t] = o] /\ UNCHANGED elems /\ Terminate(c)
      /\ due' = IF current[t] \in {None, o} THEN due
                ELSE due \ {d \in due : hit[d] \in elems[current[t]] \ elems[o]}
  BY <1>0 DEF Store
<1>4. /\ current'[t] = o /\ (\A u \in Tags \ {t} : current'[u] = current[u]) /\ at'[c] = "closed"
  BY <1>1, <1>3 DEF TypeInv, TypeOK, Terminate, Goto
<1>5. SetsInv'
  <2>1. \A u \in Tags : current[u] # None => current[u] \in Conns /\ Made(at, current[u])
    BY DEF TypeInv, TypeOK, Objects, SetInv, SetsInv
  <2>2. taken # None => taken \in Conns /\ Made(at, taken)
    BY DEF TypeInv, TypeOK, Objects, SetInv, SetsInv
  <2>3. \A d \in Conns \ {c} :
          at[d] \in {"add", "store"} => conn[d].set \in Conns /\ Made(at, conn[d].set)
    BY DEF TypeInv, ControlInv, LocalsFit, ConnInfo, Objects, SetInv, SetsInv
  <2>4. \A d \in Conns : ~Made(at, d) => elems[d] = {}
    BY DEF SetInv, SetsInv
  <2>5. \A u \in Tags : current'[u] # None => Made(at', current'[u])
    BY <1>1, <1>2, <1>4, <2>1
  <2>6. \A d \in Conns : at'[d] \in {"add", "store"} => Made(at', conn'[d].set)
    BY <1>1, <1>4, <2>3
  <2> QED BY <1>1, <1>3, <2>2, <2>4, <2>5, <2>6 DEF SetsInv
<1>6. Alive(o)'
  BY <1>1, <1>2, <1>4 DEF Alive
<1>7. ASSUME NEW x \in Objects, Alive(x), x # current[t] \/ x = o PROVE Alive(x)'
  <2>1. CASE x = o
    BY <1>6, <2>1
  <2>2. CASE x # o
    <3>1. \A d \in Conns : at[d] = "store" /\ conn[d].set = x => at'[d] = "store" /\ conn'[d].set = x
      BY <1>0, <1>1, <2>2
    <3>2. \A u \in Tags : current[u] = x => current'[u] = x
      BY <1>4, <1>7, <2>2
    <3> QED BY <1>1, <1>7, <3>1, <3>2 DEF Alive
  <2> QED BY <2>1, <2>2
<1>8. ASSUME NEW d \in Conns, d \in due' PROVE Kept(d)'
  <2>1. d \in due /\ Kept(d)
    BY <1>1, <1>3, <1>8
  <2>2. CASE Waits(d)
    <3>1. d # c
      BY <1>2, <2>2 DEF Waits
    <3> QED BY <1>1, <1>3, <2>2, <3>1 DEF Kept, Waits
  <2>3. CASE d \in held
    BY <1>1, <2>3 DEF Kept
  <2>4. ASSUME NEW x \in Objects, Alive(x), hit[d] \in elems[x] PROVE Kept(d)'
    <3>1. CASE x = current[t] /\ x # o
      <4>1. current[t] \notin {None, o}
        BY <2>4, <3>1 DEF Alive
      <4>2. hit[d] \in elems[o]
        BY <1>3, <1>8, <2>1, <2>4, <3>1, <4>1
      <4> QED BY <1>1, <1>2, <1>3, <1>6, <4>2 DEF Kept, Objects
    <3>2. CASE x # current[t] \/ x = o
      <4>1. Alive(x)'
        BY <1>7, <2>4, <3>2
      <4> QED BY <1>1, <1>3, <2>4, <4>1 DEF Kept
    <3> QED BY <3>1, <3>2
  <2> QED BY <2>1, <2>2, <2>3, <2>4 DEF Kept
<1>9. HitInv'
  BY <1>3, <1>8 DEF HitInv, TypeInv, TypeOK
<1> QED BY <1>5, <1>9 DEF SetInv

\* The monitor takes a set, reads it, and answers for what it has read.
LEMMA ReportKeeps ==
  ASSUME TypeInv, SetInv, Report
  PROVE  SetInv'
<1>1. UNCHANGED <<at, conn, hit, elems>>
  BY DEF Report, Take, Iterate, ReportAll, ReportEach, ReportFails, MonitorOnly, results
<1>2. \A d \in Conns : Waits(d) => Waits(d)'
  BY <1>1 DEF Waits
<1>3. CASE Take
  <2>1. /\ taken = None /\ current[tag] # None /\ taken' = current[tag]
        /\ current' = [current EXCEPT ![tag] = None] /\ UNCHANGED <<held, due>>
    BY <1>3 DEF Take, TypeInv, ControlInv, MonitorFits
  <2>2. /\ tag \in Tags /\ current'[tag] = None
        /\ \A u \in Tags \ {tag} : current'[u] = current[u]
    BY <2>1 DEF TypeInv, TypeOK
  <2>3. SetsInv'
    BY <1>1, <2>1, <2>2 DEF SetInv, SetsInv
  <2>4. \A o \in Objects : Alive(o) => Alive(o)'
    BY <1>1, <2>1, <2>2 DEF Alive
  <2>5. \A d \in due : Kept(d)'
    BY <1>1, <1>2, <2>1, <2>4 DEF SetInv, HitInv, Kept, TypeInv, TypeOK
  <2> QED BY <2>1, <2>3, <2>5 DEF SetInv, HitInv
<1>4. CASE Iterate
  <2>1. /\ held = {} /\ taken' = None /\ UNCHANGED <<current, due>>
        /\ held' = {d \in due : hit[d] \in elems[taken]}
    BY <1>4 DEF Iterate, TypeInv, ControlInv, MonitorFits, results
  <2>2. SetsInv'
    BY <1>1, <2>1 DEF SetInv, SetsInv
  <2>3. \A o \in Objects : Alive(o) /\ o # taken => Alive(o)'
    BY <1>1, <2>1 DEF Alive
  <2>4. ASSUME NEW d \in due PROVE Kept(d)'
    <3>1. d \in Conns /\ Kept(d)
      BY <2>4 DEF TypeInv, TypeOK, SetInv, HitInv
    <3>2. CASE hit[d] \in elems[taken]
      BY <2>1, <2>4, <3>2 DEF Kept
    <3>3. CASE hit[d] \notin elems[taken]
      BY <1>1, <1>2, <2>1, <2>3, <3>1, <3>3 DEF Kept
    <3> QED BY <3>2, <3>3
  <2> QED BY <2>1, <2>2, <2>4 DEF SetInv, HitInv
<1>5. CASE ReportAll \/ ReportEach \/ ReportFails
  <2>1. /\ UNCHANGED <<current, taken>> /\ due' \subseteq due
        /\ \A d \in Conns : d \in due' /\ d \in held => d \in held'
    BY <1>5 DEF ReportAll, ReportEach, ReportFails, Finish, Delivered, results
  <2>2. SetsInv'
    BY <1>1, <2>1 DEF SetInv, SetsInv
  <2>3. \A o \in Objects : Alive(o) => Alive(o)'
    BY <1>1, <2>1 DEF Alive
  <2>4. \A d \in due' : d \in Conns /\ Kept(d)
    BY <2>1 DEF SetInv, HitInv, TypeInv, TypeOK
  <2>5. \A d \in due' : Kept(d)'
    BY <1>1, <1>2, <2>1, <2>3, <2>4 DEF Kept
  <2> QED BY <2>2, <2>5 DEF SetInv, HitInv
<1> QED BY <1>3, <1>4, <1>5 DEF Report

\* A recorded hit that is not reported yet will be (RuleManager.Detect and
\* GetDetectResult): its set is under a tag, being read, or about to be stored,
\* unless a set stored back has overwritten it or its report failed.
THEOREM NoHitIsForgotten == Spec => []NoHitForgotten
<1>1. Init => SetInv
  BY DEF Init, SetInv, SetsInv, HitInv, Objects
<1>2. TypeInv /\ SetInv /\ [Next]_vars => SetInv'
  <2> SUFFICES ASSUME TypeInv, SetInv, [Next]_vars PROVE SetInv'
    OBVIOUS
  <2>1. CASE UNCHANGED vars
    <3>1. /\ UNCHANGED <<results, taken, held, due, at, hit>>
          /\ \A d \in Conns : conn'[d].set = conn[d].set
      BY <2>1 DEF vars, monitor, history
    <3> QED BY <3>1, QuietStep
  <2>2. ASSUME NEW c \in Conns, Serve(c) PROVE SetInv'
    BY <2>2, QuietServe, RecordFirstKeeps, RecordLaterKeeps, AddKeeps, StoreKeeps DEF Serve
  <2> QED BY <2>1, <2>2, QuietOthers, ReportKeeps DEF Next
<1>3. TypeInv /\ SetInv => NoHitForgotten
  <2> SUFFICES ASSUME TypeInv, SetInv, NEW c \in due, at[c] # "add", c \notin held
               PROVE  \E o \in ({current[t] : t \in Tags} \cup {taken}
                               \cup {conn[d].set : d \in {e \in Conns : at[e] = "store"}}) \ {None} :
                        hit[c] \in elems[o]
    BY DEF NoHitForgotten
  <2>1. PICK o \in Objects : Alive(o) /\ hit[c] \in elems[o]
    BY DEF SetInv, HitInv, Kept, Waits
  <2> QED BY <2>1 DEF Alive
<1> QED BY <1>1, <1>2, <1>3, TypesAlways, PTL DEF Spec
=============================================================================
