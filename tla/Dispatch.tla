------------------------------ MODULE Dispatch ------------------------------
(***************************************************************************)
(* The dispatcher (app/mydispatcher) and the rule manager (common/rule).   *)
(* Each connection is taken through the limiter, the sniffer, the hosts    *)
(* table, the audit rules and the choice of an outbound in a goroutine of  *)
(* its own. A hit of a rule is recorded in a set that the connections of a *)
(* tag share and that userInfoMonitor takes away to report it, while       *)
(* nodeInfoMonitor replaces rules, tag and outbound.                       *)
(*                                                                         *)
(* The sets are objects: a goroutine may hold one that is no longer, or    *)
(* once more, the value under its tag.                                     *)
(***************************************************************************)
EXTENDS Naturals, Sequences, FiniteSetsExt

CONSTANTS
  Conns,        \* connections; each is dispatched once
  Users, Tags, Dests,
  RuleIds, Local,   \* rules of the panel, and the ID of those of the local file
  RuleLists,    \* the rule lists the panel may publish
  Clients,      \* how the panel client reports hits
  ConfigDefault, \* whether the configuration of the core brings an outbound
  NoUser, None, \* a connection without a user, no value
  MaxChunks, MaxDetours, MaxReloads, MaxUpdates, MaxFaults   \* bounds for model checking

Rule == [id : RuleIds \cup {Local}, dests : SUBSET Dests]
Pair == Users \X RuleIds       \* api.DetectResult
Objects == Conns               \* the sets, each named after the connection that made it
\* One request for all hits, one for each, or none at all.
ClientKinds == {"batch", "each", "none"}

ASSUME DispatchAssumption ==
  /\ RuleLists \subseteq SUBSET Rule /\ Clients \subseteq ClientKinds
  /\ ConfigDefault \in BOOLEAN /\ NoUser \notin Users /\ Local \notin RuleIds
  /\ None \notin Users \cup Tags \cup Dests \cup RuleIds \cup Conns \cup {NoUser, Local}

VARIABLES
  client,
  tag,          \* Controller.Tag
  outbounds,    \* tags with an outbound
  default,      \* ohm's default handler: that of the configuration, a tag's, or none
  rules,        \* RuleManager.InboundRule
  current,      \* RuleManager.InboundDetectResult: the set under a tag
  elems,        \* what the sets hold
  at,           \* each connection's next step
  conn,         \* the locals of its goroutine
  pipe, cache, got,   \* payload in the uplink pipe, in the cachedReader, read by the handler
  ended,        \* the two pipes of the link: closed or interrupted
  mpc, taken, batch,  \* userInfoMonitor: the set it took, the hits it reports
  hit,          \* the hit of each connection, history from its recording on
  due,          \* history: connections whose hit was recorded and is not reported yet,
                \* nor overwritten by a set stored back, nor in a report that failed
  held,         \* history: those whose hit is in the batch
  sent, detours, reloads, updates, faults   \* budgets spent

core == <<client, tag, outbounds, default>>
results == <<current, elems>>
stream == <<pipe, cache, got, sent>>
monitor == <<mpc, taken, batch, held>>
history == <<hit, due>>
budgets == <<detours, reloads, updates, faults>>
vars == <<core, rules, results, at, conn, stream, ended, monitor, history, budgets>>

\* User, tag, ob.Target, ob.RouteTarget, the destination the rules see; the set
\* loaded; history: the destinations that some list of its time allowed.
ConnInfo == [user : Users \cup {NoUser}, tag : Tags, target : Dests,
             route : Dests \cup {None}, dest : Dests, set : Objects \cup {None},
             spare : SUBSET Dests]
ASSUME NoneAssumption == None \notin ConnInfo
Steps == {"new", "sniff", "record", "add", "store", "route", "served", "closed"}

TypeOK ==
  /\ client \in Clients /\ tag \in Tags /\ outbounds \subseteq Tags
  /\ default \in Tags \cup {"config", None}
  /\ rules \in [Tags -> SUBSET Rule]
  /\ current \in [Tags -> Objects \cup {None}] /\ elems \in [Objects -> SUBSET Pair]
  /\ at \in [Conns -> Steps] /\ conn \in [Conns -> ConnInfo \cup {None}]
  /\ pipe \in [Conns -> Seq(Nat)] /\ cache \in [Conns -> Seq(Nat)] /\ got \in [Conns -> Seq(Nat)]
  /\ ended \in [Conns -> SUBSET {"up", "down"}]
  /\ mpc \in {"idle", "iterate", "send"} /\ taken \in Objects \cup {None}
  /\ batch \subseteq Pair /\ held \subseteq Conns /\ hit \in [Conns -> Pair \cup {None}]
  /\ due \subseteq Conns
  /\ sent \in [Conns -> Nat] /\ detours \in Nat /\ reloads \in Nat
  /\ updates \in Nat /\ faults \in Nat

Init ==
  /\ client \in Clients /\ tag \in Tags /\ outbounds = {tag}
  /\ default = IF ConfigDefault THEN "config" ELSE tag
  /\ rules \in {[t \in Tags |-> IF t = tag THEN l ELSE {}] : l \in RuleLists}
  /\ current = [t \in Tags |-> None] /\ elems = [o \in Objects |-> {}]
  /\ at = [c \in Conns |-> "new"] /\ conn = [c \in Conns |-> None]
  /\ pipe = [c \in Conns |-> <<>>] /\ cache = pipe /\ got = pipe
  /\ ended = [c \in Conns |-> {}]
  /\ mpc = "idle" /\ taken = None /\ batch = {} /\ held = {}
  /\ hit = [c \in Conns |-> None] /\ due = {}
  /\ sent = [c \in Conns |-> 0]
  /\ detours = 0 /\ reloads = 0 /\ updates = 0 /\ faults = 0
-----------------------------------------------------------------------------
Allowed(list) == Dests \ UNION {r.dests : r \in list}

Goto(c, l) == at' = [at EXCEPT ![c] = l]
\* The goroutine returns: to the handler its link was handed to, ...
Serving(c) == Goto(c, "served") /\ conn' = [conn EXCEPT ![c] = None] /\ UNCHANGED ended
\* ... or after common.Close of the writer and common.Interrupt of the reader.
Terminate(c) ==
  /\ Goto(c, "closed") /\ conn' = [conn EXCEPT ![c] = None]
  /\ ended' = [ended EXCEPT ![c] = {"up", "down"}]
\* A step of a connection that changes nothing the others see.
Own == UNCHANGED <<core, rules, results, monitor, reloads, updates, faults>>

\* Dispatch with getLink: the limiter may turn the user away, and then all four
\* ends of the link are closed. DispatchLink brings a link of its own and asks
\* no limiter. ob.Target is the destination asked for.
Dispatch(c) ==
  /\ at[c] = "new"
  /\ \/ \E u \in Users \cup {NoUser}, d \in Dests :
          /\ conn' = [conn EXCEPT ![c] =
               [user |-> u, tag |-> tag, target |-> d, route |-> None, dest |-> d,
                set |-> None, spare |-> Allowed(rules[tag])]]
          /\ Goto(c, "sniff") /\ UNCHANGED ended
     \/ Terminate(c)
  /\ UNCHANGED <<stream, history, detours>> /\ Own

PayloadOnly == UNCHANGED <<at, conn, ended, history, detours>> /\ Own

\* The client writes, and goes on writing while its link is dispatched.
ClientWrite(c) ==
  /\ at[c] # "new" /\ "up" \notin ended[c]
  /\ MapThenSumSet(LAMBDA d : sent[d], Conns) < MaxChunks
  /\ sent' = [sent EXCEPT ![c] = @ + 1]
  /\ pipe' = [pipe EXCEPT ![c] = Append(@, sent'[c])]
  /\ UNCHANGED <<cache, got>> /\ PayloadOnly

\* cachedReader.Cache: what is in the pipe is moved to the cache.
Cache(c) ==
  /\ at[c] = "sniff" /\ pipe[c] # <<>>
  /\ cache' = [cache EXCEPT ![c] = @ \o pipe[c]] /\ pipe' = [pipe EXCEPT ![c] = <<>>]
  /\ UNCHANGED <<got, sent>> /\ PayloadOnly

\* All of buf's chunks move from one place to another.
Read(c, buf) == buf[c] # <<>> /\ got' = [got EXCEPT ![c] = @ \o buf[c]]

\* Faulty variant: the handler reads the pipe before the cache.
ReadPipeFirst(c) ==
  /\ at[c] = "served"
  /\ \/ Read(c, pipe) /\ pipe' = [pipe EXCEPT ![c] = <<>>] /\ UNCHANGED cache
     \/ /\ pipe[c] = <<>> /\ Read(c, cache)
        /\ cache' = [cache EXCEPT ![c] = <<>>] /\ UNCHANGED pipe
  /\ UNCHANGED sent /\ PayloadOnly

\* cachedReader.ReadMultiBuffer, called by the handler.
ReadMultiBuffer(c) ==
  /\ at[c] = "served"
  /\ \/ Read(c, cache) /\ cache' = [cache EXCEPT ![c] = <<>>] /\ UNCHANGED pipe
     \/ /\ cache[c] = <<>> /\ Read(c, pipe)
        /\ pipe' = [pipe EXCEPT ![c] = <<>>] /\ UNCHANGED cache
  /\ UNCHANGED sent /\ PayloadOnly
-----------------------------------------------------------------------------
(* The destination, and RuleManager.Detect.                                *)

\* What the fake DNS sniffer finds: the domain that an address stands for.
FakeDNS == [protocol : {"fakedns"}, domain : Dests]
\* What the others find in the payload: HTTP, TLS, QUIC, BitTorrent, UTP.
Content == [protocol : {"content"}, domain : Dests]

\* The domain replaces the target, or, if the inbound says RouteOnly, just what
\* the router sees; but nobody could dial the address of a fake DNS.
Override(i, r) ==
  {[i EXCEPT !.dest = r.domain, !.target = r.domain]} \cup
    IF r.protocol = "fakedns" THEN {} ELSE {[i EXCEPT !.dest = r.domain, !.route = r.domain]}
\* sniffer and shouldOverride: nothing was found or wanted, or a domain was.
Sniffed(i) == {i} \cup UNION {Override(i, r) : r \in FakeDNS \cup Content}
\* Faulty variant: the hosts table maps the target behind the rules' back.
MapTarget(i) == {i} \cup {[i EXCEPT !.target = d] : d \in Dests}
\* The hosts table may map the destination.
Mapped(i) ==
  {i} \cup IF i.route = i.dest THEN {[i EXCEPT !.dest = d, !.route = d] : d \in Dests}
           ELSE {[i EXCEPT !.dest = d, !.target = d] : d \in Dests}

Matches(i) == {r \in rules[i.tag] : i.dest \in r.dests}

\* Faulty variant: hits of the local file are recorded too.
RecordsAll(r) == TRUE
Records(r) == r.id # Local

\* Sniffing ends, the destination is final and meets the rules of the tag. The
\* first rule of the list that matches counts, whichever it is, and ends the
\* link, at once if it is of the local file, whose hits are not recorded.
Detect(c) ==
  /\ at[c] = "sniff"
  /\ \E s \in Sniffed(conn[c]) : \E i \in Mapped(s) :
       /\ IF s = conn[c] /\ i = s THEN UNCHANGED detours
          ELSE detours < MaxDetours /\ detours' = detours + 1
       /\ \/ /\ i.user = NoUser \/ Matches(i) = {}
             /\ Goto(c, "route") /\ conn' = [conn EXCEPT ![c] = i] /\ UNCHANGED <<ended, hit>>
          \/ /\ i.user # NoUser
             /\ \E r \in Matches(i) :
                  IF ~Records(r) THEN Terminate(c) /\ UNCHANGED hit
                  ELSE /\ Goto(c, "record") /\ conn' = [conn EXCEPT ![c] = i]
                       /\ hit' = [hit EXCEPT ![c] = <<i.user, r.id>>] /\ UNCHANGED ended
  /\ UNCHANGED <<stream, due>> /\ Own

RecordOnly == UNCHANGED <<core, rules, stream, monitor, hit, budgets>>

\* LoadOrStore of a set with the hit.
Record(c) ==
  /\ at[c] = "record" /\ due' = due \cup {c}
  /\ LET t == conn[c].tag IN
       IF current[t] = None
         THEN /\ current' = [current EXCEPT ![t] = c]
              /\ elems' = [elems EXCEPT ![c] = {hit[c]}] /\ Terminate(c)
         ELSE /\ conn' = [conn EXCEPT ![c].set = current[t]]
              /\ Goto(c, "add") /\ UNCHANGED <<current, elems, ended>>
  /\ RecordOnly

\* Add to the set that was loaded: a known hit needs nothing more.
Add(c) ==
  /\ at[c] = "add"
  /\ LET o == conn[c].set IN
       /\ IF hit[c] \in elems[o] THEN Terminate(c)
          ELSE Goto(c, "store") /\ UNCHANGED <<conn, ended>>
       /\ elems' = [elems EXCEPT ![o] = @ \cup {hit[c]}]
  /\ UNCHANGED <<current, due>> /\ RecordOnly

\* Faulty variant: the set is not stored back.
StoreNothing(c) ==
  /\ at[c] = "store" /\ Terminate(c) /\ UNCHANGED <<results, due>> /\ RecordOnly

\* Store of the set: a set that another connection has made since is gone.
Store(c) ==
  /\ at[c] = "store" /\ Terminate(c)
  /\ LET t == conn[c].tag
         o == conn[c].set
     IN /\ current' = [current EXCEPT ![t] = o]
        /\ due' = IF current[t] \in {None, o} THEN due
                  ELSE due \ {d \in due : hit[d] \in elems[current[t]] \ elems[o]}
  /\ UNCHANGED elems /\ RecordOnly

RouteOnly == UNCHANGED <<stream, history, detours>> /\ Own

\* Faulty variant: a link without an outbound is left open.
RouteOrLeave(c) ==
  /\ at[c] = "route"
  /\ IF conn[c].tag \in outbounds \/ default # None THEN Serving(c)
     ELSE Goto(c, "closed") /\ UNCHANGED <<conn, ended>>
  /\ RouteOnly

\* routedDispatch: the forced outbound or the router's; a forced one that does
\* not exist ends the link. Otherwise the outbound with the inbound's tag, else
\* the default one, else none.
Route(c) ==
  /\ at[c] = "route"
  /\ \/ Serving(c)
     \/ Terminate(c)
     \/ IF conn[c].tag \in outbounds \/ default # None THEN Serving(c) ELSE Terminate(c)
  /\ RouteOnly

Serve(c) == Dispatch(c) \/ Detect(c) \/ Record(c) \/ Add(c) \/ Store(c) \/ Route(c)
Payload(c) == ClientWrite(c) \/ Cache(c) \/ ReadMultiBuffer(c)
-----------------------------------------------------------------------------
(* userInfoMonitor: GetDetectResult and ReportIllegal.                     *)

MonitorOnly ==
  UNCHANGED <<core, rules, at, conn, stream, ended, hit, detours, reloads, updates>>

\* LoadAndDelete of the set of the controller's tag.
Take ==
  /\ mpc = "idle" /\ current[tag] # None
  /\ mpc' = "iterate" /\ taken' = current[tag] /\ current' = [current EXCEPT ![tag] = None]
  /\ UNCHANGED <<elems, batch, held, due, faults>> /\ MonitorOnly

\* The iterator reads the set under its lock.
Iterate ==
  /\ mpc = "iterate" /\ mpc' = "send" /\ taken' = None
  /\ batch' = elems[taken] /\ held' = {c \in due : hit[c] \in elems[taken]}
  /\ UNCHANGED <<results, due, faults>> /\ MonitorOnly

\* One hit of the batch has reached the panel, or the pass is over: nothing is
\* kept of a report, even if it failed halfway.
Delivered(p) ==
  /\ batch' = batch \ {p} /\ held' = {c \in held : hit[c] # p} /\ due' = due \ (held \ held')
  /\ UNCHANGED mpc
Finish == mpc' = "idle" /\ batch' = {} /\ held' = {} /\ due' = due \ held

ReportAll ==
  /\ mpc = "send" /\ client # "each" /\ Finish
  /\ UNCHANGED <<results, taken, faults>> /\ MonitorOnly
ReportEach ==
  /\ mpc = "send" /\ client = "each"
  /\ (batch = {} /\ Finish) \/ \E p \in batch : Delivered(p)
  /\ UNCHANGED <<results, taken, faults>> /\ MonitorOnly
ReportFails ==
  /\ mpc = "send" /\ client # "none" /\ faults < MaxFaults /\ faults' = faults + 1 /\ Finish
  /\ UNCHANGED <<results, taken>> /\ MonitorOnly

Report == Take \/ Iterate \/ ReportAll \/ ReportEach \/ ReportFails
-----------------------------------------------------------------------------
(* nodeInfoMonitor.                                                        *)

NodeOnly ==
  UNCHANGED <<client, results, at, stream, ended, monitor, history, detours, faults>>

\* UpdateRule replaces the list of the tag.
UpdateRule ==
  /\ updates < MaxUpdates /\ updates' = updates + 1
  /\ \E l \in RuleLists \ {rules[tag]} : rules' = [rules EXCEPT ![tag] = l]
  /\ conn' = [c \in Conns |->
       IF conn[c] # None /\ conn[c].tag = tag
         THEN [conn[c] EXCEPT !.spare = @ \cup Allowed(rules'[tag])] ELSE conn[c]]
  /\ UNCHANGED <<tag, outbounds, default, reloads>> /\ NodeOnly

\* A reload removes the outbound of the old tag, ...
RemoveOutbound ==
  /\ tag \in outbounds /\ reloads < MaxReloads /\ reloads' = reloads + 1
  /\ outbounds' = {} /\ default' = IF default = tag THEN None ELSE default
  /\ UNCHANGED <<tag, rules, conn, updates>> /\ NodeOnly

\* ... and adds that of the new one, which becomes the default if there is none.
AddOutbound ==
  /\ outbounds = {} /\ tag' \in Tags /\ outbounds' = {tag'}
  /\ default' = IF default = None THEN tag' ELSE default
  /\ UNCHANGED <<rules, conn, updates, reloads>> /\ NodeOnly

Node == UpdateRule \/ RemoveOutbound \/ AddOutbound

Next == (\E c \in Conns : Serve(c) \/ Payload(c)) \/ Report \/ Node
\* A goroutine that can run does, and the monitor's passes follow each other.
Spec == Init /\ [][Next]_vars /\ WF_vars(Report) /\ \A c \in Conns : WF_vars(Serve(c))
-----------------------------------------------------------------------------
\* A link that is handed to an outbound goes nowhere that the rules of its tag
\* forbade during all of its dispatch ("Check if domain and protocol hit the
\* rule"), unless the sniffer changed only what the router sees.
RulesEnforced ==
  [][\A c \in Conns :
       at[c] # "served" /\ at'[c] = "served" /\ conn[c].user # NoUser /\ conn[c].route = None
         => conn[c].target \in conn[c].spare]_vars

\* A dispatched link is handed to an outbound or terminated in both directions,
\* never left open with nobody at its other end, whatever a reload has removed.
NoDanglingLink == \A c \in Conns : at[c] = "closed" => ended[c] = {"up", "down"}

\* The outbound gets the payload from the first byte on and in order, whatever
\* the sniffer has read ahead.
PayloadInOrder ==
  \A c \in Conns : got[c] \o cache[c] \o pipe[c] = [i \in 1..sent[c] |-> i]

\* A recorded hit that is not reported yet will be: it is in the set under a
\* tag, in one that is being reported or that some goroutine will store, or is
\* about to be added to one; unless a set stored back has overwritten its own,
\* or its report failed.
NoHitForgotten ==
  LET alive == {current[t] : t \in Tags} \cup {taken}
                 \cup {conn[c].set : c \in {d \in Conns : at[d] = "store"}}
  IN \A c \in due : at[c] = "add" \/ c \in held \/ \E o \in alive \ {None} : hit[c] \in elems[o]

\* Every hit is reported in the end, unless it is lost as above or the node was
\* reloaded: the sets of an old tag are never taken.
HitReported == \A c \in Conns : c \in due ~> c \notin due \/ reloads > 0
=============================================================================
