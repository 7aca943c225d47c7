# XrayR: a TLA+ model of the node controller and what it works with

XrayR embeds an xray core and keeps it in step with a *panel*: for each
configured node a controller pulls the node's settings, its user list and its
audit rules over HTTP, applies them to the running core, limits the users'
devices and speed, and reports traffic, devices and rule hits back. This
directory models the parts of that program where an order of steps nobody tested
can go wrong, checks them with TLC on small instances and proves the most
important results with TLAPS. Paths are relative to the repository, line
numbers to this commit.

## 1. Inventory

| Component | State | Operations | Interacts with | Modules |
|---|---|---|---|---|
| Node controller: start, node monitor; `service/controller/{controller,control,node_reload}.go` | `nodeInfo`, `Tag`, `userList`, the periodic tasks | `Start`, `nodeInfoMonitor`, `certMonitor`, `Close` | panel client, xray managers, limiter, rule manager | `NodeSync`, `NodeService` |
| Node controller: user monitor | `limitedUsers`, `warnedUsers` | `userInfoMonitor` | xray's stats, limiter, rule manager, panel client | `UserMonitor` |
| Panel clients, `api/*` (8 of them) | `eTags`, the kept node document, `LastReportOnline` | `GetNodeInfo`, `GetUserList`, `GetNodeRule`, four reports | the panel, over HTTP | `NodeSync`, `SharedDevices`, `UserMonitor`, `Dispatch` |
| Limiter, `common/limiter` | per tag: `UserInfo`, `BucketHub`, `UserOnlineIP`, `NodeSpeedLimit`; a map in redis | `GetUserBucket`, `GetOnlineDevice`, `CleanupInactive`, `AddInboundLimiter`, `UpdateInboundLimiter`, `UpdateNodeSpeedLimit`, `DeleteUsers`, `DeleteInboundLimiter` | every connection; both monitors; other nodes | `Limiter`, `SharedDevices` |
| Rule manager, `common/rule` | `InboundRule`, `InboundDetectResult` | `UpdateRule`, `Detect`, `GetDetectResult` | every connection; both monitors | `Dispatch` |
| Dispatcher, `app/mydispatcher` | links, payload read ahead, traffic counters | `getLink`, `Dispatch`, `DispatchLink`, `routedDispatch`, sniffing | limiter, rule manager, xray's outbounds and stats | `Dispatch`, `UserMonitor` |
| Panel and process, `panel`, `cmd/root.go` | the core, the services | `Start`, `Close`, hot reload | all controllers | `Lifecycle` |
| Certificates, `common/mylego` | certificate, key, account files | obtain, renew, save | `certMonitor`, the inbound builder | `Lifecycle` |
| Config builders, metrics, server status, command line, audit routing, default config | two counters; none | - | - | see section 6 |

The hard behaviours, and for each component what makes it correct:

* **Node controller.** One pass of `nodeInfoMonitor` is up to twenty calls to
  four other parts, each of which may fail, with early returns between them and
  the panel changing meanwhile. Correct means: a reload leaves nothing of the
  old configuration behind; the listener, the users, the limiter and the
  controller's own record agree between passes; users in both lists are not
  disturbed; nothing is reloaded needlessly; what the panel publishes ends up
  being served.
* **Panel clients.** An ETag is stored when an answer arrives, long before it
  is applied. Correct means: 304 really says there is nothing to do.
* **Limiter.** Every connection and both monitors meet in `sync.Map`s without
  a common lock, and several nodes in one map in redis. Correct means: at most
  `DeviceLimit` devices within a window, limits in force are those set last, a
  known device is not forgotten, nobody below the limit is refused.
* **User monitor.** Reads counters, reports, then resets them, while
  connections add to them and the other monitor replaces `Tag` and `userList`.
  Correct means: traffic is billed once, none disappears but where the code
  gives it up, automatic limits come when earned and can be lifted again.
* **Dispatcher, rule manager.** Each connection runs in goroutines of its own
  against both monitors. Correct means: no forbidden destination is reached,
  payload keeps its order, no link is left open with nobody behind it, each hit
  is reported.
* **Process, certificates.** Crashes and hot reloads cut passes short or leave
  them running. Correct means: certificate and key belong together, are renewed
  in time, edits take effect, the process comes up again.

`PROJECT.json` lists every component, and under `hazards` each place in the code
that is hard to test, with the properties that cover it.

## 2. Modules

| Module | Content |
|---|---|
| `NodeSync`, `MCNodeSync` | `Start` and `nodeInfoMonitor` with the panel, the client's ETags, the xray managers, the limiter entry and the rule list |
| `NodeService` | what a controller promises to those it serves; `NodeSync` implements it |
| `UserMonitor`, `MCUserMonitor` | `userInfoMonitor` with counters, connections, reports and a changing user list |
| `Dispatch`, `MCDispatch` | a connection's way through the dispatcher, and the rule manager |
| `Limiter`, `MCLimiter` | one user's limiter state under concurrent connections, sweeps and updates |
| `SharedDevices`, `MCSharedDevices` | one user's device limit on several nodes: the panel's count, the map in redis |
| `Lifecycle`, `MCLifecycle` | the process, hot reload, and the certificate its nodes share |
| `NodeSyncInvariant` | the inductive invariant of `NodeSync` |
| `NodeSyncProofs`, `NodeSyncServiceProofs` | type correctness, the control state and the reload; the service |
| `NodeServiceProofs` | that `NodeSync` implements `NodeService` |
| `UserMonitorProofs` | the account of the traffic, and the automatic limits |
| `DispatchProofs` | payload, links, rules and hits |
| `LimiterProofs` | the limiter's types, and its promises when calls do not overlap |
| `SharedDevicesProofs` | the map in redis, and the panel's count |
| `LifecycleProofs` | the certificate's pair, its renewal, and the configuration in force |

The modules meet where the code does: `NodeSync` produces the limiter entry, the
users and the tag that `UserMonitor`, `Limiter`, `SharedDevices` and `Dispatch`
take as changing under them (`Sync`, `Administer`, `Apply`, `Node`), and
`UserMonitor` has the passes whose sweep, device report and hit report are steps
of `Limiter` (`Sweep`), `SharedDevices` (`BeginReport`) and `Dispatch` (`Report`).

### NodeSync

Each call that leaves the controller is one step, so a panel change or a crash
may come between any two. `pc` names the next call; `booting` tells `Start`
from the monitor, whose passes share their calls.

| Variables | In the code |
|---|---|
| `nodeInfo`, `tag`, `userList` | the fields of `Controller` |
| `newNode`, `nodeChanged`, `newUsers`, `usersChanged`, `oldTag`, `reloaded` | locals of `nodeInfoMonitor` |
| `k` | which of the up to four handler calls of `removeOldTag`, `addNewTag` is next |
| `etagNode`, `etagUsers`, `etagRules`, `resp` | `eTags` and the kept answer of the client (`resp`, `ConfigResp`) |
| `inbound`, `shapeOf`, `accepts`, `outbound` | xray's managers: handlers per tag and part, the transport each was built with, its users |
| `limiter`, `nodeLimit`, `userLimits`, `ruleOf` | the entries of the limiter and of the rule manager |
| `panelNode`, `panelUsers`, `panelRules` | what the panel publishes |

Data are reduced to what the code tells apart. A node is its tag, its *shape*
(every other field `requiresInboundReload` compares) and its speed limit. A user
is an `id` (email and uid, which name it everywhere) and a `ver` (all its other
fields, which `compareUserList` compares too). A handler is absent, up, or
*dead*: xray registers a handler before it starts it, so a socket that cannot be
opened leaves a registered handler that serves nobody. A version stands for its
own ETag.

The eight panel clients fall into six kinds:

| Kind | Clients | ETags | Rules | Port 0 | Empty user list |
|---|---|---|---|---|---|
| `v2board` | newV2board, xboard | yes | in the node document | refused by the client | refused, after its ETag was stored |
| `v2raysocks` | v2raysocks | yes | in a document that every request replaces, failed ones by nil | ends the monitor | accepted |
| `sspanel` | sspanel | yes | a third request with an ETag of its own | ends the monitor | accepted |
| `bunpanel` | bunpanel | yes | the local file only | ends the monitor | accepted |
| `gov2panel` | gov2panel | no | a third request | refused by the client | accepted |
| `plain` | pmpanel, proxypanel | no | a third request | ends the monitor | accepted |

Faults: `node`, `users`, `rules` are failed requests; `build` a failed config
builder or `CreateObject`; `listen` a socket that cannot be opened; `adduser`
an account xray refuses, which stops `addUsers` after some of the users.
In `Start` a failure panics and the process starts over.

### NodeService

The controller without its machinery: at most one configuration is listened
for, a socket opens only for the node being applied (`Open`) and closes only for
one that differs from it (`Close`) or with the process (`Crash`); users are
admitted from the list being applied, in one version each (`Admit`), and nobody
that both lists name is put out (`Evict`). The refinement maps `listeners` to the
main inbounds that are up and `admitted` to the users they accept.

### UserMonitor

One step per user of `getTraffic`, per counter of `resetTraffic`, per try of the
report; `GetOrRegisterCounter` of xray takes two. `counter` holds the registered
counters by tag and user, `conns` what became of the counter each connection
holds: it may be registered, unregistered since (`orphan`), or never have been
obtained (`uncounted`). `billed` is what the panel has added up, `metered` what
`metrics.Collector` has. A user's traffic is a number of bytes, a byte any
amount; `Fast` is the configured speed as traffic per period. The other monitor
takes part with what this one can see: it deletes and adds users, replaces the tag
and the limiter entry, then the list (`Sync`).

The account is kept per counter, that is for a user under a tag. Three things the
code gives up are history variables, so that the properties can say that nothing
else is: `dropped` (added between reading and reset, or to a counter nobody
reads), `repeated` (reports that arrived without an answer), `leftover` (a counter
may hold traffic of an earlier period: its report failed, or a reload has
brought back an earlier tag; or a list has brought back an earlier copy of a user,
whose warnings are still there).

### Dispatch

A connection goes `new`, `sniff`, `record`, `add`, `store`, `route` and ends
`served` or `closed`; the three steps in the middle are the map and set
operations of `Detect`. Sets of hits are objects, named after the connection that
made them, since a goroutine may store one back after the monitor has taken it.
The payload is a sequence of chunks that moves between pipe, cache and handler.
What the sniffers find, what the hosts table maps and what the router picks are
choices. Two of a reload's steps, those that take away and bring an outbound, are
here because `routedDispatch` looks for it.

### Limiter

One step per `Load`, `Store`, `Delete` of a `sync.Map`; a `Range` visits the
addresses one at a time in any order, and deleting an expired one is a step
after reading it. `pc[p]` and `loc[p]` are the goroutine's next step and its
locals. The map of addresses is an object of its own (`seen[o]`), since a
connection may hold one that a sweep has just unlinked (`online`). One user
suffices: no call relates two users, and replacing the inbound's entry replaces
everything. `Serial` chooses whether calls may overlap. A bucket is its rate;
loading a bucket and setting its rate are one step, as both act on the same
object.

### SharedDevices

Copies of one user's addresses: with the panel (`alive`), in the answer a node
waits for, in its `LastReportOnline` (`last`), in its limiter (`online`), in its
cache, in redis and on their way there (`pushes`, one per `pushIP` goroutine).
`globalLimit` reads a copy and pushes another; the chain of caches writes first
the node's, then redis. The key of a map contains the limit, so nodes with
different limits do not share one, and the model keeps one map per limit. What
happens inside one node's limiter is atomic here: its races are `Limiter`'s.

### Lifecycle

The process is down, starting or up. `Panel.Start` starts one node after the
other, each of which obtains the certificate or loads it; `certMonitor` of each
renews it, in a goroutine that a hot reload does not wait for (`<<n, "old">>`). A
crash at any step may leave half of the file that was being written. Time is
counted in periods of `certMonitor`, each of which runs in every period. All
nodes here share one domain, and the part of the configuration that changes is
the account's email, the only one that meets the files. `failed` (the nodes whose
`certMonitor` came to nothing in this period) and `missed` (the periods since the
certificate was written in which every node's did) are history.

## 3. Runs

| Run | Bounds | Properties |
|---|---|---|
| `NodeSyncCore` | all client kinds, all faults; 2 panel changes, 2 faults, 1 crash; nodes of three tags, two shapes, two speeds; lists of up to two users in two versions; 1 rule | `TypeOK`, `NoStrayHandler`, `InboundHasShape`, `Settled`, `LimitedUnlessAdding`, `KeptUsersStay`, `NoNeedlessReload`, `ImplementsService` |
| `NodeSyncLive` | 2 panel changes, 1 failed node request, 1 crash; kinds without a rule ETag | `EtagIsApplied`, `Converges` |
| `NodeSyncEtag` | 1 change, 1 failed user request | **violated**: `EtagIsApplied` |
| `NodeSyncRules` | sspanel, 1 change, no fault | **violated**: `RulesFollowTag` |
| `NodeSyncConfig` | v2raysocks, 1 change, 1 failed node request | **violated**: `ConfigAtHand` |
| `UserMonitor` | 1 user in 2 versions, 2 tags, 2 connections, 2 bytes, 1 list change or reload, 1 failed try | `TypeOK`, `NeverBilledTwice`, `Accounted`, `MeteredOnce`, `LimitIsRemembered`, `LimitedIfFast` |
| `DispatchHits` | 3 connections, 2 users, 1 tag, a panel's and a local rule, 1 rule change, 1 detour, 1 failed report | `TypeOK`, `NoHitForgotten`, `RulesEnforced` |
| `DispatchLinks` | 2 connections, 2 tags, 2 chunks, 1 reload, 1 failed report, hits sent one by one | `PayloadInOrder`, `NoDanglingLink`, `HitReported` |
| `LimiterSerial` | calls do not overlap; 3 connections, 2 addresses, 2 limit changes or deletions, 1 sweep, times 0 to 2 | `TypeOK`, `DeviceLimit`, `LimitsAsApplied`, `BucketFollows`, `OnlineKept`, `KnownDeviceAdmitted` |
| `LimiterRace` | 2 goroutines, 3 addresses, 4 connections, times 0 to 2 | `OvershootBounded` |
| `SharedDevices` | 2 nodes, 3 addresses, limits of 1 and 2, 2 pending writes, 1 fault, both mechanisms | `TypeOK`, `GlobalMapBounded`, `RefusedOnlyIfOver`, `LimitWithinPanel`, `ReportedUserKept` |
| `Lifecycle` | 2 nodes on one domain, 2 emails, a life of 2 periods, 1 crash, 1 refusal of the CA, 1 edit | `TypeOK`, `PairMatches`, `Unexpired`, `ConfigApplied`, `ComesUp`; no deadlock |

**NodeSync.** `NoStrayHandler`: everything registered with xray is under `Tag`,
whatever call of a reload failed. `InboundHasShape`: a registered inbound has the
transport of `nodeInfo`; soft updates never let the two drift apart. `Settled`:
between passes xray's users, the limiter and `userList` name the same users with
the same limits and all handlers are up. `LimitedUnlessAdding`: a user xray
accepts has the panel's limits, except in the two windows the code has between
`addNewUser` and the limiter call. `KeptUsersStay`: a hot update never takes away
a user both lists name. `NoNeedlessReload`: a listener goes down only in a crash
or for a change of tag or shape. `ImplementsService`: the refinement.
`EtagIsApplied`: an ETag the client sends is the version the controller has
applied. `Converges`: what the panel publishes is served, again and again.
`Settled` and `LimitedUnlessAdding` exempt a process in which a builder, a
socket or an account failed (`damaged`): after such a failure the code has no
way back but a restart, which the hazards record.

**UserMonitor.** `NeverBilledTwice`: the panel bills no more than was carried,
but for reports whose answer was lost. `Accounted`: what is not billed is in a
registered counter or was given up in a way the code has. `MeteredOnce`: metrics
count nothing twice until a report fails. `LimitIsRemembered`: every automatic
limit in force is in `limitedUsers`, so a later pass can lift it. `LimitedIfFast`:
a user is limited only after more than `WarnTimes` fast periods in a row, as long
as counters start every period at zero and nobody gets back an earlier copy.

**Dispatch.** `RulesEnforced`: no link is served to a destination that the rules
of its tag forbade throughout its dispatch. `NoHitForgotten`: a recorded hit is in
a set that will be taken, unless its set was overwritten by one stored back late.
`HitReported`: so it is reported in the end. `PayloadInOrder`: the outbound gets
every chunk once and in order, whatever was read ahead. `NoDanglingLink`: a link
without an outbound is closed at both ends.

**Limiter.** `DeviceLimit` (an address that was not admitted within the window is
let in only while fewer than the limit were, whatever changes of the limit, sweeps
and expiries came before), `LimitsAsApplied` (limits in force are those set last), `BucketFollows`
(the bucket has the rate of the limits in force), `OnlineKept` (an address admitted
within the window is still known after a sweep), `KnownDeviceAdmitted` (such an
address is not rejected), all when calls do not overlap. With overlapping calls
none of them holds: two first connections from two addresses both pass a limit of
one (`limiter.go:303`), and a connection that read the user's limits before an
update writes them back (`limiter.go:288`). `OvershootBounded` says how far the
first of these can go: fewer devices than the user's largest limit plus the
connections in flight. It exempts a user that was deleted, whose open connections
are not limited any more, and a map from which an address expired while a
connection counted or stored one (the history `dropped`). Without the second
exemption it is false: a connection finds its address, a sweep deletes it, another
connection counts the map without it and stores its own, and the first stores the
address again; TLC reaches three devices under a limit of one with two connections.

**SharedDevices.** `GlobalMapBounded`: no copy of the map ever holds more than
one address above its limit, however copies cross. `RefusedOnlyIfOver`: a user
with no more addresses than the limit is never turned away. `LimitWithinPanel`: a
list that counts what the node has reported never raises its limit above the
user's own; one that exceeds it already can only come down. `ReportedUserKept`: a node drops a user only if its last report
does not name the user.

**Lifecycle.** `PairMatches`: certificate and key belong together unless two
savings overlapped or one was cut short. `Unexpired`: the certificate expires
only after as many periods as the margin in which every node has tried to renew
it and failed, refused by the CA or without a registered account; crashes,
reloads and edits alone never make it expire. `ConfigApplied`: an edit is in force
unless its event came within three seconds of a reload. `ComesUp`: the process
comes up again after any crash, unless the crash left files no start gets past.

**Bounds.** Two panel changes make every pair of kinds of change follow each
other (speed, shape, tag, to and from a plugin node, to port 0, a user added,
removed or changed in place, the empty list); two faults make one call fail
during the recovery from another; one crash suffices, as a restart forgets
everything but files, and one of the latter is being written at a time by each of
the goroutines. In `UserMonitor` no property relates two users; two connections
give the race of two registrations and one that outlives its counter, two bytes
one before and one after a reading. In `Dispatch` the overwriting of a set takes
three connections. In the limiter a third address makes the overshoot bound (two,
for a limit of one and two goroutines) exceedable, and time passes one window. In
`SharedDevices` three addresses exceed a limit of one by two, and two nodes give
every crossing of a read and a write. All `Max...` constants only stop the
environment; `MaxMaps` equals `MaxCalls`, so it never blocks a call. Runs disable
the deadlock check because the system rightly stops when those are spent, and a
monitor that returned an error stops for good; `Lifecycle` goes on for ever and
has it enabled.

**Fairness.** `NodeSync.FairSpec`: weak fairness of the controller's `Step`, as
each call returns (HTTP requests have a timeout, the others do not block) and
`task.Periodic` runs the monitor again after each pass that returned nil.
`Dispatch`: of each connection's dispatch, whose goroutine the Go scheduler runs,
and of the monitor's report; nothing is asked of the client or of its payload.
`Lifecycle`: of the restart (`install.sh` installs a unit with `Restart=always`),
of `Panel.Start` and of the goroutines at work on the certificate. Nothing is
asked of the panel, of administrators, of the CA or of crashes. `NodeSyncLive`
leaves out failed user requests, a published port 0, the empty list and sspanel,
because with any of them convergence is lost: `NodeSyncEtag` and `NodeSyncRules`
show two of them.

**Findings.** (1) A user request that fails after a successful node request
drops the node's change until the panel changes it again. (2) After a reload to
another tag, an sspanel node has no audit rules until the panel changes them.
(3) A failed node request leaves v2raysocks without the document
`GetNodeRule` reads unchecked, so a later pass panics. `PROJECT.json` quotes the
lines.

## 4. Proofs

Proved for every value of the constants that meets the assumptions named in the
modules (the tags, the panel's nodes and lists, that a list names a user once,
that `None` is none of the values; finite sets of addresses, of
connecting goroutines and of a process's nodes):

| Theorem | Statement |
|---|---|
| `TypeCorrect` | `Spec => []TypeOK` |
| `ReloadLeavesNothing` | `Spec => []NoStrayHandler` |
| `ListenerMatchesNode` | `Spec => []InboundHasShape` |
| `ReloadOnlyIfRequired` | `Spec => NoNeedlessReload` |
| `SettledCorrect` | `Spec => []Settled` |
| `LimitedCorrect` | `Spec => []LimitedUnlessAdding` |
| `KeptUsersKeepService` | `Spec => KeptUsersStay` |
| `EtagsAreApplied` | `UsersAnswered` implies `Spec => [](~damaged => EtagIsApplied)` |
| `ControllerImplementsService` | `Spec => ImplementsService` |
| `UserMonitorTypes` | `Spec => []TypeOK` of `UserMonitor` |
| `NothingBilledTwice` | `Spec => []NeverBilledTwice` |
| `NothingLost` | `Spec => []Accounted` |
| `NothingMeteredTwice` | `Spec => []MeteredOnce` |
| `LimitsAreRemembered` | `Spec => []LimitIsRemembered` |
| `LimitsAreDeserved` | `Spec => LimitedIfFast` |
| `DispatchTypes` | `Spec => []TypeOK` of `Dispatch` |
| `PayloadKeepsOrder` | `Spec => []PayloadInOrder` |
| `NoLinkLeftOpen` | `Spec => []NoDanglingLink` |
| `RulesAreEnforced` | `Spec => RulesEnforced` |
| `NoHitIsForgotten` | `Spec => []NoHitForgotten` |
| `LimiterTypes` | `Spec => []TypeOK` of `Limiter` |
| `SerialLimits` | `Serial` implies `Spec => []LimitsAsApplied` |
| `SerialBucket` | `Serial` implies `Spec => []BucketFollows` |
| `SerialOnline` | `Serial` implies `Spec => []OnlineKept` |
| `SerialKnown` | `Serial` implies `Spec => KnownDeviceAdmitted` |
| `SerialDeviceLimit` | `Serial` implies `Spec => DeviceLimit` |
| `RacesAreBounded` | `Spec => []OvershootBounded` |
| `SharedDevicesTypes` | `Spec => []TypeOK` of `SharedDevices` |
| `MapsStayBounded` | `Spec => []GlobalMapBounded` |
| `NobodyRefusedEarly` | `Spec => []RefusedOnlyIfOver` |
| `LimitsStayWithin` | `Spec => LimitWithinPanel` |
| `ReportedUsersStay` | `Spec => ReportedUserKept` |
| `LifecycleTypes` | `Spec => []TypeOK` of `Lifecycle` |
| `PairStaysTogether` | `Spec => []PairMatches` |
| `EditTakesEffect` | `Spec => []ConfigApplied` |
| `CertificateStaysValid` | `Spec => []Unexpired` |

**NodeSync.** None of these is inductive by itself: what holds between passes
depends on what each call found. `NodeSyncInvariant` says what is known at each
`pc`, in layers that are proved in this order.

* `ControlInv`: which locals are set where, and that both lists name a user
  once. With `TypeOK` it is inductive (`NodeSyncProofs`).
* `HandlerInv`: `NoStrayHandler`, `InboundHasShape`, and what a reload has
  removed so far. It needs no exemption for failures, since a reload that
  fails while removing keeps the tag and the next one fails again at once
  (`NodeSyncProofs`).
* `ServingInv`, unless `damaged`: which users xray and the limiter know at
  each step of a pass. The heart is the hot path: after `removeUsers` exactly
  the users of both lists are left, so adding the new ones cannot clash, and the
  limiter follows through the same two sets (`NodeSyncServiceProofs`).
* `EtagInv`, unless `damaged`: the node and the users that the client's ETags
  stand for are what the run has in hand, fetched or in force. It rests on
  `ServingInv` for the steps that then cannot fail, and on `UsersAnswered`: no
  request for the users fails, and no client is answered with a list it refuses.
  A run that ends there has stored the ETag of a node it drops (finding 1).

The action properties follow from the invariant at the only steps that take a
handler or a user away. TLC has checked the invariant on the instance of
`NodeSyncCore`.

**The refinement** (`NodeServiceProofs`) adds to `HandlerInv` that the tag under
which a pass adds handlers is that of the node it applies (`TargetInv`) and that
no user is accepted in two versions (`VersionInv`), damaged or not: xray refuses a
second user of the same email, and a failed removal leaves the first. Each step
of `NodeSync` then is one of `NodeService` or leaves listeners and users alone.

**UserMonitor.** `Ledger` balances the books of one counter at every step of a
pass: what was carried, billed, metered and dropped, the counter's value, and the
part of it that the pass has read (`Read`) or that was unregistered while it was
under way (`Cut`). It is a statement about one counter at a time, so no sums over
users are needed; the first three properties are parts of it between two steps.
`PassFits` and `ConnsFit` say which locals of the pass and of a connection are
set where. `RememberInv` adds to `LimitIsRemembered` the users the pass under way
is about to limit, and that a tag without a limiter entry limits nobody. `LimitedIfFast` rests on two facts
that hold while nothing is `leftover`: a counter holds no more than was carried
since it was last read (`FreshInv`), and a user has no more warnings than fast
periods in a row behind it (`WarnedInv`).

**Dispatch.** `ControlInv` ties a connection's place to its locals. The payload's
order is an equation: what the outbound has, what the sniffer holds and what is in
the pipe, joined, are the first chunks the client wrote. `RulesHold`: what the rules
are shown is what is dialled, unless the sniffer changed only what the router sees,
and every version of the rules since the dispatch began has left what it allows in
`spare`. For the hits, `HitInv` names who will deliver each one: a
connection about to add it, the monitor that keeps it for its report, or a set that
is *alive*: stored under a tag, about to be, or being read; `SetsInv` says that a
set is empty until its maker has recorded its hit.

**Limiter.** The types hold however calls overlap. The promises are proved for
`Serial`, where `SerialInv` holds: at most one goroutine is inside a call
(`Alone`), and what it has read is what is there. `Shared` is about the state
between steps: the limits are the controller's but while it writes them, the
bucket has their rate, and an address that was admitted is in the map or its time
is past for every call in progress (`Known`). `Fits` says what the goroutine in
the middle of a call knows: the keys a range has visited are swept, the count is
no less than the addresses counted, the limits it holds are in force. The device
limit then is a comparison of two finite sets. The theorems need no bound on time,
calls, changes or sweeps, and any number of limits; what overlapping calls do to
them is in section 3. `RacesAreBounded` needs no `Serial`. Its invariant looks at a
map that holds as many addresses as the limit: its addresses, and the goroutines
that may still add one (`Storing`: what they counted and have yet to count leaves
room, or they are about to store), together stay below the limit plus the number of
goroutines. The goroutine that fills the map is done, and no goroutine that begins
to count a full map finds room; one that is late loses its place as it adds to it.
The order in which racing connections counted does not matter.

**SharedDevices.** `MapInv` says of every copy of the map, in redis, in a cache
and on its way, that it holds at most one address above its limit and, where the
panel hands out the limit itself, only addresses that connected. A copy is extended
only if the one that was read is not above the limit, so the bound survives any
crossing of writes; and a copy above the limit then shows as many addresses as it
takes to refuse somebody. `Counts` follows one node's numbers: what its last report
named, what the panel has counted of it and what the answer under way says of that,
and that no node keeps more addresses than its limit. Both action properties are
about the one step that applies a list, which computes a limit from these.

**Lifecycle.** `PairMatches` speaks of the moments between savings; `PairInv` adds
that, as long as no two savings overlapped and none was cut short, at most one
goroutine, of the running controllers or of those closed before, has written its
certificate and not its key, and that the certificate on disk is the one it
holds. `IdInv` ties a goroutine's place to whether it has a certificate,
`ConfigInv` extends `ConfigApplied` to a process that is starting. That a new
pair can always be told from the others (`NumberLeft`) is a counting argument
over the finitely many goroutines. `RenewFits` bounds the age of a certificate: no
period passes below the margin without either a missed one or a renewal, and a
goroutine that came to renew a certificate and has not failed is still at it
(`StartsFit` does the same for the start of the process). Nothing is assumed of
how often the process crashes, is edited or refused: the bounds are any numbers.

TLC has checked each of these invariants on an instance at least as large as its
run's: `UserMonitor`'s also with two list changes and one connection, `Lifecycle`'s
with two edits and two refusals, `Limiter`'s with two goroutines, three changes,
two sweeps and times up to 3.

Only model-checked: `Converges`, `HitReported` and `ComesUp` (liveness, out of this
prover's reach).

## 5. What the code gives up

The exemptions in the properties are the places where the program loses something
by design or by oversight; each is a hazard in `PROJECT.json` with its line.
Traffic: what is added between `getTraffic` and the reset, to a counter
unregistered under an open connection, or by the loser of a registration race.
Billing: reports that arrive unanswered are sent again. Hits: those of a set that
another goroutine overwrites, of a failed report, of a tag given up in a reload.
Limits: the windows before the limiter knows a user; racing connections.
Certificates: savings that overlap, half-written files, accounts of a new email.
Configuration: an event within three seconds of a reload.

## 6. Not modelled, and why

Parsing and the xray JSON (pure functions of one answer); how the sniffers read
the first bytes and how long they wait; the rate writer (no state of its own); the
metrics exporter, server status and `ReportNodeStatus` (readings that nothing in
the program depends on); ACME itself (a remote service, which may refuse);
`DisableGetRule` and the monitors' initial delay (they remove or postpone steps);
audit routing, the default configuration and the command line (pure construction at
start); certificate modes `file` and `none`.

## 7. Plan

1. Compose `UserMonitor` with `NodeSync` through the limiter entry, to state
   that an automatic limit ends for a user the panel keeps (liveness).
2. An abstract `DeviceLimiter` with atomic admission, implemented by `Limiter`
   when calls are serial.
