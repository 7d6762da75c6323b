# TLA+ specifications of dcgm-exporter-collector

The repository contains two programs. The **compute agent** runs on every
Compute Host of an OpenStack cloud. It asks the **Control Service** which GPU
servers (Target VMs) run on its host and over which Neutron ports they can be
reached. It attaches those ports to tenant network namespaces and scrapes the
DCGM exporter of every guest through its namespace. It serves the enriched
metrics of all guests on one `/metrics` endpoint.

These modules model the parts of the two programs whose correctness depends on
the order in which things happen: the network manager, the namespace dialer, the
HTTP transport to the guests, the scraping and serving side with the page it
serves, Host Sync between agents and Control Service as they are configured and
started, and the end of the agent. An abstract specification says what the
coordinator may expect of the network manager, and the detailed one is shown to
implement it. TLC checks small instances. TLAPS proves that refinement and every
safety property of the passing runs, for every value of the constants; the
liveness properties are model-checked only.

## 1. Inventory

### Components

| component | source | state | operations |
|---|---|---|---|
| Network manager | `pkg/network/{manager,netns,veth,ovs,command}.go` | `activeVeths`; on the host: namespaces, veth pairs, OVS ports | `ReconcileEndpoints`, `Cleanup`; each is a sequence of `ip` and `ovs-vsctl` commands |
| Namespace dialer | `pkg/transport/dialer_linux.go` | the namespace of each OS thread | `DialContext` |
| Guest HTTP transport | `pkg/transport/transport.go` | one `http.Client` per namespace name, with its pooled connections | `GetMetrics` |
| Scraper | `pkg/scraper/scraper.go` | `exporterStatus` | `ScrapeAll`, `ScrapeTarget`, `PruneTargets`, `GetStatus` |
| Telemetry server | `pkg/server/server.go` | `cachedData`, `lastScrape` | `/metrics`, `/status`, `/readyz`, `/healthz` |
| Metric enrichment | `pkg/processor/enricher.go` | none | parse, enrich, merge, encode |
| Coordinator | `pkg/coordinator/coordinator.go` | `targets`, `lastSync`, `lastError` | `SyncOnce`, `Start`, `GetTargets` |
| Sync handler | `pkg/controller/handler.go` | none of its own | `HandleSync` |
| OpenStack client | `pkg/openstack/gophercloud.go` | `flavorCache`, `subnetCache` | `DiscoverComputeVMs`, `EnsureHostPorts` |
| Configuration | `internal/config/config.go`, `internal/controlconfig/config.go` | read once at start | `Load` |
| Main programs | `cmd/*/main.go` | none | start, graceful shutdown |
| Control Service HTTPS server | `pkg/controller/server.go` | none | TLS set-up, serving |
| API types, logging, mock client | rest of `pkg/` | none | |

### Interaction

* The coordinator's loop calls `SyncOnce` at start and at every tick, so one
  sync runs at a time per agent. It posts to the Control Service, gives the
  returned endpoints to the network manager (whose error it only logs), and
  replaces `targets` under its mutex.
* Every `/metrics` request runs in a goroutine of its own. A stale cache makes
  it read `targets`, start a pool of workers for this request alone, and store
  the result. Requests share only the cache and the status map.
* Every worker dials through the transport's client of the target's namespace,
  which moves an OS thread into that namespace and back. All other goroutines
  run on the remaining threads.
* `/status` reads `targets`, prunes the status map and reads it, in three
  separate critical sections.
* The Control Service serves hosts concurrently, without a lock between the
  handlers. Neutron is the only record of which host port exists.
* There is nothing on disk. A restarted agent has an empty `activeVeths` and
  an empty target list. What it had built on the host is still there. After a
  reboot only the OVS database is.

### What is hard, and the properties it leads to

The list of hazards with their lines is in `PROJECT.json`. In short:

* *Network manager.* Any command can fail, before or after it took effect, and
  the first failure ends a reconcile. Every prefix of the command sequence is
  therefore a state that the next reconcile starts from. The removals ignore
  errors and run over the records of an older list. Correct means: a reconcile
  that returns `nil` has attached everything (`ReconcileAttachesAll`), it never
  takes apart what it was asked for (`KeepsWanted`), leftovers never make it
  fail (`OnlyFaultsFail`), no tenant address appears in the root namespace
  (`TenantAddressesConfined`), and the host converges (`ConvergesToReplaced`). Together
  this is a contract with the coordinator (`ImplementsReconciler`).
* *Namespace dialer.* Threads are shared by all goroutines, and the namespace to
  return to is read from one that is not the dial's own. Correct means: a socket
  belongs to the namespace it was dialled for (`DialedInTarget`), a thread given
  back is in the root namespace (`AlwaysInRoot`, which the code violates; what
  holds is that only a namespace which a dial took for the root one may be in
  its place: `ThreadsRestored`, `RootDialsInRoot`), and every dial returns
  (`DialsReturn`).
* *Guest transport.* Tenants may use the same addresses, idle connections
  outlive the namespace they were opened in and its name, and workers create
  clients concurrently. A target without a namespace is dialled from whatever
  thread is at hand. Correct means: a result is the target's own (`OwnAnswer`),
  no pool is orphaned (`OnePool`), connections into a namespace that is gone
  neither keep a guest failing (`Recovers`) nor the namespace alive
  (`Released`).
* *The page.* One guest's payload may be nonsense, spoof labels or clash with
  another's. Correct means: the hypervisor's labels win (`LabelsTrue`), nothing
  that parses is lost (`PageComplete`), and only a clash of types costs the
  page (`FailsOnlyOnConflict`).
* *Serving.* Requests, status polls, departing clients, deadlines and Host Sync
  interleave. Correct means: complete results (`ResultsComplete`) within the
  deadline (`RequestsMeetDeadline`), an honest cache (`CachedIsFresh`), no
  ghosts that stay (`GhostsVanish`), no handler that hangs
  (`RequestsReturn`), healthy guests that do not suffer from hanging ones
  (`FaultIsolation`), and an end of the program that cuts off no client
  (`GracefulExit`).
* *Host Sync.* Ports are found by name and created if absent, in two calls, by
  concurrent handlers that go on when their clients have given up. Correct
  means: an agent's endpoints are ports of its own host (`EndpointsBound`), one
  port per host and network (`OnePortPerNetwork`, which the code violates; what
  holds is that every port too many has a lost answer or a restart to explain
  it: `DuplicatesExplained`), targets and endpoints fit together
  (`TargetsReachable`), and a prefix length once known stays known
  (`PrefixKept`).
* *Deployment.* Settings come from three sources, any of which may hold
  nonsense; an agent may have no Control Service, or one that cannot identify
  it, and earlier lives of an agent have left handlers behind. Correct means:
  targets change only to what the host has had since the agent asked, and no
  failing sync drops one (`TargetsCurrent`), an agent that can be identified
  ends ready and with its targets attached (`AgentConverges`), and one that
  cannot, and has never synced, says so (`UnidentifiedNotReady`).

## 2. Modules

| module | models | checked by |
|---|---|---|
| `Reconciler` | the contract of a reconcile, abstract | `NMReconcile` (as `ImplementsReconciler`) |
| `NetworkManager` | network manager, kernel, OVS database | `MCNetworkManager`: `NMReconcile`, `NMLive`, `NMCleanup` |
| `NetNSDialer` | namespace dialer and the threads of the Go runtime | `MCNetNSDialer`: `Dialing`, `DialOnMain` |
| `TelemetryServer` | `/metrics`, `/status`, scraper, cache, target list, time | `MCTelemetryServer`: `TSConcurrent`, `TSEmpty` |
| `Shutdown` | `TelemetryServer` and the end of the agent | `MCShutdown`: `Shutdown` |
| `GuestTransport` | clients per namespace, idle connections, the namespaces around them | through `LiveScrape` |
| `Exposition` | enrichment, merging and encoding, as operators | through `LiveScrape` |
| `LiveScrape` | a live scrape: `GuestTransport` composed with `Exposition` | `MCLiveScrape`: `LiveScrape` |
| `HostSync` | coordinators, sync handlers, OpenStack client, Nova and Neutron | `MCHostSync`: `HSSync`, `HSOverlap` |
| `Settings` | configuration of both programs, as operators | through `Deployment` |
| `Deployment` | `HostSync` between programs as `Settings` configures them, `/readyz` | `MCDeployment`: `Deployment` |
| `NetworkManager_refines`, `*_proofs` | proofs (section 5) | TLAPS |

An operator named `X_Something` that precedes `X` and carries the comment
*Mutant* is a plausible mistake in `X`. It is not used by the specification;
`PROJECT.json` pairs it with the property that would catch it. Every property
of every passing run has one.

### NetworkManager

One action is one external command, or one step of the loops around the
commands. `pc` names the next command (`showInNS` is `ip netns exec <ns> ip
link show`, `linkAdd` is `ip link add ... type veth`, and so on). A command has
its effect and goes on, is refused by the state of the host (only `ip link
add` can be), or suffers a fault of its own. `Command`, `Query` and
`PruneCommand` say what follows: while provisioning, a fault ends the call and
leaves `activeVeths` alone; while removing, it is ignored. Both variants of a
fault, with and without the effect, are explored.

`link` holds one record per veth pair: where the host end is, MAC, addresses,
and whether both ends are up. Moving a pair to another namespace drops its
addresses and takes it down, as the kernel does. `ip addr replace` adds an
address and leaves others. Deleting the name of a namespace destroys the pair
in it, unless a pooled connection to a guest keeps the nameless namespace
alive: then the pair is `lost`, its OVS end still exists, and `ip link add` is
refused until the kernel reaps the namespace (`Reap`). `Restart` forgets the
process's memory. `Reboot` also empties the host except for the OVS database.

`desired` and `active` are Go maps keyed by interface name. They are sets of
endpoints here, one per name. The order of the list and of map iteration is
left open, so every order is explored. The mutex makes a call exclusive, and
therefore there is one `pc`. A veth pair and its namespace are named after the
same short network id, which `NSOfAssumption` states. That two networks may
share such a name is `HostSync`'s subject (`Short`).

### NetNSDialer

One action per step of `DialContext`. `LockOSThread` picks any free thread, the
initial one (`Main`) included: the Go runtime keeps no goroutine off it.
`OpenOrig` remembers the namespace of `Main`, because `/proc/self` is the thread
group leader and not the calling thread (`Note`). `Enter` moves the thread,
`Connect` opens the socket where the thread is, `Restore` moves the thread to
what `OpenOrig` had remembered, and `Unlock` stands for the deferred calls. A
failing restore panics and takes the process down (`Panic`); the next one starts
with threads in the root namespace. `Spawn` is the Go runtime cloning a new
thread from one that is not locked. `Rename` is the network manager adding and
deleting names meanwhile. `DialPlain` and `PlainConnect` are the dial without a
namespace, on whatever thread is free.

`strayed` is a history variable: the tenant namespaces that a dial of this
process has noted as the one to return to. It is what an observer of
`OpenOrig` could record, and the properties use it to say how far finding 2
reaches: nothing else, no failing call and no interleaving, puts a thread
anywhere but in the root namespace.

### TelemetryServer

Each access to shared state under a lock is one action. A `/metrics` handler
goes `idle`, `targets`, `prune`, `scrape`, `store`. While it scrapes, `queue`
is its channel, `busy` the scrapes in its workers and `spent` the time each has
taken. `Record` is `recordStatus` together with the append to the results.
`Stored` keeps the code's choice to stamp the cache with the time read at the
*start* of the handler. `EncodeError` is the text encoder refusing a metric
family without samples. `Disconnect` cancels the request's context; the
handler nevertheless runs to its end and stores its result.

`Tick` lets one unit of time pass when every handler only waits for guests.
`clock`, `cache.age` and `cache.sampled` (the age of the oldest sample in it)
are what the timeouts compare. `answer` is what the current step sends to a
client of `/metrics`; it is there for the properties.

### HostSync

One action per API call of a handler and per step of an agent. A handler works
in a `Slot`; `live` says whether its client still waits. An agent that gives up
or restarts leaves its handler behind (`Abandoned`), and the handler goes on to
its end: it searches and creates every remaining port beside the agent's next
handler, and only its answer is lost (`Reply`). That is because `HandleSync`
takes the host from the certificate and reads no body (`handler.go:132`), and
`net/http` cancels a request's context on a broken connection only once the
body has been read; the agent speaks HTTP/1.1, its transport having a TLS
configuration of its own (`coordinator.go:93`). A create request is in
`pending` while it is on its way, and may be executed at any later time, after a
failure too (`ExecuteCreate`, `CreateFails`).

`FindPort` takes the networks in the order of their ids (`Rank`, `First`) and
compares names, which contain the host and the first eight characters of the
network id (`Short`). If two networks agree in these, the second is given the
first one's port: its endpoint then has the name and the host that it should
have, and the port and subnet of another network (`Subnets`). `EndpointsBound`
says what holds in either case. A server whose flavor or ports cannot be read is
left out (`SkipServer`). A subnet that cannot be read gives the prefix length 24
(`SubnetFails`), and one that can is cached. The agent reconciles and publishes
the targets even when the reconcile failed.

The network manager is reduced to what `Reconciler` says of it: success
attaches everything asked for; failure attaches any part, and may break a
network whose port is being replaced, but none whose port is the one in place
(`Steady`); and only what is in `activeVeths` is removed, unless the command
fails.

### Reconciler

Four variables without commands, namespaces or kernel: the endpoints in place,
what the current call wants, what the last successful call of this process had
attached, and the status of the call. `Provide` may attach only what is wanted
and touches only its interfaces; `Turn` to removing is possible only when one
endpoint per interface that is wanted is in place; `Remove` touches only
interfaces of `known` that nobody wants; `Done` records only what is attached.
`NetworkManager` maps to it (`AttachedEndpoints`, `req`, `active`, `Status`).

### GuestTransport and LiveScrape

`GetMetrics` is split where another goroutine can come between: the look-up
under the read lock (`Lookup`), the creation under the write lock (`Create`),
taking an idle connection (`Reuse`) or opening the namespace by its name
(`Dial`), connecting (`Connected`, `DialFails`), and the response (`Answered`,
`Refused`, `TimedOut`). A dial is two steps because `NetNSDialer` shows that
whatever happens between them concerns the namespace that was opened, not the
name: a *space* is a name with a generation. `AddNetNS`, `Attach` and
`DeleteNetNS` are the network manager as `NetworkManager` has it, with a
deletion that may leave the space connected (its `del-port` failed). A
connection leads to the guest at its address on the network of its space. A
guest is scraped by one worker at a time, as in one live scrape.

A dial without a namespace connects wherever its thread is (`Places`): in the
root namespace, or in one in which an earlier dial has left a thread
(`strayed`). That is finding 2 as the transport meets it. `Stray` may add any
namespace in which a dial is under way, as if a second dial had read
`/proc/self/ns/net` just then; it does not ask for the second dial, which may
belong to a call that was given up and whose dial goes on, nor for the main
thread to be the one in use, so it allows at least what the code does. Only
static targets have no namespace: those that Host Sync gives are always on a
tenant network. `OwnAnswer`, `LabelsTrue` and `Recovers` say for them what is
left: the answer is the target's own or that of a guest at the same address in a
strayed namespace (`Mistaken`). For a target in a namespace they hold without
condition, since the dial enters it whatever thread it runs on.

`LiveScrape` puts a handler around it: `Begin` for any non-empty list of
targets and `Fetch`. When all calls have returned, `Merge` adds one result at a
time to `combinedFamilies` (`fams`; `merged` says whose have been added), in any
order, that of a Go map. `Answer` merges the
collector's families in and encodes the page. `page` is what the current step
sends. Merging is local to a handler; it is taken in steps because the claim is
that the order does not matter.
A payload is a set of samples with family, type and labels; `from` says who
exposed a sample, which no label can be trusted to say.

### Settings and Deployment

A setting is what flag, environment and file say, each possibly nothing. `Text`
and `ControlText` are the ways in which the two programs combine the settings
that decide whether they can sync; they differ in whether an empty string in the
file counts. `Deployment` starts agents and Control Service with any of the
given settings, again at every restart, and adds the rest of `SyncOnce`: no URL
(`NoController`), a URL nobody can build a request from (`NoRequest`), and a
Control Service that cannot identify its client (`Unauthorized`: the handshake
fails, or the answer is 401). `Recorded` is `recordSyncError` and the
assignments of `lastSync` and `lastError`, as part of the step of `HostSync`
that ends a sync.

`stayed` and `seen` are history variables for `TargetsCurrent` (`Watched`): the
GPU servers that have been on the host ever since the agent sent its request and
that its handler could read, and those that were there at any time since.

### Shutdown

`TelemetryServer` with a signal. The listener closes, handlers go on (`Exit`
waits for `Idle`), and when `ShutdownTimeout` is over the program ends anyway
and cuts off what is at work (`Gone`).

## 3. What the runs show

All runs but `Shutdown`, whose program ends, check for deadlock: none of these
systems may stop.

| run | instance | result |
|---|---|---|
| `NMReconcile` | a tenant network and an interface in the root namespace, which takes the other path through `EnsureVethPair`; the ports of both are recreated, with other MAC, with or without an IPv4 address; 2 faults, 1 restart or reboot | `TypeOK`, `ReconcileAttachesAll`, `TenantAddressesConfined`, `ExactWithoutFaults`, `KeepsWanted`, `OnlyFaultsFail`, `ImplementsReconciler` hold |
| `NMLive` | one network whose port is recreated; 2 faults, 1 restart, fair | `ConvergesToReplaced` holds |
| `NMCleanup` | as `NMReconcile`, 1 fault | `CleanupDetachesAll` is violated (finding 1) |
| `Dialing` | 2 threads, the initial one among them, 2 dials on any of them, 2 namespaces, fair | `TypeOK`, `DialedInTarget`, `ThreadsRestored`, `RootDialsInRoot`, `DialsReturn` hold |
| `DialOnMain` | 3 threads, 2 dials, 1 namespace | `AlwaysInRoot` is violated (finding 2) |
| `TSConcurrent` | a VM that answers, fails or hangs and a healthy one, 2 requests, 1 worker; scrape 2, request 3, TTL 2 | `TypeOK`, `ResultsComplete`, `CachedIsFresh`, `RequestsMeetDeadline`, `FaultIsolation` hold |
| `Shutdown` | 1 hanging VM, 2 requests, 1 status poll, a signal; scrape, request and shutdown 2, fair | `GhostsVanish`, `RequestsReturn`, `GracefulExit` hold |
| `LiveScrape` | 2 guests, on one network or with one address on two; a namespace created twice, dials that leave a thread in it, 1 fault; spoofed labels, clashing types, a name of the collector, nonsense; fair | `TypeOK`, `OnePool`, `OwnAnswer`, `LabelsTrue`, `PageComplete`, `FailsOnlyOnConflict`, `Recovers`, `Released` hold |
| `TSEmpty` | 2 VMs, 1 request, 1 poll | `AlwaysServed` is violated (finding 3) |
| `HSSync` | 2 hosts, a server on one network and one on two, whose ids agree in their first eight characters, 2 handlers; 2 moves, 1 fault or 1 restart | `TypeOK`, `EndpointsBound`, `TargetsReachable`, `DuplicatesExplained`, `PrefixKept` hold |
| `Deployment` | 1 host, 1 server on two networks, settings from all sources, 2 handlers; 2 moves, 1 fault, 1 restart, fair | `DTypeOK`, `EndpointsBound`, `TargetsCurrent`, `AgentConverges`, `UnidentifiedNotReady` hold |
| `HSOverlap` | 1 host, 2 handlers, 1 fault | `OnePortPerNetwork` is violated (finding 4) |

### Findings

1. **`Cleanup` forgets half of a failed reconcile.** The comment at
   `manager.go:105` says it removes all active pairs and ports managed by the
   instance. It loops over `activeVeths`, which an aborted `ReconcileEndpoints`
   has not updated.
2. **The namespace to restore is that of the initial thread.**
   `dialer_linux.go:60` opens `/proc/self/ns/net`. If another dial currently
   holds the initial thread in a tenant namespace, this dial "restores" its own
   thread into that tenant namespace and releases it. `/proc/thread-self/ns/net`
   would be the calling thread's. A dial without a namespace, to a static
   target, may then be made from the tenant's namespace and be answered by a
   guest there that has the same address. `ThreadsRestored` and
   `RootDialsInRoot` show that this is the only way in which a thread stays
   behind, and `OwnAnswer` that static targets are the only ones it harms.
3. **A host without targets answers `/metrics` with 500**, because the encoder
   refuses the collector's own families that have no sample.
4. **A handler whose client gave up can lead to a second port** of the same
   host and network: it goes on, and so does its create request.
   `DuplicatesExplained` shows that it takes a lost answer or a restart for each
   such port, however many handlers overlap.

### Conditions under which properties hold

Some properties are stated or instantiated with a condition that the code
does not enforce:

* `FaultIsolation` needs the hanging guests to leave time for the others:
  `(hanging \div maxWorkers) * scrape timeout < request timeout`. With the
  default scrape timeout of 3 s and the request's 10 s, a single worker is
  enough for three hanging guests and not for four. The README's promise of
  fault isolation has no such condition.
* `EndpointsBound` speaks of the name of a port, which is all that
  `findPortByNameAndHost` compares. Only if the ids of the networks differ in
  their first eight characters does the name determine the network. Where they
  do not (as in `HSSync`), the endpoint of one network has the other one's port.
  `AgentConverges` is run with ids that differ.
* `ThreadsRestored` and `RootDialsInRoot`, and for static targets `OwnAnswer`,
  `LabelsTrue`, `Recovers`, make an exception of the namespaces that a dial took
  for the root one (finding 2). `Released` makes one of the namespaces in which
  a thread has strayed: that thread keeps them alive.
* `DuplicatesExplained` bounds the ports of a name by the faults (failed calls,
  timeouts and lost answers) and restarts so far. Nobody ever deletes a port.
* `LabelsTrue` is about labels whose value the hypervisor knows: an empty value
  leaves the guest's own label in place (`enricher.go:63`).
* `FailsOnlyOnConflict` shows what remains of fault isolation when payloads
  clash: one guest whose exporter gives a common family another type, or uses a
  name of the collector, makes `/metrics` answer 500 for all.
* `OwnAnswer` needs that on one network no two guests have the same address
  (`PlacementAssumption`), which Neutron enforces.
* `TargetsCurrent` is about the targets of an agent that goes on. A restart, of
  the agent or of the Control Service, is no sync, and a new agent starts with
  its static targets.
* `UnidentifiedNotReady` is about an agent that has not synced since it started.
  One that has stays READY when the Control Service cannot identify it any more:
  `handleReadyz` (`server.go`) asks for an error *and* no sync. It and
  `AgentConverges` are about agents whose URL can be used. With a malformed URL
  no error is recorded, and `/readyz` says READY for as long as the agent lives
  (`NoRequest`).
* `GracefulExit` has one exception: a request that began in the very moment of
  the signal and whose guests hang reaches its deadline when the shutdown
  reaches its own. The 10 s of a request (`server.go:125`) are the 10 s of the
  shutdown (`main.go:85`).
* `PrefixKept` holds until something restarts: a Control Service that starts
  again has an empty `subnetCache`, and one failing call then gives an agent the
  fallback for a prefix length it had right.
* `GhostsVanish` is about the long run. One answer of `/status` can list a VM
  that was removed before the request: a scrape in flight may record its result
  between the pruning and the reading.

### Bounds, and why they are enough

* *Faults and restarts (NM).* A leftover is a prefix of the command sequence
  left by one fault. Two faults give a leftover of a repair of a leftover, and
  one restart or reboot adds the loss of `activeVeths` at any point. The proofs
  of section 5 have no bound at all.
* *Networks (NM).* Endpoints of different interfaces touch different objects,
  so two interfaces show every interaction: one is provisioned while the other
  is attached, stale, half-built or absent.
* *Threads and dials.* The violation needs two dials on two threads. `Dialing`
  has these and two namespaces, so that a thread left in one of them is locked
  and moved by a dial into the other; `DialOnMain` has a third thread. The
  proofs cover any number.
* *TS.* Two requests are the least that share the cache and the status map.
  Two VMs and one worker make a queue. The timeouts of the instance keep the
  code's order: a scrape ends before a request, and the cache lives no longer
  than a request. With one worker, the hanging guest leaves the healthy one
  behind it just the time that `FaultIsolation` asks for. In `Shutdown` the
  scrape timeout equals the request's: one hanging guest stands for a queue of
  them that lasts until the deadline, and the shutdown has the same time as the
  request, like the code's 10 s and 10 s.
* *LiveScrape.* Two guests are the least that share a network, an address, a
  family or a client. A namespace that is created twice gives connections into
  its predecessor. One fault is enough for a connection that is given up while
  everything works. One handler at a time: handlers share nothing but the
  clients, and `GuestTransport_proofs` covers any number of workers.
* *Deployment.* For every kind of setting there is a source that sets it, one
  that does not, and one that sets what makes no sense; `Settings` treats all
  settings of one kind alike. Two slots hold the handler of an agent and one
  that it, or its earlier life, has abandoned. A server that starts, stops or
  comes back in between takes two moves.
* *HS.* `HSSync` has a fault, or a restart that takes the place of it and of a
  move (its constraint `OneTrouble`); `Deployment` has all of them. Two handlers
  are the least that overlap. Two hosts let a server's port be confused with
  that of another host. An abandoned handler holds its slot until it ends; with
  both taken, the next sync waits, as a slow one would. `MaxPorts` exceeds the
  number of creates that can happen in `HSSync` (two names on two hosts and one
  more after a fault) and in `Deployment`. `DuplicatesCounted` has no bound.

Symmetry is used in safety runs only (`TSConcurrent`, `HSSync`, `DialOnMain`),
over values that no definition or bound tells apart.

### Fairness

* `NetworkManager.FairSpec`: weak fairness of the commands (each ends by its
  timeout, `command.go`), of `Sync` (the coordinator's ticker) and of `Reap`
  (idle connections are closed). What `Released` gives for `Reap` is less: it is
  about namespaces that are no longer connected and in which no thread has
  strayed. A nameless namespace that is still connected, because `del-port`
  failed, may be kept alive by scrapes that go on reusing its connections, and
  one with a strayed thread for as long as the thread is not used again; for
  these the fairness of `Reap` is an assumption, and `ConvergesToReplaced` holds
  under it. None is assumed of which list is asked for:
  `ConvergesToReplaced` is conditional on Host Sync asking for one list from some time
  on. The bound on faults is what makes them stop.
* `NetNSDialer.FairSpec`: weak fairness of a dial on its thread (it has a
  timeout), and strong fairness of getting a thread: it may be free and taken
  again infinitely often, and the scheduler serves waiting goroutines in turn.
* `Shutdown.SFairSpec`: weak fairness of the handlers and polls, and of the
  program's end. `Pass` is strongly fair because time passes whatever handlers
  do: a step of a handler may disable it in the model, but no real handler can
  by computing for ever stop the clock. Somebody asks for `/status` as long as
  the program serves. None of the signal.
* `LiveScrape.LFairSpec`: weak fairness of `GetMetrics` (every wait in it has a
  timeout), of the handler (`Merge` and `Answer`), of Prometheus asking again,
  and of the closing of each idle connection (`IdleConnTimeout`). None of the namespaces around
  it: `Recovers` is conditional on a network that stays attached.
* `Deployment.DFairSpec`: weak fairness of the ticker, whatever a sync comes
  to, of the handlers, the agents' steps and Neutron. None of moves, faults and
  restarts, which are bounded.

## 4. Abstract specifications and composition

* `Reconciler` is the contract of `ReconcileEndpoints` and `Cleanup`: make
  before break, nothing touched that is not this process's, and `activeVeths`
  replaced only by a list that is attached. `NetworkManager` implements it
  (`ImplementsReconciler`), checked in `NMReconcile` and proved in
  `NetworkManager_refines`. `HostSync`'s `Reconcile` and `ReconcileFails` are
  its calls that end in "ok" and in "error", with interfaces reduced to
  networks.
* `LiveScrape` uses `GuestTransport` only as that module allows
  (`UsesTransport`), and `Deployment` does nothing that `HostSync` does not
  (`KeepsProtocol`). What is proved of the parts therefore holds of the
  compositions.
* `GuestTransport` takes from `NetNSDialer` that a dial ends in the namespace
  it opened (`DialedInTarget`), and one without a namespace in the root
  namespace or in one that a dial left a thread in (`RootDialsInRoot`; its
  `strayed` is `NetNSDialer`'s, by generation). It gives `NetworkManager` that a
  nameless namespace nobody is connected to is reaped in the end (`Released`).
  This is by prose, not by refinement.

## 5. Proofs

`NetworkManager_proofs` proves, for any set of interfaces, namespaces, ports,
addresses and endpoints and for any bounds:

* `TypeCorrect`, `ReconcileCorrect` (`ReconcileAttachesAll`), `Confinement`
  (`TenantAddressesConfined`), `RepairsLeftovers` (`OnlyFaultsFail`),
  `SteadyEndpoints` (`KeepsWanted`) and `NoLeftovers` (`ExactWithoutFaults`).

`ReconcileAttachesAll` is not inductive: it says nothing until a call returns.
`Inv` adds what has been established on the way. `Ladder` says which parts of
the current endpoint the commands before `pc` have put in place (a half-built
one may have more). `DesiredAttached` says that what is recorded in `desired`
stays attached, except for an endpoint that shares the interface of the one in
progress. `Covered` says that every interface asked for is recorded, in
progress or to do. `StaleApart` says that the removals concern other
interfaces. `PlacesOK` says that a pair is only ever in its own namespace, in
the root namespace, lost or absent. Since a command changes one interface
(`Local`), the other endpoints are framed by `NSOfAssumption`: different
interfaces have different namespaces. The two action properties follow from
`Inv` command by command.

`ExactWithoutFaults` needs a second invariant, because `Inv` only says what is
there and never what is not. `Tidy` says, as long as nothing has failed or
restarted, of every interface which of three it is (`Neat`): `Whole`
(complete), `Bare` (nothing of it), or in hand, and then how far `pc` has come
in building it or taking it down (`Half`). `Kept` is the set of those that must
be whole: at rest what `active` records, while provisioning that and what has
been provided, while removing what `desired` records and what is still to be
removed. Since the removals ignore errors, this is where a command that takes
no effect would leave something behind for good.

`NetworkManager_refines` proves `KeepsPromise` (`ImplementsReconciler`) from
the same `Inv`: every command maps to a step of `Reconciler` or to a stutter. A
command that makes an endpoint attached is the last one it lacked, and `cur` is
wanted; one that breaks an endpoint concerns the interface of `cur`, and if
`cur` is being provided, `Ladder` says that only an endpoint that shares its
interface can have been attached.

`NetNSDialer_proofs` proves, for any number of threads, dials and namespaces and
whichever threads dials run on, `TypeCorrect` and `DialsTarget`
(`DialedInTarget`): a locked thread belongs to one dial (`Owned`), so nobody
moves it between `Enter` and `Restore` (`InTarget`). `Restored`
(`ThreadsRestored`) and `RootDials` (`RootDialsInRoot`) rest on the invariant
`Home`. It says that every free thread is in the root namespace or a strayed one
and every remembered namespace is one of these, and of the initial thread that
it is in the root namespace unless a dial has moved it, and that the dial which
has moved it remembers `root`: it read its own namespace.

`TelemetryServer_proofs` proves `TypeCorrect`, `CompleteResults`
(`ResultsComplete`), `FreshAnswers` (`CachedIsFresh`), `Deadlines`
(`RequestsMeetDeadline`) and `GuestsIsolated` (`FaultIsolation`) for any number
of VMs, requests, polls and workers, any timeouts and any behaviour of the
guests. Its invariant says that a target of a scraping request is in the
channel, in a worker or done, in exactly one of them (`Accounted`), that
nothing is left over outside `ScrapeAll` (`Quiet`), and that the age of the
cache is the age of its oldest sample (`Stamped`). `FaultIsolation` is a bound
on the time a target waits in the channel, and its invariant an account of that
time in rounds of `ScrapeTimeout`. Time passes only while every worker is busy
with a guest that hangs. So in round `p + 1` at least `(p + 1) * Workers`
hanging guests are over or in a scrape that began before the round (`Rounds`),
and since no guest is scraped twice there are at most `hanging \div Workers`
rounds (`Delay`) before a healthy guest is taken (`InTime`); it then fails only
if the deadline has passed, which the hypothesis excludes (`NoBlame`).
`VMsAssumption` (the set of VMs is finite) is what lets hanging guests be
counted.

The same module proves what `Shutdown` adds. Until the program ends it takes
only steps of `TelemetryServer`, so all four promises hold to the end
(`KeptToTheEnd`). No handler begins after the signal, hence those at work are
at least as old as the shutdown (`Older`), and by `RequestsMeetDeadline` none
is older than a request may get: that is `GracefulEnd` (`GracefulExit`), under
the hypothesis `RequestTimeout <= ShutdownTimeout`, which the code's constants
meet.

`HostSync_proofs` proves, for any hosts, servers, networks, ids, handlers,
moves, faults and restarts, `TypeCorrect`, `TargetsAttached`
(`TargetsReachable`), `EndpointsOwned` (`EndpointsBound`), `PrefixesKept`
(`PrefixKept`) and `DuplicatesCounted` (`DuplicatesExplained`).

`HandlerOK` follows a handler, abandoned or not: the port it awaits is in
Neutron or on its way, the networks of the targets it found are done, in hand or
to do. `AgentOK` carries this into the response and through the reconcile.
`OneWaits` is what makes the agent's loop an exclusion: a handler with a waiting
client is the only such one of its host. `UniqueIds` and `AwaitApart` are needed
because a create that fails may withdraw a request, which must be the handler's
own.

For `PrefixesKept`, `Prefixes` says until the first restart that every list of
endpoints is `Truthful` (a /24 always has the right length, and another network
only when Neutron gave it, so that it is in the cache) and that what a waiting
handler has formatted is no worse than what its agent has (`NotWorse`). When an
agent reconciles, `OneWaits` excludes a second waiting handler of its host that
was compared with the older list.

`DuplicatesCounted` is a counting argument. Of each host and shortened id,
`Counted` adds up the ports in Neutron or on their way (`Class`) and the handlers
that may yet create one (`Makers`: they have searched in vain, or there is no
port yet and they may get to it), and says that this is at most the number of
faults and restarts, and one more if there is a first port or a handler with a
waiting client that is to create it (`Covered`). A request adds a maker only
while no port is visible, and is itself the cover. A handler that is abandoned
takes the cover with it, and the fault or restart that did it raises the bound
by the one port that it may still make. Once there is a port, a search finds it,
and later syncs add nothing. The sums are cardinalities: `SlotsAssumption` says
that the handlers at one time are finitely many.

`GuestTransport_proofs` proves `TypeCorrect`, `ConnectionsOwned` (`OnePool`)
and `OwnAnswers` (`OwnAnswer`) for any guests, names, addresses, placements and
payloads. Its invariant says that a worker's client is the one that the map has
for its target's namespace, and that a connection in hand or in the pool leads
into a space where its client may have connected (`Where`): one of its name, or,
without a name, the root namespace or a strayed one. With the address and
`PlacementAssumption` that leaves one guest to answer, or those of `Mistaken`,
which only grows (`MistakenGrows`), so that an answer accounted for when it came
in stays accounted for. `LiveScrape_proofs` carries this to a live
scrape (`UsesTransport`, `PageOfOwnAnswers`, `PageOfOwnConnections`). It then
proves of the page, for any guests, payloads, labels and order of the results,
`LabelsAuthoritative` (`LabelsTrue`), `PagesComplete` (`PageComplete`) and
`ErrorsExplained` (`FailsOnlyOnConflict`). The invariant of the merging loop
(`Loop`) says that the families so far are well formed (all samples of a family
have its name, and one has its type) and hold exactly the enriched samples of
the results merged so far (`Gathered`); `MergeFormed` is what `MergeFamilies`
does to two sets of families, whatever they hold. `ResultsAssumption` says what
the parser makes of a payload: samples of that guest, and none if it does not
parse.

`Deployment_proofs` proves that programs keep to `HostSync` whatever their
settings are (`KeepsProtocol`), hence `ConfiguredEndpointsOwned`
(`EndpointsBound`) and `ConfiguredTargetsAttached` (`TargetsReachable`), the
types (`DTypeCorrect`) and `TargetsFollow` (`TargetsCurrent`). For the last one
the invariant follows an answer from the request to its publication. While the
handler of a waiting client reads servers, each one that has stayed is found, to
do, or has left `stayed` because it was skipped, and what is found or to do has
been seen (`TraceOK`); the response keeps that relation (`AnswerOK`). `OneWaits`
of `HostSync_proofs` says that it is this handler, and no abandoned one, whose
response the agent applies.

The assumptions are the `ASSUME`s of the modules (types of the constants, the
naming of namespaces after interfaces, distinctness of special values) and the
hypotheses stated in a theorem. TLC evaluates each `ASSUME` in every run of its
module.

Only model-checked are the liveness properties (`ConvergesToReplaced`,
`DialsReturn`, `GhostsVanish`, `RequestsReturn`, `Recovers`, `Released`,
`AgentConverges`, `UnidentifiedNotReady`): TLAPS has no rules for `ENABLED` and
fairness that its installed backends can use. Of the four properties that the
code violates, `DuplicatesCounted` and `Restored` prove what remains of two, and
`NoLeftovers` says that a third needs a failure.

## 6. Not modelled

* *Time in a live scrape*: the deadlines and the worker pool are in
  `TelemetryServer`, the connections in `LiveScrape`; no module has both.
  `GetMetrics` there simply may time out.
* *Two handlers scraping one guest at once* in `GuestTransport`: they share
  nothing but the client and its pool, where each takes a connection of its
  own. `maxIdleConns` and `MaxIdleConnsPerHost` are left out too: a connection
  that is not kept is one that is closed (`Answered` may do either).
* *Defaults of timeouts, sizes and counts* (`config.go`): the constructors
  replace what is not positive. The modules take these numbers as constants.
* *Truncated payloads*: a body of more than `maxBytesRead` is cut without an
  error. It is a payload like any other, or one that does not parse; no property
  would notice that it was cut.
* *The Control Service's* `/readyz` (one call to OpenStack), its mock mode, its
  graceful end, and the options of its OpenStack session (of which the project
  domain is read and never used, `controlconfig/config.go:107`): no state that
  could be related to another.
* *Starts that fail* (an unreadable file, a bad certificate): the program ends.
  A *listener that fails* is only logged (`main.go:74`).
* `SetAllowInsecureTLS`, `SetTargets`, `PortExists`: for tests, or without a
  caller.
* The matching of flavor extra specs: a server is or is not a GPU server. The
  flavor cache saves calls and changes no result but which of them can fail.
* API types, logging and the mock OpenStack client: data and test doubles.
* `dialer_other.go`, which only refuses namespaces outside Linux.

Some hazards are in the modules and no property covers them, because nothing in
the repository says what ought to happen (the `note` of each in `PROJECT.json`):
an address that a port no longer has stays on its interface (`veth.go:124`), a
removal that fails is forgotten (`manager.go:95`), a poll with an older list
prunes a live entry until its next scrape (`scraper.go:67`), a client that
leaves caches a page of failures for the TTL (`server.go:125`), a label that the
hypervisor does not know stays the guest's (`enricher.go:63`), and an agent with
a malformed URL is READY (`coordinator.go:130`).

## 7. Plan

Done, in this order: `NetworkManager`, `NetNSDialer`, `TelemetryServer` and
`HostSync` with their proofs; `Reconciler` and its refinement;
`GuestTransport`, `Exposition` and `LiveScrape`; `Settings` and `Deployment`;
`Shutdown`.

What could follow:

1. `HostSync` with interfaces instead of networks, so that its `Reconcile` and
   `ReconcileFails` can be shown to be calls of `Reconciler`. The two are
   related by prose only (section 4).
2. An abstract specification of `/metrics` (a client gets a page that is
   complete, no older than the TTL, by the deadline) that `TelemetryServer`
   implements; its invariants are the parts of such a refinement.
