# devmesh in TLA+

devmesh gives local services stable addresses. Producers (processes, manual
registrations, Docker containers) register a backend under a name; consumers
connect to a frontend, a TCP port or an HTTP hostname, that stays the same while
backends come and go. This directory holds TLA+ models of the daemon, of its
parts and of its clients, the TLC configurations that check them on small
instances, and TLAPS proofs for every value of their constants.

Paths below are relative to the repository root.

## The system

| Part | Code | State | Operations | What makes it hard |
|---|---|---|---|---|
| Registry | `internal/registry` | map name -> record | create or replace if owned, clear if still the producer, find by hostname | removals arrive for publications that were replaced |
| Lease manager | `internal/lease` | map registration ID -> entry | add, renew, delete, take expired | heartbeats race the expiry and the sweeper |
| Daemon | `internal/daemon` | the above, mutex `mutate`, HTTP routes | register, heartbeat, delete, sweep, forget container, shut down | only part of the operations take the mutex |
| Frontend allocation | `internal/runtime/{manager,allocator}.go` | map name -> listener | ensure a runtime, shut down | other processes bind ports, state writes fail, the daemon dies |
| State store | `internal/state` | remembered ports, `dirty`, `state.json` | load, set port, save | memory and file may differ |
| Service runtime | `internal/runtime/service.go` | accept loop, semaphore, connection table, wait group | accept, begin and end a proxy, close, wait | shutdown races the accept loop |
| TCP proxy | `internal/proxy/tcp.go` | two copying goroutines | dial, copy, half-close, return | the two directions end independently |
| HTTP router | `internal/proxy/http.go` | map host -> route | set, serve | host names are normalised twice |
| Client library | `pkg/devmesh` | registration handle, heartbeat loop | register, heartbeat, re-register, close | calls are lost, delayed, answered late |
| API | `internal/api`, `internal/transport` | none | seven routes, three of which change state | |
| Docker watcher | `internal/dockerwatch/watcher.go` | tracked containers, event stream | reconcile, handle event, reconnect | everything Docker says may be outdated |
| Docker inspection | `internal/dockerwatch/{labels,inspect}.go` | none | parse labels, choose a binding | one port may be published at several addresses |
| Daemon command | `cmd/devmeshd`, `internal/transport/unix.go` | socket path, state file, proxy addresses | start, serve, stop | processes that start and stop at the same time, stale sockets, handlers that never return |
| Command-line client | `cmd/devmesh` | none | list, inspect, resolve, register, doctor | waiting for a service |
| Configuration | `internal/config` | none | validate | limits |

How they interact: a client handle calls the API over a Unix socket; the handlers
call the daemon; the daemon takes its mutex, checks the registry, gets a frontend
from the runtime manager (which allocates a port and stores it), writes the
record, installs a route and adds a lease. The sweeper and the Docker watcher run
as goroutines of the daemon. Every frontend runs its own accept loop, which asks
the registry for the current backend of each connection.

The properties that make these parts correct:

- *Registry, leases, daemon.* A producer whose heartbeats are acknowledged is
  published. A publication ends when its producer does, and for no other
  cause. A name keeps its identity. A hostname leads to its service.
- *Frontends.* A name keeps its port, across restarts too; ports are not shared;
  a running service's port is on disk.
- *Clients.* A running producer is published again after any fault; a closed or
  crashed one is forgotten.
- *Docker.* Once containers settle, the registry agrees with them; failing calls
  do not make a container disappear; nothing that the LAN can reach is published.
- *Consumers.* A request goes to a backend of the service it names; `resolve`
  ends, and prints endpoints that are served.
- *Processes.* A daemon that serves is the one clients reach and owns its
  addresses; a restart keeps the port assignments; a stop ends.
- *Connections.* Bytes arrive in order and complete; slots are not leaked;
  shutdown reaches every connection.

## Modules

| Module | Models | Notes |
|---|---|---|
| `Registry` | the registry's methods | one step each: they run under `Registry.mu` |
| `LeaseManager` | the lease manager's methods | an entry carries the time left; `left = 0` is expired |
| `StableFrontends` | what the runtime manager promises | abstract specification |
| `Daemon` | `registerLocked`, renewal, removal, expiry, restart | composes the three above |
| `StateStore` | `state.Store` | the file is replaced atomically or not at all |
| `Frontends` | `EnsureTCPRuntime`, `Allocate`, `try` over `StateStore` | implements `StableFrontends` |
| `Clients` | `pkg/devmesh` and the API handlers | extends `Daemon` and implements it |
| `Consumers` | `Router.ServeHTTP`, the loop of `services resolve`, `handleResolve` | extends `Daemon` with its readers |
| `Inspection` | `ParseLabels`, `OwnerKey`, `RegistrationFromInspect` | pure operators |
| `DockerWatcher` | `dockerwatch.Watcher` with the registry, over `Inspection` | Docker itself is the environment |
| `ServiceRuntime` | accept loop, workers, `Manager.Shutdown` | one frontend |
| `DuplexStream` | what a proxied connection promises | abstract specification |
| `TcpProxy` | one call of `proxy.TCP` | implements `DuplexStream` |
| `Serve` | `devmeshd serve`: `Run`, `Validate`, `New`, `transport.Listen`, `Shutdown` | several processes, one socket path |
| `MC*` | instances for TLC | constants that a configuration cannot write |
| `*Proofs` | theorems | for `Daemon`, `Clients`, `Consumers`, `DockerWatcher`, `Frontends`, `ServiceRuntime`, `TcpProxy`, `Serve` |

Definitions have the names of the functions they model where there is one;
`PROJECT.json` gives the source lines of each. Operators named "Mutant" in their
comment are wrong versions of the definition that follows them; none is used by a
specification. Substituting one must violate the property it is paired with.

### Daemon

`registering` is the registration that holds `Daemon.mutate`, so it is empty
exactly when the mutex is free. A registration goes through `Register` (all
checks, the choice of an ID, the retirement of a replaced lease),
`EnsureTCPRuntime`, `Publish`, `SetRoute` and `AddLease`; heartbeats, the lease
half of a deletion and `TakeExpired` may come between any two of these. `deleting`
and `sweeping` hold removals that gave up their lease and wait for the mutex. A
request that fails a check changes nothing and is therefore a stuttering step.

`dropped` records history: leases that a late heartbeat deleted. No guard reads
it.

Owner keys: the API never passes one; the Docker callbacks do, and so do
in-process callers (`integration/tcp_proxy_test.go:289` replaces a manual
registration this way). The instances use both kinds.

A hostname is spelled as a label, in brackets or not, followed by a space, dots and
a port or not, because that is where the two normalisations differ:
`canonicalHTTPHost` trims spaces and one dot and refuses a port, `normalizeHost`
cuts a port off and trims brackets, too. A hostname goes through the first when it
is registered and through the second when its route is installed and looked up.

`Get` and `Delete` of `DeleteRegistration` are one step: an entry never changes its
name, so what `Get` returned is still right when `Delete` succeeds. Left out: a failing random source (`newID`, `NewToken`), and
requests that the validators of names, kinds and backends refuse.

`time.Duration(n) * time.Second` is a product modulo 2^64. `Seconds` keeps that,
with a small modulus in the instances (`DurationLimit` is half of it). The check
of the range comes after the product, so no lease is ever out of range (part of
`TypeOK`); a `ttl_seconds` far above the maximum may however wrap into the range
and is then accepted with the wrapped length, which the reply reports.

### Consumers

Neither the router nor the read handlers take `Daemon.mutate`. A request reads the
route, asks the provider for a backend, and dials, in three steps; `known`
collects the backends its hostname had while it was in flight, and is read by no
guard. A command looks the service up and decides in two steps; its deadline may
pass before, between and after them. `fresh` records that the daemon it heard from
still runs. A restart ends requests and leaves commands running.

### Frontends

One `Allocate` is a sequence of attempts, each racing with the ports other
processes hold (`taken`). `net.Listen`, `SetPort` and the entry in `runtimes` are
one step, `Grant`, which fails or succeeds as the write does: `Manager.mu` is held
and nobody sees the difference, except a crash in between, which leaves what a
`Grant` followed by `Restart` leaves, or what no `Grant` leaves. `told` records
the frontend consumers were last given.

### Clients

Every handle has one call out at most; requests wait in `inbox` until a handler
picks them up. A caller that gives up leaves its request behind (`abandoned`): it
may be served later or be lost. A handler's answer reaches only a caller that
still waits. Faults (time-outs, lost answers, failed allocations, heartbeats so
late that a lease expires, restarts) are counted and bounded by `MaxFaults`, so
that "once faults cease" is a statement about every fair behaviour.

`Close` may be called when a re-registration has been answered and its identity
not been adopted; it then deletes the old identity. This is also what a `Close`
does that gives up waiting for the loop after two seconds: the new registration is
renewed by nobody and expires. `OpenOnce` is `devmesh register --once`, which
never renews.

### DockerWatcher

The watcher is one goroutine; `pc` and `caller` say where it is. Containers
start, publish their port a little later, and die, at any time between two of its
steps. The host port is the count of a container's starts, so that a publication
made from an old inspection can be told from a current one. `start` stands for
start and restart, `die` for die, stop and destroy. What a container was created
with (labels, name, the addresses its port is published at) is chosen in `Init`
and given to the operators of `Inspection`, in the order of the code: labels,
bindings, the loopback rule, the choice, the host port. Before the port is
published Docker reports no binding or bindings without a port. The watcher's
cancellation only ends it; when it ends is part of `Serve`.

A call of the registration that fails (`InspectFails`, a conflict in `OnRegister`)
leaves the container in `seen`, so that the pass does not take it for gone.
`Inspection` has one loopback address of each family, 127.0.0.1 and ::1, to stand
for all that `net.IP.IsLoopback` accepts.

With `allow_non_loopback_published_ports` the code dials 127.0.0.1 for a binding
at any address, also for one address of the LAN where nothing listens on
loopback. The instances have the option off, as it is by default.

### ServiceRuntime and TcpProxy

`ServiceRuntime` follows each connection through the accept loop and its worker;
the worker's call of `proxy.TCP` may return at any time or never. `TcpProxy` is
that call. A write to a peer that vanished fails at once, one to a peer that has
stopped reading (`stalled`) blocks until the connection fails, and what the kernel
has buffered for a connection can still be read until it is closed. `DuplexStream` is
what its users may expect: two streams that deliver in order and end
independently, until something cuts the connection. The refinement maps `cut` to
`Disturbed`: a failed dial, a vanished peer, a shutdown.

### Serve

A process goes through `Run`: validate the settings, load the state, bind the
proxy addresses, lstat, dial, remove and bind the socket, chmod it, serve, and on
a signal drain the API, wait for the goroutines, close the runtimes, save the
state, remove the socket. Every file-system call is a step of its own, since
nothing else coordinates two processes. A socket file is named after the process
that bound it and is stale when that process no longer listens; closing a
listener removes the file at its path, as Go's `UnixListener` does. `busy` holds
the registrations under way, which nothing obliges to end; `hasty` records that a
stop did not wait for them, because time was up or because `Serve` failed and
`Run` does not drain. `ShutdownClosesFrontends` is about stops that were not
hasty: after a hasty one a registration may bind a frontend behind
`Runtime.Shutdown`, for as long as the process still runs.

Another program may take a proxy address (`OtherProgram`, for the addresses in
`Contested`) or have a file at the socket path. Reading the state, binding an
address, and each file-system call of `Listen` may fail; the process then exits
(`Fails`) and does not count as having refused. The 500 ms probe of a live daemon
may time out when that daemon is busy (those in `Slow`).

`disorder` is history: it becomes true when a process starts, stops or crashes
while another one is in the middle of starting or stopping, and when a probe of a
live daemon fails. `ServingIsReachable`, `AssignmentsAreKept` and
`RefusalIsJustified` are stated for behaviours without it; they say nothing of the
races `serve_overlap` shows. A crash of the only process, and the restart after it,
is no disorder.

## Runs

| Run | Checks | Shows |
|---|---|---|
| `consumers` | `RequestReachesItsService`, `PrintedEndpointIsServed`, `FrontendIsListening`, `UnsharedHostnameIsServed`, `LeaseHolderIsPublished`, `ReadyServiceIsCovered`, `RegisteredHostIsFound`, `IdentityIsStable`, `ResolveEnds`, `PublicationEndsForCause` | one name contended for by an anonymous producer, an owner key and two containers; another that wants its hostname, and is also registered as TCP; TTLs that wrap around; requests and commands in between |
| `frontends` | `AssignmentIsDurable`, `ExhaustedMeansFull`, `ImplementsStableFrontends`, `FrontendSurvivesRestart` | two names colliding in two ports |
| `clients` | `CloseEndsPublication`, `ImplementsDaemon`, `LiveProducersAreServed`, `StoppedProducersAreForgotten` | two handles, one name, a fault at any point |
| `docker` | `TypeOK`, `PublicationIsTracked`, `OnlyLoopbackIsPublished`, `RunningContainerIsServed`, `StoppedContainerIsForgotten`, `PresentContainerIsKept` | a dual-stack container, a second one of the same Compose service or unfit to be published (also exposed to the LAN, disabled, mislabeled), and a process, one name |
| `service_runtime` | `SlotsBelongToConnections`, `DrainedMeansIdle`, `NoConnectionSurvivesShutdown`, `NewConnectionsUseNewBackend`, `ConnectionIsDecided` | two connections, one slot, two backends, a shutdown; a full semaphore does not stop the loop |
| `tcp_proxy` | `EndMeansComplete`, `ImplementsDuplexStream`, `WorkerEndsWithBackend` | two items per direction, every order of ends, errors and blocked writes |
| `serve` | `ServingIsReachable`, `ShutdownClosesFrontends`, `StartupOwnsItsEndpoints`, `AssignmentsAreKept`, `RefusalIsJustified`, `ShutdownEnds` | two processes, with and without proxies and with settings just outside each limit; another program at the HTTP address, failing system calls, a missed probe |

One type invariant is both checked and proved (`DockerWatcher`: its retries stay
within their bounds); the others are theorems only. So is `StreamIsFaithful`, which
`ImplementsDuplexStream` implies.

Five runs show where the code and what is said of it differ:

| Run | Property | What happens |
|---|---|---|
| `clients_expired` | `ExpiredClientRegistersAnew` | a heartbeat after the expiry and before the sweep deletes the lease (`lease/manager.go:96-100`) and the publication stays; the client then conflicts with its own leftover for ever |
| `hostnames` | `HostnameServesItsOwner` | `a` and `a..` are two hostnames to the conflict check, which trims one dot, and one to the router, which trims another (`proxy/http.go:152`); the later registration takes over the route |
| `docker_status` | `StatusRecovers` | after a failed startup, successful ticks do not report connected |
| `tcp_proxy_shutdown` | `ShutdownClosesUpstream` | the worker stays until the backend sends or hangs up |
| `serve_overlap` | `LiveSocketIsKept` | a daemon that has closed its listener and is still closing its runtimes removes, with the deferred `RemoveSocket`, the socket its successor has bound |

The socket is also lost between the probe of a stale socket and its removal
(`transport/unix.go:39-44`), when two daemons start over it, and when a live daemon
misses a probe. The first of these needs the three starts that `serve_overlap`
allows and is two steps longer than the trace TLC reports; the second needs `Slow`.

One more is visible in how properties are stated. `ReadyServiceIsCovered` and
`StoppedProducersAreForgotten` except the leases in `dropped`, which a late
heartbeat deleted: if the producer stops then, its backend stays ready for the
rest of the daemon's run.

### Bounds

- In `consumers` one request and one command are enough, and one of the two at a
  time (`OneConsumer`): consumers change nothing anybody else reads. Two IDs make
  a publication and its replacement, two containers and an owner key a third and a
  fourth; two clients with five IDs register several times each. IDs are opaque:
  `IDsInOrder` uses that. A second is one unit, leases last one unit and durations
  above 8 are negative, so that one TTL is rejected and one wraps into the range. One service
  is TCP at most, so that ports are distinct is left to the proof.
- Two ports and two names exhaust the range; the preferred ports are one in the
  range and one outside it. Both names hash to the same offset.
- In Docker runs one start beyond the initial state makes a restart with a new
  backend; the code's five attempts and seven retries become two and one.
- In `serve` two starts in all make a crash with its recovery, a successor that
  starts while the other one stops, and two that start together on a free path or
  one with a foreign file. Two starts over the socket of a crashed daemon make
  three, which `serve_overlap` has. One address is contested and one process slow.
  The safety properties are proved for any number of starts, processes and
  services.
- Two items per direction make "between two items" and "after the last" differ.
- Two connections and one slot fill the semaphore with one to refuse; the safety
  properties are proved for every number of both.

Deadlock is checked in the Consumers, Frontends and Docker runs. The
clients, the runtime, the proxy and the processes may stop for good (all closed,
shut down, returned, exited), so there it is not.

### Fairness

- Goroutines run on: weak fairness of `RegisterStep`, `Run`, `AcceptLoop`,
  `Shutdown`, the copying goroutines, the handles' loops. Tickers fire and time
  passes: weak fairness of `Tick`, `TakeExpired`.
- A goroutine that waits for `Daemon.mutate` gets it although others keep taking
  it, as `sync.Mutex` hands the lock to a starving waiter: strong fairness of
  `EndExpired`, `EndDeletion` and of serving a request.
- `select` chooses at random among ready cases: strong fairness of `handleEvent`
  and `ReconcileTick`.
- A `resolve` command runs on and its deadline comes: weak fairness of its loop
  and of `Deadline`. Its calls return because the transport bounds them.
- `Run` proceeds while it starts and stops: weak fairness of `StartUp` and
  `Shutdown` of each process. Registrations need not end; `CloseRuntimes` gets
  `Manager.mu`, though, that is, the state write of a registration that holds it
  returns.
- Nothing is assumed of producers, consumers and backends, who need not send, read
  or hang up: `DuplexStream` promises delivery only where the receiver reads, and
  `WorkerEndsWithBackend` excepts a backend that ended its stream and reads no
  more. Of Docker it is assumed that a container that keeps running gets its port
  published.

## Theorems

TLAPS proves these for all values of the constants that satisfy the named
assumptions of the modules (configuration ranges, disjoint identifiers).

**DaemonProofs.** `InductiveInvariant` establishes `IInv`: `TypeOK`, `MutexInv`
(at most one registration, of a known shape at each `pc`), `LeaseInv` (leases
and removals carry IDs that were handed out, an ID being removed is not leased,
and `LeaseHolderIsPublished`), `ServiceInv` (a record has the port of its runtime;
a leased producer publishes one name), `ReadyServiceIsCovered` and distinct
ports. Steps that touch only leases and removals are proved together
(`LeasesMove`), then those that end a publication, then the stages of a
registration. From it follow `TypeCorrect`, `LeaseHolderStaysPublished`,
`ReadyServiceStaysCovered`, `FrontendStaysListening`, `IdentityStaysStable` and
`PublicationsEndForCause`. The last one rests on a removal naming the producer it
is meant for and on the ownership check being made under the mutex that the
publication still holds. The strengthening is needed because
`LeaseHolderIsPublished` alone says nothing about a registration between its
checks and its lease: that no conflict can arise while it holds the mutex, and
that its ID is not leased yet.

**FrontendsProofs.** `IInv` adds what an allocation in progress has established
(`AllocatingInv`: the attempts made were refused or skipped) and how memory, file
and `dirty` are related (`StoreInv`). It gives `TypeCorrect`,
`AssignmentStaysDurable`, `ExhaustionIsReal`, `FrontendIsKept`, and `Refinement`:
every step is a step of `StableFrontends` or leaves `runtimes` alone. `Daemon`
uses `StableFrontends` for its runtimes, so what it assumes of them is proved.

**ClientsProofs.** `ClientsRefineDaemon` shows that every step of the composition
is a step of `Daemon` or leaves its variables alone, so `Daemon`'s theorems carry
over; `ClientsKeepLeaseHoldersPublished` is one of them. `CallInv` relates
requests to the calls of their senders, for `ClientsTypeCorrect`.
`CloseStaysEffective` proves `CloseEndsPublication`, from `CloseInv`: wherever the
daemon keeps a handle's ID it keeps it with the handle's name (`Bound`), a DELETE
being served has left neither a lease nor a registration of the ID (`Withdrawn`),
and the only request a closing handle waits for is that DELETE. `KnownStays` in
`DaemonProofs` shows that no step of the daemon undoes these facts, because an ID
is drawn once; without `Bound` the deletion could end another name's publication,
and without `Withdrawn` the ID could be published again after the answer.

**ConsumersProofs.** `UnsharedHostnamesAreServed` is about `Daemon`, for hostnames
of any spelling. It follows from `KeyInv` below and from `OwnerInv`: two services
never claim one hostname, and a registration that passed the conflict check would
still pass it when it publishes, because it holds the mutex.
`ConsumersImplementDaemon` shows that a request or a command leaves
the daemon's variables alone, so `IInv` holds of the composition. `ConsumersInv`
adds three facts to it. `KeyInv`: every route leads to a service with that
hostname, and every HTTP service has a route unless its registration is still to
install it. `RequestInv`: `known` holds whatever is published at the hostname now,
the name a request has read from the router still has its hostname in the
registry, and the backend it dials is in `known`. `ReplyInv`: an answer of the
running daemon names a service that is still there with the frontend it said.
They give `ConsumersTypeCorrect`, `RequestsReachTheirService`,
`PrintedEndpointStaysServed` and the action property `RegisteredHostsAreFound`.
The request's property alone says nothing between the two reads of `ServeHTTP`:
that the service cannot vanish or change its hostname in between is
`OperationKeepsServices`, which rests on `IInv`. A restart of the daemon ends the
requests it was serving and makes every reply stale.

**DockerWatcherProofs.** `WatcherInv` adds to the properties that only the loop
over `forgotten` leaves anything in it, that a container publishes its own service
and no other, and that what is about to be registered obeys the loopback rule as
`RegistrationFromInspect` checked it (`Fit`). Without the second, clearing one
container's service could leave another service of it published and untracked;
without the third, a registration after retries could publish something nobody
had inspected. It gives `WatcherTypeCorrect`, `PublicationsStayTracked` and
`LoopbackRuleHolds`, and with `KeepInv` `PresentContainersAreKept`: while a pass
runs, all that it may register and every container that is published where it
listens was in its inventory. For that a publication must carry the port of an
incarnation that has had it (`Sound`): a container that starts after the inventory
is not yet where it was published. All hold for any containers, label sets, lists of bindings, numbers of
retries and faults. That the first loopback binding is chosen from a list of any
length uses that a nonempty set of naturals has a minimum (`MinType`).

**ServiceRuntimeProofs.** `IInv` adds that the connection table and the wait group
hold exactly the connections being proxied (`WorkerInv`), what each stage of the
shutdown has achieved (`ShutdownInv`) and the order of versions (`VersionInv`). It
gives `SlotsAreNotLeaked`, `DrainingIsComplete`, `ShutdownReachesEveryConnection`
and `BackendIsNeverOlder`.

**TcpProxyProofs.** `IInv` says what a copying goroutine holds and has done: the
item in its buffer is the next one (`BufferIsNext`), what arrived is a prefix
(`GotIsPrefix`), a direction that ended undisturbed has copied everything
(`CopiedAll`), an end is the last thing a peer sees (`EndIsLast`, `ClosesLate`) and
nothing is copied before the dial (`CopiesWhenDialed`). It gives `TypeCorrect`,
`Faithful`, `EndIsComplete`, and `Refinement`: every step is a step of
`DuplexStream` or leaves its state alone. This is the safety part of
`ImplementsDuplexStream`.

**ServeProofs.** `IInv` adds who may own a proxy address at which point
(`Ownership`), what a stop has waited for and closed (`Registrations`) and, without
`disorder`, `Coordination`: a process that starts or stops is the only
one that does, one that has found the path free knows what is on file, and the
path leads to the one that listens. `Invariance` establishes it for any
number of processes. From it follow `ServeTypeCorrect`, `Reachable`,
`FrontendsAreClosed`, `EndpointsAreOwned` (which needs no absence of disorder),
`AssignmentsSurvive` and `RefusalsAreJustified`. Refusals and failing
system calls are treated together (`GivesUp`).

Every safety property of a passing run is proved. Only model-checked are the
liveness properties, as the prover has no fairness: `ResolveEnds`,
`LiveProducersAreServed`, `StoppedProducersAreForgotten`,
`RunningContainerIsServed`, `StoppedContainerIsForgotten`, `ConnectionIsDecided`,
`WorkerEndsWithBackend`, `ShutdownEnds` and the fairness half of
`ImplementsDuplexStream`.

## Not modelled

- Formatting, logging, JSON, the parsing of flags and durations.
- The read-only handlers and commands other than `resolve` (`list`, `inspect`,
  `health`): they copy what `Resolve` reads and change nothing.
- `doctor` and its Docker probe (`dockerwatch/probe.go`): a sequence of reports,
  each on its own; the probe starts and removes a container nobody else uses.
- The headers an HTTP request is rewritten with, TLS itself, and how Go's
  `http.Server` and `ReverseProxy` treat a connection.
- `SetBackend`, `Remove`, `Forget`, `RemoveRuntime`, `Router.Delete` and
  `CheckFrontendRange` have no caller outside the tests.
- Which error the state file is refused for (a newer version, or unreadable): the
  process ends before it does anything.

## Plan

Done, in this order: `Registry`, `LeaseManager`, `Daemon` and its proofs;
`StateStore`, `Frontends` with its abstract specification and proofs; `Clients`;
`DockerWatcher`; `TcpProxy`; `ServiceRuntime` and its proofs; the width of lease
times; `Consumers`; `Serve` and its proofs; `Inspection`; `DuplexStream` and the
proofs of `TcpProxy`; one-shot registrations; the proof about `Close`; the proofs
of `Consumers` and `DockerWatcher`.

Next: `CloseEndsPublication` and the consumers' properties for handles and
consumers together, which the proofs so far show for each of them alone.
