------------------------------- MODULE Daemon -------------------------------
(***************************************************************************)
(* internal/daemon: the operations that publish, renew and end service     *)
(* registrations, composed from the registry, the lease manager and the    *)
(* TCP frontends.                                                          *)
(*                                                                         *)
(* Register holds Daemon.mutate from its first check to its return, but    *)
(* heartbeats, the lease half of a deletion and the sweeper's TakeExpired  *)
(* do not take that mutex.  So Register is a sequence of steps             *)
(*     Register -> EnsureTCPRuntime -> Publish -> SetRoute -> AddLease     *)
(* that those operations interleave with, while endPublication waits for   *)
(* the mutex.  "registering" holds the one registration that owns the      *)
(* mutex; it is empty exactly when the mutex is free.                      *)
(***************************************************************************)
EXTENDS Integers, Functions

CONSTANTS
    Name,             \* service names accepted by ValidateName
    Port,             \* TCP frontend ports
    Label,            \* hostnames, apart from what is written around them
    NoLabel,          \* the empty one
    OwnerKey,         \* owner keys a trusted caller passes explicitly
    NoKey,            \* RegisterParams.OwnerKey = ""
    RegistrationID,   \* the values newID may return
    Container,        \* Docker container IDs
    NoContainer,      \* RegisterParams.DockerContainerID = ""
    Backend,          \* backend addresses accepted by ValidateBackend
    NoBackend,        \* a nil backend
    LeaseTTL,         \* cfg.LeaseTTL
    MinLeaseTTL,      \* config.MinLeaseTTL
    MaxLeaseTTL,      \* config.MaxLeaseTTL
    Second,           \* time.Second, in the unit of the durations above
    DurationLimit,    \* a duration is an integer from -DurationLimit up, below DurationLimit
    Requests          \* the RegisterParams producers send

VARIABLES
    services,     \* Registry.services
    entries,      \* Lease.entries
    runtimes,     \* Runtime.runtimes: the frontend port of each TCP runtime
    routes,       \* HTTP.routes: router key -> name its provider resolves
    registering,  \* the registration that holds Daemon.mutate
    deleting,     \* deletions that removed their lease and wait for mutate
    sweeping,     \* leases the sweeper took and has not yet ended
    used,         \* registration IDs handed out
    dropped       \* expired leases deleted by a late heartbeat

vars == <<services, entries, runtimes, routes, registering, deleting, sweeping,
          used, dropped>>

Reg == INSTANCE Registry
Lease == INSTANCE LeaseManager
Runtime == INSTANCE StableFrontends

-----------------------------------------------------------------------------
(* Hostnames, as they are spelled: a label, a bracket on either side of    *)
(* it, then a space, dots and a port, each of which may be missing.  Case  *)
(* and surrounding spaces, which both functions below remove first, are    *)
(* not distinguished.                                                      *)

Host ==
    {h \in [label : Label, open : BOOLEAN, close : BOOLEAN, space : BOOLEAN,
            dots : Nat, port : BOOLEAN] : h.space => h.label # NoLabel}

NoHost ==
    [label |-> NoLabel, open |-> FALSE, close |-> FALSE, space |-> FALSE,
     dots |-> 0, port |-> FALSE]

\* A space with nothing after it is a surrounding one.
TrimSpace(h) == [h EXCEPT !.space = @ /\ (h.dots > 0 \/ h.port)]

TrimDot(h) == [h EXCEPT !.dots = IF h.port \/ @ = 0 THEN @ ELSE @ - 1]

\* Registration trims one trailing dot, and rejects nothing and a port.
canonicalHTTPHost(raw) == TrimDot(TrimSpace(raw))

AcceptsHost(h) == h # NoHost /\ ~h.port

\* What is left without the port, if this reads as a host and a port.
SplitHostPort(h) ==
    IF /\ h.port
       /\ h.open <=> h.close
       /\ h.open => ~h.space /\ h.dots = 0
      THEN [h EXCEPT !.open = FALSE, !.close = FALSE, !.port = FALSE]
      ELSE h

TrimBrackets(h) ==
    [h EXCEPT !.open = FALSE, !.close = @ /\ (h.space \/ h.dots > 0 \/ h.port)]

\* The router trims more of a hostname, when it installs a route and when it
\* looks one up.
normalizeHost(h) == TrimDot(TrimBrackets(SplitHostPort(TrimSpace(h))))

-----------------------------------------------------------------------------
ProducerID == RegistrationID \cup Container

Owner == OwnerKey \cup (Reg!Source \X RegistrationID)

Frontend == [port : Nat, url : Host]

NoFrontend == [port |-> 0, url |-> NoHost]

Record == Reg!ServiceRecord(Owner, ProducerID, Backend, Frontend, Host)

RegisterParams ==
    [name : Name, kind : Reg!Kind, host : Host, source : Reg!Source,
     ownerKey : OwnerKey \cup {NoKey}, container : Container \cup {NoContainer},
     backend : Backend, ttl : Nat]

ASSUME RequestAssumption ==
    /\ Requests \subseteq RegisterParams
    /\ \A p \in Requests : p.source = "docker" => p.ownerKey # NoKey

ASSUME IdentityAssumption ==
    /\ RegistrationID \cap Container = {}
    /\ NoContainer \notin Container
    /\ NoBackend \notin Backend

ASSUME PortAssumption == Port \subseteq Nat \ {0}

ASSUME LabelAssumption == NoLabel \in Label

ASSUME LeaseAssumption ==
    /\ MinLeaseTTL \in Nat /\ MinLeaseTTL > 0 /\ MaxLeaseTTL \in Nat
    /\ LeaseTTL \in MinLeaseTTL .. MaxLeaseTTL
    /\ Second \in Nat \ {0} /\ DurationLimit \in Nat \ {0}

LeaseLength == MinLeaseTTL .. MaxLeaseTTL

Registration ==
    [pc : {"allocate", "publish", "route", "lease"}, name : Name, rec : Record, ttl : LeaseLength]

Removal == [name : Name, id : RegistrationID]

-----------------------------------------------------------------------------
(* Register: the checks, in registerLocked's order.  A request that fails  *)
(* one of them changes nothing.                                            *)

\* time.Duration(n) * time.Second wraps around.
Seconds(n) == ((n * Second + DurationLimit) % (2 * DurationLimit)) - DurationLimit

EffectiveTTL(p) == IF p.source # "docker" /\ p.ttl > 0 THEN Seconds(p.ttl) ELSE LeaseTTL

LeaseInRange(p) ==
    p.source # "docker" => EffectiveTTL(p) \in LeaseLength

Hostname(p) == IF p.kind = "http" THEN canonicalHTTPHost(p.host) ELSE NoHost

\* Mutant: a name may change its kind and its hostname.
KeepsNothing(p) == TRUE

KeepsIdentity(p) ==
    p.name \in DOMAIN services =>
        /\ services[p.name].kind = p.kind
        /\ p.kind = "http" => services[p.name].hostname = Hostname(p)

\* Mutant: another service may have the hostname.
OwnsHostnameShared(p) == p.kind = "http" => AcceptsHost(Hostname(p))

OwnsHostname(p) ==
    p.kind = "http" =>
        /\ AcceptsHost(Hostname(p))
        /\ Reg!FindByHostname(Hostname(p)) \subseteq {p.name}

\* newID's result, or the container ID a docker registration must carry.
ProducerIDs(p) ==
    IF p.source = "docker" THEN {p.container} \ {NoContainer} ELSE RegistrationID \ used

\* source + ":" + regID unless the caller names the owner.
OwnerOf(p, id) == IF p.ownerKey = NoKey THEN <<p.source, id>> ELSE p.ownerKey

\* A same-owner replacement retires the lease of the publication it replaces.
RetireReplaced(name, owner, producer) ==
    entries' = IF /\ name \in DOMAIN services
                  /\ services[name].owner = owner
                  /\ services[name].producer # producer
                  /\ services[name].source \in Reg!LeasedSource
                 THEN Lease!Without({services[name].producer})
                 ELSE entries

NewRecord(p, owner, producer) ==
    [kind |-> p.kind, owner |-> owner, producer |-> producer, source |-> p.source,
     backend |-> p.backend, hostname |-> Hostname(p), status |-> "ready",
     frontend |-> IF p.kind = "http"
                    THEN [port |-> 0, url |-> normalizeHost(Hostname(p))]
                    ELSE NoFrontend]

Register(p) ==
    /\ registering = {}
    /\ LeaseInRange(p)
    /\ KeepsIdentity(p)
    /\ OwnsHostname(p)
    /\ \E id \in ProducerIDs(p) :
         LET owner == OwnerOf(p, id) IN
         /\ ~Reg!NameConflict(p.name, owner)
         /\ RetireReplaced(p.name, owner, id)
         /\ used' = used \cup ({id} \cap RegistrationID)
         /\ registering' = {[pc   |-> IF p.kind = "http" THEN "publish" ELSE "allocate",
                             name |-> p.name,
                             rec  |-> NewRecord(p, owner, id),
                             ttl  |-> EffectiveTTL(p)]}
    /\ UNCHANGED <<services, runtimes, routes, deleting, sweeping, dropped>>

-----------------------------------------------------------------------------
(* Register: the steps taken under the mutex. *)

WithPort(r, port) == [r EXCEPT !.pc = "publish", !.rec.frontend.port = port]

\* Mutant: a runtime that exists is bound anew.
EnsureTCPRuntimeAnew(r) ==
    /\ r.pc = "allocate"
    /\ \E port \in Port \ Range(runtimes) :
         /\ runtimes' = [n \in DOMAIN runtimes \cup {r.name} |->
                           IF n = r.name THEN port ELSE runtimes[n]]
         /\ registering' = {WithPort(r, port)}
    /\ UNCHANGED <<services, entries, routes, deleting, sweeping, used, dropped>>

\* An existing runtime is returned as it is; otherwise a port is bound, or the
\* allocation fails (range exhausted, assignment not persisted) and Register
\* returns the error.
EnsureTCPRuntime(r) ==
    /\ r.pc = "allocate"
    /\ \/ /\ r.name \in DOMAIN runtimes
          /\ registering' = {WithPort(r, runtimes[r.name])}
          /\ UNCHANGED runtimes
       \/ \E port \in Port :
             /\ Runtime!Bind(r.name, port)
             /\ registering' = {WithPort(r, port)}
       \/ /\ r.name \notin DOMAIN runtimes
          /\ registering' = {}
          /\ UNCHANGED runtimes
    /\ UNCHANGED <<services, entries, routes, deleting, sweeping, used, dropped>>

\* What is left to do once the record, or the route, is in place.
AfterPublish(r) ==
    IF r.rec.source = "docker" THEN {} ELSE {[r EXCEPT !.pc = "lease"]}

Publish(r) ==
    /\ r.pc = "publish"
    /\ Reg!CreateOrReplaceOwned(r.name, r.rec)
    /\ registering' = IF Reg!NameConflict(r.name, r.rec.owner) THEN {}
                      ELSE IF r.rec.kind = "http" THEN {[r EXCEPT !.pc = "route"]}
                      ELSE AfterPublish(r)
    /\ UNCHANGED <<entries, runtimes, routes, deleting, sweeping, used, dropped>>

SetRoute(r) ==
    /\ r.pc = "route"
    /\ LET key == normalizeHost(r.rec.hostname) IN
       routes' = [k \in DOMAIN routes \cup {key} |-> IF k = key THEN r.name ELSE routes[k]]
    /\ registering' = AfterPublish(r)
    /\ UNCHANGED <<services, entries, runtimes, deleting, sweeping, used, dropped>>

\* The response carries the registration ID and the token.
AddLease(r) ==
    /\ r.pc = "lease"
    /\ Lease!AddWithTTL(r.rec.producer, r.name, r.rec.owner, r.ttl)
    /\ registering' = {}
    /\ UNCHANGED <<services, runtimes, routes, deleting, sweeping, used, dropped>>

RegisterStep ==
    \E r \in registering :
        EnsureTCPRuntime(r) \/ Publish(r) \/ SetRoute(r) \/ AddLease(r)

-----------------------------------------------------------------------------
(* Renewal and removal. *)

\* A heartbeat takes no mutex.  With a wrong token it can only reach the expiry
\* branch of Renew.
Heartbeat(id, tokenOK) ==
    /\ Lease!Renew(id, tokenOK)
    /\ dropped' = IF Lease!Expired(id) THEN dropped \cup {id} ELSE dropped
    /\ UNCHANGED <<services, runtimes, routes, registering, deleting, sweeping, used>>

\* Mutant: the lease goes, the publication stays.
DeleteRegistrationLeaseOnly(id) ==
    /\ Lease!Delete(id, TRUE)
    /\ UNCHANGED <<services, runtimes, routes, registering, deleting, sweeping, used, dropped>>

\* DeleteRegistration, up to its wait for the mutex: only the producer that
\* holds the token gets this far.
DeleteRegistration(id) ==
    /\ Lease!Delete(id, TRUE)
    /\ deleting' = deleting \cup {[name |-> entries[id].name, id |-> id]}
    /\ UNCHANGED <<services, runtimes, routes, registering, sweeping, used, dropped>>

\* endPublication: runs while nobody else holds the mutex.
endPublication(name, producer) ==
    /\ registering = {}
    /\ Reg!ClearBackendIf(name, producer)

EndDeletion(e) ==
    /\ e \in deleting
    /\ endPublication(e.name, e.id)
    /\ deleting' = deleting \ {e}
    /\ UNCHANGED <<entries, runtimes, routes, registering, sweeping, used, dropped>>

\* Mutant: the sweeper deletes leases and ends nothing.
TakeExpiredOnly ==
    /\ sweeping = {}
    /\ Lease!ExpiredIds # {}
    /\ Lease!TakeExpired
    /\ UNCHANGED <<services, runtimes, routes, registering, deleting, sweeping, used, dropped>>

\* sweepLeases: one pass takes the expired leases, then ends them one by one;
\* the next pass starts when this one is done.
TakeExpired ==
    /\ sweeping = {}
    /\ Lease!ExpiredIds # {}
    /\ Lease!TakeExpired
    /\ sweeping' = {[name |-> entries[id].name, id |-> id] : id \in Lease!ExpiredIds}
    /\ UNCHANGED <<services, runtimes, routes, registering, deleting, used, dropped>>

EndExpired(e) ==
    /\ e \in sweeping
    /\ endPublication(e.name, e.id)
    /\ sweeping' = sweeping \ {e}
    /\ UNCHANGED <<entries, runtimes, routes, registering, deleting, used, dropped>>

ForgetDockerPublication(name, container) ==
    /\ endPublication(name, container)
    /\ UNCHANGED <<entries, runtimes, routes, registering, deleting, sweeping, used, dropped>>

-----------------------------------------------------------------------------
(* The environment. *)

Tick ==
    /\ \E id \in DOMAIN entries : ~Lease!Expired(id)
    /\ Lease!Elapse
    /\ UNCHANGED <<services, runtimes, routes, registering, deleting, sweeping, used, dropped>>

\* The daemon stops and a new one starts: everything here lives in memory.
Restart ==
    /\ services' = << >>
    /\ entries' = << >>
    /\ Runtime!Stop
    /\ routes' = << >>
    /\ registering' = {}
    /\ deleting' = {}
    /\ sweeping' = {}
    /\ UNCHANGED <<used, dropped>>

-----------------------------------------------------------------------------
Init ==
    /\ Reg!Init
    /\ Lease!Init
    /\ Runtime!Init
    /\ routes = << >>
    /\ registering = {}
    /\ deleting = {}
    /\ sweeping = {}
    /\ used = {}
    /\ dropped = {}

\* What happens while one daemon runs.
Operation ==
    \/ \E p \in Requests : Register(p)
    \/ RegisterStep
    \/ \E id \in RegistrationID, tokenOK \in BOOLEAN : Heartbeat(id, tokenOK)
    \/ \E id \in RegistrationID : DeleteRegistration(id)
    \/ \E e \in deleting : EndDeletion(e)
    \/ TakeExpired
    \/ \E e \in sweeping : EndExpired(e)
    \/ \E n \in Name, c \in Container : ForgetDockerPublication(n, c)
    \/ Tick

Next == Operation \/ Restart

Spec == Init /\ [][Next]_vars

-----------------------------------------------------------------------------
(* Properties. *)

\* The daemon's state is well formed; in particular only registration IDs are
\* leased, and a registration under way has a permitted TTL.
TypeOK ==
    /\ DOMAIN services \subseteq Name
    /\ \A n \in DOMAIN services : services[n] \in Record
    /\ DOMAIN entries \subseteq RegistrationID
    /\ \A id \in DOMAIN entries : entries[id] \in Lease!Entry(Name, Owner, LeaseLength)
    /\ DOMAIN runtimes \subseteq Name
    /\ \A n \in DOMAIN runtimes : runtimes[n] \in Port
    /\ DOMAIN routes \subseteq Host
    /\ \A k \in DOMAIN routes : routes[k] \in Name
    /\ registering \subseteq Registration
    /\ deleting \subseteq Removal
    /\ sweeping \subseteq Removal
    /\ used \subseteq RegistrationID
    /\ dropped \subseteq RegistrationID

Publishes(n, producer) == Reg!Ready(n) /\ services[n].producer = producer

Removing(n, producer) == [name |-> n, id |-> producer] \in deleting \cup sweeping

\* A producer whose lease is held is the one consumers are routed to: as long
\* as heartbeats are acknowledged, no replacement, stale deletion, late expiry
\* or container stop has taken the service away from it.
LeaseHolderIsPublished ==
    \A id \in DOMAIN entries : Publishes(entries[id].name, id)

\* A ready process or manual service is going to be cleaned up: its lease is
\* held, or its removal is on its way to the mutex, or a registration of its
\* owner is under way that is about to add the lease or to replace the record
\* (and cannot fail any more).  The one exception is a lease that a late
\* heartbeat deleted (Renew, manager.go:96-100), which nobody follows up on.
ReadyServiceIsCovered ==
    \A n \in DOMAIN services :
        LET p == services[n].producer IN
        (Reg!Ready(n) /\ services[n].source \in Reg!LeasedSource) =>
            \/ p \in DOMAIN entries /\ entries[p].name = n
            \/ Removing(n, p)
            \/ \E r \in registering : r.name = n /\ r.rec.owner = services[n].owner
            \/ p \in dropped

\* The route of n is installed and leads to it, or is about to be installed.
RouteLeadsTo(n) ==
    LET key == normalizeHost(services[n].hostname) IN
    \/ key \in DOMAIN routes /\ routes[key] = n
    \/ \E r \in registering : r.name = n /\ r.pc = "route"

\* registry.go:86: the hostname check of a registration is there "to keep one
\* HTTP route owner per hostname", so the hostname of every HTTP service leads to
\* that service.
HostnameServesItsOwner ==
    \A n \in DOMAIN services : services[n].kind = "http" => RouteLeadsTo(n)

\* The hostname of an HTTP service leads to that service and to it alone, through
\* replacements, removals and takeovers, unless another service has a hostname
\* that the conflict check tells from it and the router does not.
UnsharedHostnameIsServed ==
    \A n \in DOMAIN services :
        /\ services[n].kind = "http"
        /\ \A m \in DOMAIN services :
              /\ services[m].kind = "http"
              /\ normalizeHost(services[m].hostname) = normalizeHost(services[n].hostname)
              => services[m].hostname = services[n].hostname
        => RouteLeadsTo(n)

\* The frontend a TCP service advertises is the port its runtime listens on,
\* and no other service advertises it.
FrontendIsListening ==
    \A n \in DOMAIN services :
        services[n].kind = "tcp" =>
            /\ n \in DOMAIN runtimes
            /\ runtimes[n] = services[n].frontend.port
            /\ \A m \in DOMAIN services :
                 services[m].frontend.port = services[n].frontend.port => m = n

\* While a daemon runs, a service keeps its kind, its hostname and the frontend
\* consumers were told, through every replacement, removal and takeover.
IdentityIsStable ==
    [][\A n \in DOMAIN services \cap DOMAIN services' :
          /\ services'[n].kind = services[n].kind
          /\ services'[n].hostname = services[n].hostname
          /\ services'[n].frontend = services[n].frontend]_services

\* While a daemon runs, a ready publication is ended by its own producer alone:
\* its deletion or expiry, which has taken its lease before it waited for the
\* mutex, its container's stop, or a new registration of its owner.  Removals
\* meant for a publication that was replaced meanwhile, and registrations of
\* other owners, leave it as it is.
PublicationEndsForCause ==
    [][\A n \in DOMAIN services \cap DOMAIN services', p \in ProducerID :
          Publishes(n, p) =>
             \/ Publishes(n, p)'
             \/ Removing(n, p)
             \/ p \in Container /\ ForgetDockerPublication(n, p)
             \/ \E r \in registering :
                   r.pc = "publish" /\ r.name = n /\ r.rec.owner = services[n].owner]_services

=============================================================================
