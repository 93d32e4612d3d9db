--------------------------- MODULE DockerWatcher ----------------------------
(***************************************************************************)
(* internal/dockerwatch composed with the registry: one goroutine that     *)
(* lists, inspects and registers labeled containers, and consumes their    *)
(* lifecycle events, while containers start, stop and restart.  Nothing it *)
(* reads from Docker needs to be true any more when it acts on it.         *)
(*                                                                         *)
(* Every start of a container publishes another host port, so a backend    *)
(* tells which incarnation it belongs to.  Module Inspection decides which *)
(* containers are eligible.                                                *)
(* OnRegister and OnForget run under Daemon.mutate and are single steps on *)
(* the registry; process producers take the same names at other times.     *)
(***************************************************************************)
EXTENDS Inspection, Functions

CONSTANTS
    Container,     \* IDs of containers
    Creations,     \* what each of them may have been created with: name, labels, addresses
    AllowNonLoopback, \* docker.allow_non_loopback_published_ports
    Process,       \* registrations of process producers; each is its own owner
    NoBackend,
    ReconcileAttempts, \* attempts of reconcileWithRetry (5 in the code)
    PublishRetries,    \* retries while the port is not published (7 in the code)
    MaxStarts,     \* bound on the starts of each container
    MaxFaults      \* bound on failed Docker calls, failed registrations, broken streams

VARIABLES
    services,      \* Registry.services
    tracked,       \* Watcher.tracked
    status,        \* Daemon.dockerStatus
    pc,            \* where the watcher goroutine is
    caller,        \* what it is in the middle of: the caller of Reconcile, or an event
    retries,       \* failed attempts of reconcileWithRetry or registerContainer
    todo, seen,    \* Reconcile: containers still to register; containers listed
    current,       \* registerContainer: the container, if any, and what inspect said
    forgotten,     \* registrations taken out of tracked and not yet forgotten
    stream,        \* events Docker has sent and the watcher not received
    subscribed,    \* the event stream is open
    config,        \* Docker: what each container was created with
    state,         \* Docker: stopped, starting (port not published yet), running
    starts,        \* Docker: how often each container has started
    faults

watcherVars == <<tracked, status, pc, caller, retries, todo, seen, current, forgotten>>
dockerVars == <<stream, subscribed, config, state, starts>>
vars == <<services, watcherVars, dockerVars, faults>>

Reg == INSTANCE Registry

Created == UNION Range(Creations)

Name == {x.labels.name : x \in Created}

Service(c) == config[c].labels.name

Owner(c) == OwnerKey(config[c].name, config[c].labels)

Managed(c) == ParseLabels(config[c].labels) = "managed"

ASSUME ContainerAssumption ==
    /\ DOMAIN Creations = Container
    /\ \A x \in Created :
         /\ x.labels \in [enable : BOOLEAN, name : STRING, containerPort : Int, kind : STRING,
                         preferredPort : SUBSET Int, project : STRING, service : STRING]
         /\ x.addresses \in Seq(STRING)
    /\ AllowNonLoopback \in BOOLEAN
    /\ Process \cap Container = {}

ASSUME BoundAssumption ==
    /\ ReconcileAttempts \in Nat /\ PublishRetries \in Nat
    /\ MaxStarts \in Nat \ {0} /\ MaxFaults \in Nat

Fault == faults < MaxFaults /\ faults' = faults + 1

-----------------------------------------------------------------------------
(* Registry operations behind the callbacks. *)

Record(owner, producer, backend) ==
    [owner |-> owner, producer |-> producer, backend |-> backend, status |-> "ready"]

\* ForgetDockerPublication.
OnForget(c) == Reg!ClearBackendIf(Service(c), c)

-----------------------------------------------------------------------------
(* Reconcile. *)

\* Reconcile and handleEvent return to the event loop; a new one starts after
\* startup and after a reconnect.
Return ==
    /\ pc' = IF caller \in {"startup", "reconnect"} THEN "subscribe" ELSE "select"
    /\ caller' = "none"

\* The containers present in the list, with labels that parse.
Listed == {c \in Container : state[c] # "stopped" /\ Managed(c)}

List ==
    /\ pc = "list"
    /\ todo' = Listed
    /\ seen' = Listed
    /\ pc' = "next"
    /\ UNCHANGED <<services, tracked, status, caller, retries, current, forgotten, dockerVars, faults>>

\* At startup the watcher tries again a few times and then goes on degraded;
\* a failed tick is logged; a failed reconnect goes back to the event stream.
ListFails ==
    /\ pc = "list"
    /\ Fault
    /\ IF caller = "startup" /\ retries + 1 < ReconcileAttempts
         THEN retries' = retries + 1 /\ UNCHANGED <<pc, caller, status>>
         ELSE /\ Return
              /\ status' = IF caller = "startup" THEN "degraded" ELSE status
              /\ retries' = 0
    /\ UNCHANGED <<services, tracked, todo, seen, current, forgotten, dockerVars>>

\* Mutant: a container that is tracked already is not looked at again.
NextContainerUntrackedOnly ==
    /\ pc = "next"
    /\ \E c \in todo :
         /\ todo' = todo \ ({c} \cup tracked)
         /\ current' = {[id |-> x, backend |-> NoBackend] : x \in {c} \ tracked}
         /\ pc' = IF c \in tracked THEN "next" ELSE "inspect"
    /\ retries' = 0
    /\ UNCHANGED <<services, tracked, status, caller, seen, forgotten, dockerVars, faults>>

NextContainer ==
    /\ pc = "next"
    /\ \E c \in todo :
         /\ todo' = todo \ {c}
         /\ current' = {[id |-> c, backend |-> NoBackend]}
    /\ retries' = 0
    /\ pc' = "inspect"
    /\ UNCHANGED <<services, tracked, status, caller, seen, forgotten, dockerVars, faults>>

ForgetAbsent ==
    /\ pc = "next"
    /\ todo = {}
    /\ forgotten' = tracked \ seen
    /\ tracked' = tracked \cap seen
    /\ seen' = {}
    /\ pc' = "forget"
    /\ UNCHANGED <<services, status, caller, retries, todo, current, dockerVars, faults>>

\* forget each of them; then the pass, or the event, is done.
Forget ==
    /\ pc = "forget"
    /\ \E c \in forgotten : OnForget(c) /\ forgotten' = forgotten \ {c}
    /\ UNCHANGED <<tracked, status, pc, caller, retries, todo, seen, current, dockerVars, faults>>

Finish ==
    /\ pc = "forget"
    /\ forgotten = {}
    /\ Return
    /\ status' = IF caller \in {"startup", "reconnect"} THEN "connected" ELSE status
    /\ retries' = 0
    /\ UNCHANGED <<services, tracked, todo, seen, current, forgotten, dockerVars, faults>>

-----------------------------------------------------------------------------
(* registerContainer. *)

\* On to the next container of the list, or back to the event loop.
Leave ==
    /\ current' = {}
    /\ retries' = 0
    /\ IF caller = "event" THEN Return ELSE pc' = "next" /\ UNCHANGED caller

\* What Docker reports as the bindings of the managed port: before it is
\* published there are none, or their host ports are missing.
Bindings(c, port) ==
    [i \in DOMAIN config[c].addresses |-> [ip |-> config[c].addresses[i], port |-> port]]

Reported(c) ==
    IF state[c] = "running" THEN {Bindings(c, starts[c])} ELSE {<< >>, Bindings(c, NoPort)}

\* Mutant: the wait for the port has no bound.
InspectForever(r) ==
    /\ pc = "inspect"
    /\ state[r.id] = "starting"
    /\ retries' = retries + 1
    /\ UNCHANGED <<services, tracked, status, pc, caller, current, todo, seen, forgotten,
                   dockerVars, faults>>

Inspect(r) ==
    /\ pc = "inspect"
    /\ \/ /\ state[r.id] = "stopped"      \* not, or no longer, eligible
          /\ Leave
       \/ /\ state[r.id] # "stopped"
          /\ \E bindings \in Reported(r.id) :
               LET answer == RegistrationFromInspect(config[r.id].labels, bindings, AllowNonLoopback)
               IN \/ /\ answer = "ok"
                     /\ current' = {[r EXCEPT !.backend = Backend(Chosen(bindings))]}
                     /\ pc' = "register"
                     /\ UNCHANGED <<caller, retries>>
                  \/ /\ answer = "notPublished" /\ retries < PublishRetries
                     /\ retries' = retries + 1
                     /\ UNCHANGED <<pc, caller, current>>
                  \/ /\ answer # "ok"
                     /\ answer = "notPublished" => retries = PublishRetries
                     /\ Leave
    /\ UNCHANGED <<services, tracked, status, todo, seen, forgotten, dockerVars, faults>>

\* Mutant: only a container that could be inspected counts as seen.
InspectFailsUnseen(r) ==
    /\ pc = "inspect"
    /\ Fault
    /\ Leave
    /\ seen' = seen \ {r.id}
    /\ UNCHANGED <<services, tracked, status, todo, forgotten, dockerVars>>

InspectFails(r) ==
    /\ pc = "inspect"
    /\ Fault
    /\ Leave
    /\ UNCHANGED <<services, tracked, status, todo, seen, forgotten, dockerVars>>

Publication(r) == Record(Owner(r.id), r.id, r.backend)

\* Mutant: the publication is not tracked.
OnRegisterUntracked(r) ==
    /\ pc = "register"
    /\ Reg!CreateOrReplaceOwned(Service(r.id), Publication(r))
    /\ Leave
    /\ UNCHANGED <<tracked, status, todo, seen, forgotten, dockerVars, faults>>

\* OnRegister, with what inspect saw; only a success is tracked.
OnRegister(r) ==
    /\ pc = "register"
    /\ \/ /\ Reg!CreateOrReplaceOwned(Service(r.id), Publication(r))
          /\ tracked' = IF Reg!NameConflict(Service(r.id), Owner(r.id))
                          THEN tracked ELSE tracked \cup {r.id}
          /\ UNCHANGED faults
       \/ Fault /\ UNCHANGED <<services, tracked>>   \* no frontend port
    /\ Leave
    /\ UNCHANGED <<status, todo, seen, forgotten, dockerVars>>

-----------------------------------------------------------------------------
(* eventLoop. *)

Subscribe ==
    /\ pc = "subscribe"
    /\ subscribed' = TRUE
    /\ stream' = << >>
    /\ pc' = "select"
    /\ UNCHANGED <<services, tracked, status, caller, retries, todo, seen, current, forgotten,
                   config, state, starts, faults>>

handleEvent ==
    /\ pc = "select"
    /\ stream # << >>
    /\ stream' = Tail(stream)
    /\ caller' = "event"
    /\ LET m == Head(stream) IN
       \/ /\ m.action = "start"
          /\ current' = {[id |-> m.id, backend |-> NoBackend]}
          /\ pc' = "inspect"
          /\ UNCHANGED <<tracked, forgotten>>
       \/ /\ m.action = "die"
          /\ forgotten' = tracked \cap {m.id}
          /\ tracked' = tracked \ {m.id}
          /\ pc' = "forget"
          /\ UNCHANGED current
    /\ retries' = 0
    /\ UNCHANGED <<services, status, todo, seen, subscribed, config, state, starts, faults>>

ReconcileTick ==
    /\ pc = "select"
    /\ caller' = "tick"
    /\ pc' = "list"
    /\ UNCHANGED <<services, tracked, status, retries, todo, seen, current, forgotten, dockerVars, faults>>

\* The stream fails; what it still held is lost.  After a back-off the watcher
\* reconciles and subscribes again.
StreamFails ==
    /\ pc = "select"
    /\ Fault
    /\ subscribed' = FALSE
    /\ stream' = << >>
    /\ status' = "degraded"
    /\ caller' = "reconnect"
    /\ pc' = "list"
    /\ UNCHANGED <<services, tracked, retries, todo, seen, current, forgotten, config, state, starts>>

-----------------------------------------------------------------------------
(* Docker and the other producers. *)

Emit(action, c) ==
    stream' = IF subscribed THEN Append(stream, [action |-> action, id |-> c]) ELSE stream

ContainerStarts(c) ==
    /\ state[c] = "stopped"
    /\ starts[c] < MaxStarts
    /\ starts' = [starts EXCEPT ![c] = @ + 1]
    /\ state' = [state EXCEPT ![c] = "starting"]
    /\ Emit("start", c)
    /\ UNCHANGED <<services, watcherVars, subscribed, config, faults>>

PortPublished(c) ==
    /\ state[c] = "starting"
    /\ state' = [state EXCEPT ![c] = "running"]
    /\ UNCHANGED <<services, watcherVars, stream, subscribed, config, starts, faults>>

ContainerDies(c) ==
    /\ state[c] # "stopped"
    /\ state' = [state EXCEPT ![c] = "stopped"]
    /\ Emit("die", c)
    /\ UNCHANGED <<services, watcherVars, subscribed, config, starts, faults>>

\* A process producer takes a free name through the API, and ends later.
ProcessRegisters(n, p) ==
    /\ \A m \in DOMAIN services : services[m].producer # p
    /\ ~Reg!NameConflict(n, <<p>>)
    /\ Reg!CreateOrReplaceOwned(n, Record(<<p>>, p, [host |-> "127.0.0.1", port |-> NoPort]))
    /\ UNCHANGED <<watcherVars, dockerVars, faults>>

ProcessEnds(n, p) ==
    /\ Reg!Ready(n)
    /\ services[n].producer = p
    /\ Reg!ClearBackendIf(n, p)
    /\ UNCHANGED <<watcherVars, dockerVars, faults>>

-----------------------------------------------------------------------------
Init ==
    /\ Reg!Init
    /\ tracked = {} /\ status = "degraded"
    /\ pc = "list" /\ caller = "startup" /\ retries = 0
    /\ todo = {} /\ seen = {} /\ current = {} /\ forgotten = {}
    /\ stream = << >> /\ subscribed = FALSE
    /\ config \in {f \in [Container -> Created] : \A c \in Container : f[c] \in Creations[c]}
    /\ state \in [Container -> {"stopped", "running"}]
    /\ starts = [c \in Container |-> 1]
    /\ faults = 0

Run ==
    \/ List \/ NextContainer \/ ForgetAbsent \/ Forget \/ Finish
    \/ \E r \in current : Inspect(r) \/ InspectFails(r) \/ OnRegister(r)
    \/ Subscribe

Next ==
    \/ Run \/ ListFails \/ handleEvent \/ ReconcileTick \/ StreamFails
    \/ \E c \in Container : ContainerStarts(c) \/ PortPublished(c) \/ ContainerDies(c)
    \/ \E n \in Name, p \in Process : ProcessRegisters(n, p) \/ ProcessEnds(n, p)

Spec == Init /\ [][Next]_vars

\* The goroutine runs on, select serves every ready case, the ticker fires, and
\* a started container gets its port.
Fairness ==
    /\ WF_vars(Run)
    /\ SF_vars(handleEvent)
    /\ SF_vars(ReconcileTick)
    /\ \A c \in Container : WF_vars(PortPublished(c))

FairSpec == Spec /\ Fairness

-----------------------------------------------------------------------------
(* Properties. *)

Target == [host : {"127.0.0.1", "::1"}, port : Nat] \cup {NoBackend}

Published ==
    [owner : {Owner(c) : c \in Container} \cup {<<p>> : p \in Process},
     producer : Container \cup Process, backend : Target, status : Reg!Status]

\* The state is well formed.
TypeOK ==
    /\ DOMAIN services \subseteq Name
    /\ \A n \in DOMAIN services : services[n] \in Published
    /\ \A c \in Container : config[c] \in Creations[c]
    /\ tracked \subseteq Container /\ todo \subseteq Container
    /\ seen \subseteq Container /\ forgotten \subseteq Container
    /\ status \in {"connected", "degraded"}
    /\ pc \in {"list", "next", "inspect", "register", "forget", "subscribe", "select"}
    /\ caller \in {"none", "startup", "tick", "reconnect", "event"}
    /\ retries \in Nat /\ (retries < ReconcileAttempts \/ retries <= PublishRetries)
    /\ current \subseteq [id : Container, backend : Target]
    /\ stream \in Seq([action : {"start", "die"}, id : Container])
    /\ subscribed \in BOOLEAN
    /\ state \in [Container -> {"stopped", "starting", "running"}]
    /\ starts \in [Container -> 1 .. MaxStarts]
    /\ faults \in 0 .. MaxFaults

\* No publication of a container is lost track of: it is tracked, so that its
\* stop event or the next reconciliation ends it, or it is being forgotten.
PublicationIsTracked ==
    \A n \in DOMAIN services :
        Reg!Ready(n) /\ services[n].producer \in Container
            => services[n].producer \in tracked \cup forgotten

\* What is published of a container is published on loopback only, at every
\* address of the managed port, and at an address the container listens on:
\* "another binding for the managed target can still expose the container on
\* the LAN" (inspect.go:75-76).
OnlyLoopbackIsPublished ==
    \A n \in DOMAIN services :
        Reg!Ready(n) /\ services[n].producer \in Container /\ ~AllowNonLoopback =>
            LET addresses == Range(config[services[n].producer].addresses)
            IN  services[n].backend.host \in addresses /\ addresses \subseteq {"127.0.0.1", "::1"}

\* The container is published and listens there.
InPlace(c) ==
    /\ Reg!Ready(Service(c))
    /\ services[Service(c)].producer = c
    /\ state[c] = "running"
    /\ services[Service(c)].backend.port = starts[c]

\* "A transient failure must not fabricate disappearance" (watcher.go:157): a
\* reconciliation gives up no container that runs where it is published, though
\* it could not be inspected or registered in this pass.
PresentContainerIsKept ==
    [][\A c \in forgotten' \ forgotten : caller' = "event" \/ ~InPlace(c)]_vars

\* A publication that points at where its container really listens.
Current(n) ==
    /\ Reg!Ready(n)
    /\ services[n].producer \in Container =>
         /\ state[services[n].producer] = "running"
         /\ services[n].backend.port = starts[services[n].producer]

\* Containers the operator may expect to be published.
Eligible(c) ==
    /\ Managed(c)
    /\ config[c].addresses # << >>
    /\ AllowNonLoopback \/ Range(config[c].addresses) \subseteq {"127.0.0.1", "::1"}

\* Once containers settle and faults cease, a running container's service is
\* published, at a backend that is alive, whatever events were lost, delivered
\* late or overtaken by a reconciliation, and whoever held the name before.
RunningContainerIsServed ==
    <>[](\A c \in Container : state[c] = "running" /\ Eligible(c) => Current(Service(c)))

\* Once they settle, nothing points at a stopped container or at a port that
\* a restarted one no longer has.
StoppedContainerIsForgotten ==
    <>[](\A n \in DOMAIN services : Reg!Ready(n) => Current(n))

\* The guide reports degraded under the heading "Docker unavailable".  Once
\* Docker answers again, the status says so.
StatusRecovers == <>[](status = "connected")

=============================================================================
