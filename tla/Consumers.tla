----------------------------- MODULE Consumers ------------------------------
(***************************************************************************)
(* The consumers of a daemon, composed with it: HTTP requests on their way *)
(* through the router (internal/proxy/http.go), and "services resolve"     *)
(* commands (cmd/devmesh/cmds/services/resolve.go) polling the API.        *)
(*                                                                         *)
(* Neither takes Daemon.mutate.  A request reads the route, then the       *)
(* registry, then dials; a command looks the service up, then decides, and *)
(* registrations, removals and restarts happen in between.                 *)
(***************************************************************************)
EXTENDS Daemon

CONSTANTS
    Request,      \* HTTP requests
    HostHeader,   \* the Host headers they carry
    Command,      \* resolve commands
    CommandLines  \* the arguments they are started with

VARIABLES
    requests,     \* each request's way through ServeHTTP
    commands      \* each command's way through its loop

consumerVars == <<vars, requests, commands>>

ASSUME HeaderAssumption == HostHeader \subseteq Host

ASSUME CommandAssumption == CommandLines \subseteq [name : Name, raw : BOOLEAN, wait : BOOLEAN]

-----------------------------------------------------------------------------
(* HTTP requests. *)

\* The backends published, by the router key of their service.  A request
\* collects in "known" those its hostname had at some moment since it arrived.
Published ==
    {<<normalizeHost(services[n].hostname), services[n].backend>> :
        n \in {m \in DOMAIN services : services[m].kind = "http" /\ Reg!Ready(m)}}

At(published, host) == {b \in Backend : <<normalizeHost(host), b>> \in published}

HttpRequest ==
    [pc : {"none", "lookup", "provider", "proxy", "404", "503", "502", "200"},
     host : Host, name : Name \cup {NoLabel}, target : Backend \cup {NoBackend},
     known : SUBSET Backend]

NoRequest == [pc |-> "none", host |-> NoHost, name |-> NoLabel, target |-> NoBackend, known |-> {}]

InFlight(x) == requests[x].pc \in {"lookup", "provider", "proxy"}

Arrive(x, host) ==
    /\ ~InFlight(x)
    /\ requests' = [requests EXCEPT ![x] =
          [NoRequest EXCEPT !.pc = "lookup", !.host = host, !.known = At(Published, host)]]
    /\ UNCHANGED <<vars, commands>>

\* Mutant: the Host header is looked up as it comes.
LookupRaw(x) ==
    /\ requests[x].pc = "lookup"
    /\ LET key == requests[x].host IN
       requests' = [requests EXCEPT ![x] =
          IF key \in DOMAIN routes
            THEN [@ EXCEPT !.pc = "provider", !.name = routes[key]]
            ELSE [NoRequest EXCEPT !.pc = "404"]]
    /\ UNCHANGED <<vars, commands>>

Lookup(x) ==
    /\ requests[x].pc = "lookup"
    /\ LET key == normalizeHost(requests[x].host) IN
       requests' = [requests EXCEPT ![x] =
          IF key \in DOMAIN routes
            THEN [@ EXCEPT !.pc = "provider", !.name = routes[key]]
            ELSE [NoRequest EXCEPT !.pc = "404"]]
    /\ UNCHANGED <<vars, commands>>

\* The route's closure: the backend of a ready service, or nil.
provider(name) == IF Reg!Ready(name) THEN services[name].backend ELSE NoBackend

Provide(x) ==
    /\ requests[x].pc = "provider"
    /\ LET backend == provider(requests[x].name) IN
       requests' = [requests EXCEPT ![x] =
          IF backend = NoBackend
            THEN [NoRequest EXCEPT !.pc = "503"]
            ELSE [@ EXCEPT !.pc = "proxy", !.target = backend]]
    /\ UNCHANGED <<vars, commands>>

\* Mutant: Rewrite asks the provider again.
ProxyResolvesAgain(x) ==
    /\ requests[x].pc = "proxy"
    /\ \E pc \in {"200", "502"} :
         requests' = [requests EXCEPT ![x] =
            [@ EXCEPT !.pc = pc, !.target = provider(requests[x].name)]]
    /\ UNCHANGED <<vars, commands>>

\* The request is sent to the backend of its snapshot, which answers or fails.
Proxy(x) ==
    /\ requests[x].pc = "proxy"
    /\ \E pc \in {"200", "502"} : requests' = [requests EXCEPT ![x].pc = pc]
    /\ UNCHANGED <<vars, commands>>

-----------------------------------------------------------------------------
(* The resolve command. *)

\* "status" is what the last lookup returned: "404", another error of the
\* request, one that tells nothing of the service (nobody answers, or 500 and
\* above), or the status of its record; "fresh" that the daemon it came from
\* still runs.
Resolving ==
    [pc : {"none", "lookup", "decide", "printed", "failed"},
     name : Name \cup {NoLabel}, raw : BOOLEAN, wait : BOOLEAN, late : BOOLEAN,
     status : Reg!Status \cup {"404", "4xx", "error"}, frontend : Frontend, fresh : BOOLEAN]

NoCommand ==
    [pc |-> "none", name |-> NoLabel, raw |-> FALSE, wait |-> FALSE, late |-> FALSE,
     status |-> "error", frontend |-> NoFrontend, fresh |-> FALSE]

Invoke(c, line) ==
    /\ commands[c].pc \in {"none", "printed", "failed"}
    /\ commands' = [commands EXCEPT ![c] =
          [NoCommand EXCEPT !.pc = "lookup", !.name = line.name, !.raw = line.raw,
                            !.wait = line.wait]]
    /\ UNCHANGED <<vars, requests>>

\* What consumers are shown of a record.
serviceDTO(rec) == [status |-> rec.status, frontend |-> rec.frontend]

Resolve(name) ==
    IF name \in DOMAIN services
      THEN serviceDTO(services[name])
      ELSE [status |-> "404", frontend |-> NoFrontend]

\* GET /v1/services/{name} (handleResolve), or a call that fails.
LookupService(c) ==
    /\ commands[c].pc = "lookup"
    /\ LET dto == Resolve(commands[c].name) IN
       commands' \in
         {[commands EXCEPT ![c] = [@ EXCEPT !.pc = "decide", !.status = failure]] :
             failure \in {"4xx", "error"}} \cup
         {[commands EXCEPT ![c] = [@ EXCEPT !.pc = "decide", !.status = dto.status,
                                            !.frontend = dto.frontend, !.fresh = TRUE]]}
    /\ UNCHANGED <<vars, requests>>

\* An unavailable service, and an error that is retryable (resolve.go:155), are
\* tried again.
Retries(m) == m.wait /\ ~m.late /\ m.status # "4xx"

\* Mutant: the row of an unavailable service passes for a result with --raw too.
OutcomeAnyStatus(m) ==
    IF m.status = "ready" THEN "printed"
    ELSE IF Retries(m) THEN "lookup"
    ELSE IF m.status = "unavailable" THEN "printed" ELSE "failed"

\* Mutant: every reply but a ready service is worth another try.
OutcomeForever(m) ==
    IF m.status = "ready" THEN "printed"
    ELSE IF m.wait THEN "lookup"
    ELSE IF m.status = "unavailable" /\ ~m.raw THEN "printed" ELSE "failed"

\* What the loop does with a reply: a ready service is printed; otherwise it
\* tries again until the deadline; then only a row of the table may show an
\* unavailable service.
Outcome(m) ==
    IF m.status = "ready" THEN "printed"
    ELSE IF Retries(m) THEN "lookup"
    ELSE IF m.status = "unavailable" /\ ~m.raw THEN "printed" ELSE "failed"

\* A reply that is not printed is forgotten.
Decide(c) ==
    /\ commands[c].pc = "decide"
    /\ LET to == Outcome(commands[c]) IN
       commands' = [commands EXCEPT ![c] =
          IF to = "printed"
            THEN [@ EXCEPT !.pc = to]
            ELSE [@ EXCEPT !.pc = to, !.status = "error", !.frontend = NoFrontend, !.fresh = FALSE]]
    /\ UNCHANGED <<vars, requests>>

\* time.Until(deadline) reaches zero.
Deadline(c) ==
    /\ commands[c].pc \in {"lookup", "decide"}
    /\ commands[c].wait /\ ~commands[c].late
    /\ commands' = [commands EXCEPT ![c].late = TRUE]
    /\ UNCHANGED <<vars, requests>>

\* The command is interrupted, during a lookup or the sleep before it.
Interrupt(c) ==
    /\ commands[c].pc = "lookup"
    /\ commands' = [commands EXCEPT ![c].pc = "failed"]
    /\ UNCHANGED <<vars, requests>>

-----------------------------------------------------------------------------
(* The daemon. *)

\* The consumers do not hold it up; requests in flight see what it publishes.
DaemonOperates ==
    /\ Operation
    /\ requests' = [x \in Request |->
          IF InFlight(x)
            THEN [requests[x] EXCEPT !.known = @ \cup At(Published', requests[x].host)]
            ELSE requests[x]]
    /\ UNCHANGED commands

\* Requests end with the process that serves them; a command goes on, with
\* what the old daemon told it.
DaemonRestarts ==
    /\ Restart
    /\ requests' = [x \in Request |-> NoRequest]
    /\ commands' = [c \in Command |-> [commands[c] EXCEPT !.fresh = FALSE]]

-----------------------------------------------------------------------------
ConsumersInit ==
    /\ Init
    /\ requests = [x \in Request |-> NoRequest]
    /\ commands = [c \in Command |-> NoCommand]

ServeHTTP(x) == Lookup(x) \/ Provide(x) \/ Proxy(x)

Loop(c) == LookupService(c) \/ Decide(c)

ConsumersNext ==
    \/ DaemonOperates
    \/ DaemonRestarts
    \/ \E x \in Request : ServeHTTP(x) \/ \E host \in HostHeader : Arrive(x, host)
    \/ \E c \in Command :
          Loop(c) \/ Deadline(c) \/ Interrupt(c) \/ \E line \in CommandLines : Invoke(c, line)

ConsumersSpec == ConsumersInit /\ [][ConsumersNext]_consumerVars

\* A command runs on and its deadline comes; the daemon need not do anything.
ConsumersFairSpec ==
    /\ ConsumersSpec
    /\ \A c \in Command : WF_consumerVars(Loop(c)) /\ WF_consumerVars(Deadline(c))

-----------------------------------------------------------------------------
(* Properties. *)

\* The consumers' state is well formed.
ConsumersTypeOK ==
    /\ requests \in [Request -> HttpRequest]
    /\ commands \in [Command -> Resolving]

\* A request is sent to a backend that was published for its hostname while it
\* was in flight: never to one retired before it arrived, to another service's,
\* or to none, whatever is registered and removed between its steps.
RequestReachesItsService ==
    \A x \in Request : requests[x].pc \in {"proxy", "200", "502"}
        => requests[x].target \in requests[x].known

\* The hostname of a service whose registration has returned is not answered
\* with 404 while the daemon runs, ready or not and however it is spelled.
RegisteredHostIsFound ==
    [][\A x \in Request : requests[x].pc = "lookup" /\ requests'[x].pc = "404" =>
          \A n \in DOMAIN services :
             /\ services[n].kind = "http"
             /\ normalizeHost(services[n].hostname) = normalizeHost(requests[x].host)
             => \E r \in registering : r.name = n /\ r.pc = "route"]_consumerVars

\* What resolve has printed is, as long as the daemon runs that answered it, the
\* frontend of the service, and --raw has printed it of a ready one only
\* (resolve.go: "Raw output must never print an unavailable endpoint").
PrintedEndpointIsServed ==
    \A c \in Command : commands[c].pc = "printed" =>
        /\ commands[c].raw => commands[c].status = "ready"
        /\ commands[c].fresh =>
              /\ commands[c].name \in DOMAIN services
              /\ services[commands[c].name].frontend = commands[c].frontend

\* Every resolve command ends, whether or not its service ever appears.
ResolveEnds ==
    \A c \in Command :
        commands[c].pc = "lookup" ~> commands[c].pc \in {"printed", "failed"}

=============================================================================
