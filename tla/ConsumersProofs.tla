--------------------------- MODULE ConsumersProofs --------------------------
(***************************************************************************)
(* Theorems about the router and the consumers: where a hostname leads,    *)
(* where a request ends up, and what "services resolve" prints, for every  *)
(* choice of the constants.                                                *)
(***************************************************************************)
EXTENDS Consumers, DaemonProofs

-----------------------------------------------------------------------------
(* Routes and records, however the hostnames are spelled.                  *)

\* n is a service that the router key k may lead to.
ServedAt(k, n) ==
    /\ n \in DOMAIN services
    /\ services[n].kind = "http"
    /\ normalizeHost(services[n].hostname) = k

\* The router knows the hostname of n, or will before Register returns.
HasRoute(n) ==
    \/ normalizeHost(services[n].hostname) \in DOMAIN routes
    \/ \E r \in registering : r.name = n /\ r.pc = "route"

KeyInv ==
    /\ \A k \in DOMAIN routes : ServedAt(k, routes[k])
    /\ \A n \in DOMAIN services : services[n].kind = "http" => HasRoute(n)

-----------------------------------------------------------------------------
(* The invariant of the consumers. *)

\* What a request has seen so far: everything published at its hostname since
\* it arrived; then a service of that hostname; then one of those backends.
RequestInv(x) ==
    /\ InFlight(x) => At(Published, requests[x].host) \subseteq requests[x].known
    /\ requests[x].pc = "provider" => ServedAt(normalizeHost(requests[x].host), requests[x].name)
    /\ requests[x].pc \in {"proxy", "200", "502"} => requests[x].target \in requests[x].known

\* What a reply that is still fresh says of the service.
ReplyInv(c) ==
    /\ commands[c].pc \notin {"decide", "printed"} => ~commands[c].fresh
    /\ commands[c].fresh /\ commands[c].status \in Reg!Status =>
         /\ commands[c].name \in DOMAIN services
         /\ services[commands[c].name].frontend = commands[c].frontend
    /\ commands[c].pc = "printed" =>
         \/ commands[c].status = "ready"
         \/ commands[c].status = "unavailable" /\ ~commands[c].raw

ConsumersInv ==
    /\ ConsumersTypeOK
    /\ KeyInv
    /\ \A x \in Request : RequestInv(x)
    /\ \A c \in Command : ReplyInv(c)

\* Nothing but a restart takes a service out of the registry, and what stays
\* keeps its hostname.
LEMMA OperationKeepsServices ==
    ASSUME IInv, Operation
    PROVE  /\ DOMAIN services \subseteq DOMAIN services'
           /\ \A k, n : ServedAt(k, n) => ServedAt(k, n)'
           /\ \A n \in DOMAIN services : services'[n].frontend = services[n].frontend
  <1>1. DOMAIN services \subseteq DOMAIN services'
    <2>1. \/ services' = services
          \/ \E r \in registering : Publish(r)
          \/ \E name, producer : endPublication(name, producer)
      BY Zenon DEF Operation, Register, RegisterStep, EnsureTCPRuntime, SetRoute, AddLease, Heartbeat,
             DeleteRegistration, EndDeletion, TakeExpired, EndExpired, ForgetDockerPublication,
             Tick, IInv, TypeOK, Removal
    <2>2. ASSUME NEW r, Publish(r) PROVE DOMAIN services \subseteq DOMAIN services'
      BY <2>2 DEF Publish, Reg!CreateOrReplaceOwned, Reg!Put
    <2>3. ASSUME NEW name, NEW producer, endPublication(name, producer)
          PROVE  DOMAIN services \subseteq DOMAIN services'
      BY <2>3 DEF endPublication, Reg!ClearBackendIf, Reg!Put
    <2> QED
      BY <2>1, <2>2, <2>3
  <1>2. \A n \in DOMAIN services :
          /\ services'[n].kind = services[n].kind
          /\ services'[n].hostname = services[n].hostname
          /\ services'[n].frontend = services[n].frontend
    BY <1>1, ServicesStep DEF Next
  <1>3. ASSUME NEW k, NEW n, ServedAt(k, n) PROVE ServedAt(k, n)'
    BY <1>1, <1>2, <1>3 DEF ServedAt
  <1> QED
    BY <1>1, <1>2, <1>3

\* A route installed leads to the record just published, and every record gets
\* its route.
LEMMA OperationKeyInv ==
    ASSUME IInv, KeyInv, Operation
    PROVE  KeyInv'
  <1> DEFINE key(n) == normalizeHost(services[n].hostname)
  <1>0. \A k \in DOMAIN routes :
          LET n == routes[k] IN
          /\ n \in DOMAIN services'
          /\ services'[n].kind = "http"
          /\ normalizeHost(services'[n].hostname) = k
    BY OperationKeepsServices DEF KeyInv, ServedAt
  <1>1. \A n \in DOMAIN services : n \in DOMAIN services' /\ key(n)' = key(n) /\ services'[n].kind = services[n].kind
    BY OperationKeepsServices, ServicesStep DEF Next
  <1>2. ASSUME NEW r \in registering, Publish(r) PROVE KeyInv'
    <2>1. /\ r.pc = "publish" /\ registering = {r} /\ UNCHANGED routes /\ UnderWay(r)
          /\ r \in Registration
      BY <1>2 DEF IInv, TypeOK, MutexInv, Publish
    <2>2. /\ DOMAIN services' = DOMAIN services \cup {r.name}
          /\ services'[r.name] = r.rec
          /\ r.rec.kind = "http" => registering' = {[r EXCEPT !.pc = "route"]}
      BY <1>2, <2>1 DEF Publish, UnderWay, Reg!CreateOrReplaceOwned, Reg!Put
    <2>3. \A k \in DOMAIN routes : ServedAt(k, routes[k])'
      BY <1>0, <2>1 DEF KeyInv, ServedAt
    <2>4. ASSUME NEW n \in DOMAIN services', services'[n].kind = "http" PROVE HasRoute(n)'
      <3>1. CASE n = r.name
        <4>1. r.rec.kind = "http"
          BY <2>2, <2>4, <3>1
        <4>2. \E s \in registering' : s.name = n /\ s.pc = "route"
          BY <2>1, <2>2, <3>1, <4>1, Zenon DEF Registration
        <4> QED
          BY <4>2 DEF HasRoute
      <3>2. CASE n # r.name
        <4>1. n \in DOMAIN services /\ HasRoute(n)
          BY <1>1, <2>2, <2>4, <3>2 DEF KeyInv
        <4>2. key(n) \in DOMAIN routes
          BY <2>1, <3>2, <4>1 DEF HasRoute
        <4> QED
          BY <1>1, <2>1, <4>1, <4>2 DEF HasRoute
      <3> QED
        BY <3>1, <3>2
    <2> QED
      BY <2>1, <2>3, <2>4 DEF KeyInv, ServedAt
  <1>3. ASSUME NEW r \in registering, SetRoute(r) PROVE KeyInv'
    <2>1. /\ r.pc = "route" /\ registering = {r} /\ UNCHANGED services /\ UnderWay(r)
          /\ r \in Registration
      BY <1>3 DEF IInv, TypeOK, MutexInv, SetRoute
    <2>2. r.name \in DOMAIN services /\ services[r.name] = r.rec /\ r.rec.kind = "http"
      BY <2>1 DEF UnderWay
    <2>3. /\ DOMAIN routes' = DOMAIN routes \cup {key(r.name)}
          /\ \A k \in DOMAIN routes' : routes'[k] = IF k = key(r.name) THEN r.name ELSE routes[k]
      BY <1>3, <2>2 DEF SetRoute
    <2>4. ASSUME NEW k \in DOMAIN routes' PROVE ServedAt(k, routes[k])'
      <3>1. ServedAt(k, routes'[k])
        BY <2>2, <2>3 DEF KeyInv, ServedAt
      <3> QED
        BY <2>1, <3>1 DEF ServedAt
    <2>5. ASSUME NEW n \in DOMAIN services, services[n].kind = "http" PROVE HasRoute(n)'
      <3>1. key(n) \in DOMAIN routes'
        BY <2>1, <2>3, <2>5 DEF KeyInv, HasRoute
      <3> QED
        BY <1>1, <3>1 DEF HasRoute
    <2> QED
      BY <2>1, <2>4, <2>5 DEF KeyInv
  <1>4. ASSUME UNCHANGED routes, DOMAIN services' = DOMAIN services,
               \A r \in registering : r.pc = "route" => r \in registering'
        PROVE  KeyInv'
    <2>1. \A k \in DOMAIN routes : ServedAt(k, routes[k])'
      BY <1>0, <1>4 DEF KeyInv, ServedAt
    <2>2. ASSUME NEW n \in DOMAIN services', services'[n].kind = "http" PROVE HasRoute(n)'
      BY <1>1, <1>4, <2>2 DEF KeyInv, HasRoute
    <2> QED
      BY <1>4, <2>1, <2>2 DEF KeyInv, ServedAt
  <1>5. \/ \E r \in registering : Publish(r)
        \/ \E r \in registering : SetRoute(r)
        \/ /\ UNCHANGED routes
           /\ DOMAIN services' = DOMAIN services
           /\ \A r \in registering : r.pc = "route" => r \in registering'
    <2>1. \/ RegisterStep
          \/ /\ UNCHANGED <<services, routes>>
             /\ registering \subseteq registering'
          \/ /\ UNCHANGED <<routes, registering>>
             /\ \E name, producer : endPublication(name, producer)
      BY Zenon DEF Operation, Register, Heartbeat, DeleteRegistration, EndDeletion, TakeExpired, EndExpired,
             ForgetDockerPublication, Tick
    <2>2. ASSUME NEW name, NEW producer, endPublication(name, producer)
          PROVE  DOMAIN services' = DOMAIN services
      BY <2>2 DEF endPublication, Reg!ClearBackendIf, Reg!Put
    <2>3. ASSUME NEW r \in registering, EnsureTCPRuntime(r) \/ AddLease(r)
          PROVE  /\ UNCHANGED <<services, routes>>
                 /\ \A s \in registering : s.pc # "route"
      BY <2>3 DEF EnsureTCPRuntime, AddLease, IInv, MutexInv
    <2> QED
      BY <2>1, <2>2, <2>3 DEF RegisterStep
  <1> QED
    BY <1>2, <1>3, <1>4, <1>5

\* Routes and records stay together in every step of the daemon.
LEMMA NextKeyInv ==
    ASSUME IInv, KeyInv, [Next]_vars
    PROVE  KeyInv'
  <1>1. CASE Operation
    BY <1>1, OperationKeyInv
  <1>2. CASE Restart
    BY <1>2 DEF Restart, KeyInv
  <1>3. CASE UNCHANGED vars
    <2>1. UNCHANGED <<services, routes, registering>>
      BY <1>3 DEF vars
    <2> QED
      BY <2>1 DEF KeyInv, ServedAt, HasRoute
  <1> QED
    BY <1>1, <1>2, <1>3 DEF Next

-----------------------------------------------------------------------------
(* Hostnames have one owner. *)

Claims(n, hostname) ==
    n \in DOMAIN services /\ services[n].kind = "http" /\ services[n].hostname = hostname

\* Two services never claim one hostname, and a registration that has passed the
\* check still passes it when it publishes.
OwnerInv ==
    /\ \A m, n, h : Claims(m, h) /\ Claims(n, h) => m = n
    /\ \A r \in registering, m \in DOMAIN services :
          r.pc = "publish" /\ r.rec.kind = "http" /\ Claims(m, r.rec.hostname) => m = r.name

\* The conflict check of Register keeps hostnames apart, since the mutex is held
\* from the check to the publication.
LEMMA OperationOwnerInv ==
    ASSUME IInv, OwnerInv, Operation
    PROVE  OwnerInv'
  <1>1. ASSUME NEW p \in Requests, Register(p) PROVE OwnerInv'
    <2>1. \A n, h : Claims(n, h)' <=> Claims(n, h)
      BY <1>1 DEF Register, Claims
    <2>2. ASSUME NEW r \in registering', r.rec.kind = "http", NEW m, Claims(m, r.rec.hostname)
          PROVE  m = r.name
      <3>1. r.name = p.name /\ r.rec.kind = p.kind /\ r.rec.hostname = Hostname(p)
        BY <1>1, <2>2 DEF Register, NewRecord
      <3>2. Reg!FindByHostname(Hostname(p)) \subseteq {p.name}
        BY <1>1, <2>2, <3>1 DEF Register, OwnsHostname
      <3> QED
        BY <2>2, <3>1, <3>2 DEF Claims, Reg!FindByHostname
    <2> QED
      BY <2>1, <2>2 DEF OwnerInv
  <1>2. ASSUME NEW r \in registering, Publish(r) PROVE OwnerInv'
    <2>1. /\ r.pc = "publish" /\ registering = {r} /\ UnderWay(r) /\ r \in Registration
      BY <1>2 DEF IInv, TypeOK, MutexInv, Publish
    <2>2. /\ DOMAIN services' = DOMAIN services \cup {r.name}
          /\ services'[r.name] = r.rec
          /\ \A n \in DOMAIN services : n # r.name => services'[n] = services[n]
          /\ \A s \in registering' : s.pc # "publish"
      BY <1>2, <2>1 DEF Publish, UnderWay, AfterPublish, Reg!CreateOrReplaceOwned, Reg!Put, Registration
    <2>3. ASSUME NEW n, NEW h, Claims(n, h)'
          PROVE  \/ n # r.name /\ n \in DOMAIN services /\ Claims(n, h)
                 \/ n = r.name /\ r.rec.kind = "http" /\ h = r.rec.hostname
      BY <2>2, <2>3 DEF Claims
    <2>4. \A m, n, h : Claims(m, h)' /\ Claims(n, h)' => m = n
      BY <2>1, <2>3 DEF OwnerInv
    <2> QED
      BY <2>2, <2>4 DEF OwnerInv
  <1>3. ASSUME DOMAIN services' = DOMAIN services,
               \A r \in registering' : r \in registering \/ r.pc # "publish" \/ r.rec.kind # "http"
        PROVE  OwnerInv'
    <2>1. \A n \in DOMAIN services : /\ services'[n].kind = services[n].kind
                                     /\ services'[n].hostname = services[n].hostname
      BY <1>3, ServicesStep DEF Next
    <2>2. \A n, h : Claims(n, h)' <=> Claims(n, h)
      BY <1>3, <2>1 DEF Claims
    <2> QED
      BY <1>3, <2>2 DEF OwnerInv
  <1>4. \/ \E p \in Requests : Register(p)
        \/ \E r \in registering : Publish(r)
        \/ /\ DOMAIN services' = DOMAIN services
           /\ \A r \in registering' : r \in registering \/ r.pc # "publish" \/ r.rec.kind # "http"
    <2>1. \/ \E p \in Requests : Register(p)
          \/ RegisterStep
          \/ UNCHANGED <<services, registering>>
          \/ /\ UNCHANGED registering
             /\ \E name, producer : endPublication(name, producer)
      BY Zenon DEF Operation, Heartbeat, DeleteRegistration, EndDeletion, TakeExpired, EndExpired,
             ForgetDockerPublication, Tick
    <2>2. ASSUME NEW name, NEW producer, endPublication(name, producer)
          PROVE  DOMAIN services' = DOMAIN services
      BY <2>2 DEF endPublication, Reg!ClearBackendIf, Reg!Put
    <2>3. ASSUME NEW r \in registering, EnsureTCPRuntime(r)
          PROVE  /\ DOMAIN services' = DOMAIN services
                 /\ \A s \in registering' : s.rec.kind # "http"
      <3>1. r.rec.kind # "http" /\ r \in Registration
        BY <2>3 DEF EnsureTCPRuntime, IInv, TypeOK, MutexInv, UnderWay
      <3>2. \A port : WithPort(r, port).rec.kind = r.rec.kind
        BY <3>1 DEF WithPort, Registration, Record, Reg!ServiceRecord
      <3>3. \A s \in registering' : \E port : s = WithPort(r, port)
        BY <2>3 DEF EnsureTCPRuntime
      <3> QED
        BY <2>3, <3>1, <3>2, <3>3 DEF EnsureTCPRuntime
    <2>4. ASSUME NEW r \in registering, SetRoute(r) \/ AddLease(r)
          PROVE  /\ DOMAIN services' = DOMAIN services
                 /\ \A s \in registering' : s.pc # "publish"
      BY <2>4 DEF SetRoute, AddLease, AfterPublish, IInv, TypeOK, MutexInv, Registration
    <2> QED
      BY <2>1, <2>2, <2>3, <2>4 DEF RegisterStep
  <1> QED
    BY <1>1, <1>2, <1>3, <1>4

\* The hostname of an HTTP service leads to it and to it alone, whatever was
\* registered, replaced and removed before, unless another service has a
\* different hostname that the router takes for the same.
THEOREM UnsharedHostnamesAreServed == Spec => []UnsharedHostnameIsServed
  <1>1. Init => KeyInv /\ OwnerInv
    BY DEF Init, Reg!Init, KeyInv, OwnerInv, Claims
  <1>2. IInv /\ KeyInv /\ OwnerInv /\ [Next]_vars => KeyInv' /\ OwnerInv'
    <2> SUFFICES ASSUME IInv, KeyInv, OwnerInv, [Next]_vars PROVE OwnerInv'
      BY NextKeyInv
    <2>1. CASE Restart
      BY <2>1 DEF Restart, OwnerInv, Claims
    <2>2. CASE UNCHANGED vars
      BY <2>2 DEF vars, OwnerInv, Claims
    <2> QED
      BY <2>1, <2>2, OperationOwnerInv DEF Next
  <1>3. KeyInv /\ OwnerInv => UnsharedHostnameIsServed
    <2> DEFINE key(n) == normalizeHost(services[n].hostname)
    <2> SUFFICES ASSUME KeyInv, OwnerInv, NEW n \in DOMAIN services, services[n].kind = "http",
                        \A m \in DOMAIN services :
                           services[m].kind = "http" /\ key(m) = key(n) =>
                              services[m].hostname = services[n].hostname
                 PROVE  RouteLeadsTo(n)
      BY DEF UnsharedHostnameIsServed
    <2>1. HasRoute(n)
      BY DEF KeyInv
    <2>2. ASSUME key(n) \in DOMAIN routes PROVE routes[key(n)] = n
      <3>1. ServedAt(key(n), routes[key(n)])
        BY <2>2 DEF KeyInv
      <3>2. Claims(routes[key(n)], services[n].hostname) /\ Claims(n, services[n].hostname)
        BY <3>1 DEF ServedAt, Claims
      <3> QED
        BY <3>2 DEF OwnerInv
    <2> QED
      BY <2>1, <2>2 DEF HasRoute, RouteLeadsTo
  <1> QED
    BY <1>1, <1>2, <1>3, InductiveInvariant, PTL DEF Spec

-----------------------------------------------------------------------------
(* Every step of the composition is a step of the daemon or none. *)

\* A step of a consumer leaves the daemon alone or is one of its steps.
LEMMA StepImplementsDaemon == [ConsumersNext]_consumerVars => [Next]_vars
  BY Zenon DEF ConsumersNext, consumerVars, DaemonOperates, DaemonRestarts, Next, ServeHTTP, Lookup,
         Provide, Proxy, Arrive, Loop, LookupService, Decide, Deadline, Interrupt, Invoke

\* The daemon under its consumers is the daemon: they never hold it up and
\* never change it.
THEOREM ConsumersImplementDaemon == ConsumersSpec => Spec
  <1>1. ConsumersInit => Init
    BY DEF ConsumersInit
  <1> QED
    BY <1>1, StepImplementsDaemon, PTL DEF ConsumersSpec, Spec

-----------------------------------------------------------------------------
(* Requests. *)

\* A slot of the router holds a well-formed request before the first one arrives.
LEMMA EmptyRequestType == NoRequest \in HttpRequest
  BY NoHostType DEF NoRequest, HttpRequest

\* A published backend of a hostname.
LEMMA AtType == \A published, host : At(published, host) \subseteq Backend
  BY DEF At

\* A request that does not move keeps its invariant while the daemon works.
LEMMA OperatesRequestInv ==
    ASSUME IInv, ConsumersInv, DaemonOperates, NEW x \in Request
    PROVE  RequestInv(x)' /\ requests'[x] \in HttpRequest
  <1>1. requests[x] \in HttpRequest /\ RequestInv(x)
    BY DEF ConsumersInv, ConsumersTypeOK
  <1>2. requests'[x] = IF InFlight(x)
            THEN [requests[x] EXCEPT !.known = @ \cup At(Published', requests[x].host)]
            ELSE requests[x]
    BY DEF DaemonOperates
  <1>3. \A k, n : ServedAt(k, n) => ServedAt(k, n)'
    BY OperationKeepsServices DEF DaemonOperates
  <1>4. CASE InFlight(x)
    <2>1. /\ requests'[x] = [requests[x] EXCEPT !.known = requests[x].known \cup At(Published', requests[x].host)]
      BY <1>2, <1>4
    <2>2. /\ requests'[x].pc = requests[x].pc /\ requests'[x].host = requests[x].host
          /\ requests'[x].name = requests[x].name /\ requests'[x].target = requests[x].target
          /\ requests'[x].known = requests[x].known \cup At(Published', requests[x].host)
          /\ requests'[x] \in HttpRequest
      BY <1>1, <2>1, AtType DEF HttpRequest
    <2>3. At(Published', requests[x].host) \subseteq requests'[x].known
      BY <2>2
    <2>4. At(Published, requests[x].host)' = At(Published', requests[x].host)
      BY <2>2 DEF At
    <2>5. requests[x].pc = "provider" => ServedAt(normalizeHost(requests[x].host), requests[x].name)'
      <3> DEFINE k == normalizeHost(requests[x].host)
                 n == requests[x].name
      <3>1. requests[x].pc = "provider" => ServedAt(k, n)
        BY <1>1 DEF RequestInv
      <3>2. ServedAt(k, n) =>
              n \in DOMAIN services' /\ services'[n].kind = "http" /\ normalizeHost(services'[n].hostname) = k
        BY <1>3 DEF ServedAt
      <3>3. k' = k /\ n' = n
        BY <2>2
      <3> QED
        BY <3>1, <3>2, <3>3, Zenon DEF ServedAt
    <2>6. requests[x].pc \in {"proxy", "200", "502"} => requests[x].target \in requests[x].known
      BY <1>1 DEF RequestInv
    <2> QED
      BY <2>2, <2>3, <2>4, <2>5, <2>6 DEF RequestInv
  <1>5. CASE ~InFlight(x)
    <2>1. requests'[x] = requests[x]
      BY <1>2, <1>5
    <2> QED
      BY <1>1, <1>5, <2>1 DEF RequestInv, InFlight
  <1> QED
    BY <1>4, <1>5

\* A request that moves finds what it has seen before: its route leads to a
\* service of its hostname, whose backend is known.
LEMMA ServeRequestInv ==
    ASSUME IInv, ConsumersInv, NEW x \in Request,
           ServeHTTP(x) \/ \E host \in HostHeader : Arrive(x, host)
    PROVE  /\ RequestInv(x)' /\ requests'[x] \in HttpRequest
           /\ requests' \in [Request -> HttpRequest]
           /\ \A y \in Request \ {x} : requests'[y] = requests[y]
  <1>1. requests \in [Request -> HttpRequest] /\ requests[x] \in HttpRequest /\ RequestInv(x)
    BY DEF ConsumersInv, ConsumersTypeOK
  <1>2. ASSUME NEW rq \in HttpRequest, requests' = [requests EXCEPT ![x] = rq]
        PROVE  /\ requests' \in [Request -> HttpRequest] /\ requests'[x] = rq
               /\ \A y \in Request \ {x} : requests'[y] = requests[y]
    BY <1>1, <1>2
  <1>3. ASSUME UNCHANGED vars PROVE Published' = Published
    BY <1>3 DEF vars, Published, Reg!Ready
  <1>4. ASSUME NEW rq \in HttpRequest, requests' = [requests EXCEPT ![x] = rq], UNCHANGED vars,
               rq.pc \in {"lookup", "provider", "proxy"} => At(Published, rq.host) \subseteq rq.known,
               rq.pc = "provider" => ServedAt(normalizeHost(rq.host), rq.name),
               rq.pc \in {"proxy", "200", "502"} => rq.target \in rq.known
        PROVE  RequestInv(x)'
    <2>1. requests'[x] = rq
      BY <1>2, <1>4, Zenon
    <2>2. (InFlight(x) => At(Published, requests[x].host) \subseteq requests[x].known)'
      <3>1. Published' = Published
        BY <1>3, <1>4, Zenon
      <3>2. normalizeHost(requests[x].host)' = normalizeHost(rq.host)
        BY <2>1, Zenon
      <3>3. At(Published, requests[x].host)' = At(Published, rq.host)
        BY <3>1, <3>2, Zenon DEF At
      <3> QED
        BY <1>4, <2>1, <3>3, Zenon DEF InFlight
    <2>3. (requests[x].pc = "provider" => ServedAt(normalizeHost(requests[x].host), requests[x].name))'
      BY <1>4, <2>1, Zenon DEF ServedAt, vars
    <2> QED
      BY <1>4, <2>1, <2>2, <2>3 DEF RequestInv
  <1>5. ASSUME NEW pc \in {"404", "503"}
        PROVE  /\ [NoRequest EXCEPT !.pc = pc] \in HttpRequest
               /\ [NoRequest EXCEPT !.pc = pc].pc = pc
    BY NoHostType DEF NoRequest, HttpRequest
  <1>6. ASSUME NEW host \in HostHeader, Arrive(x, host)
        PROVE  /\ RequestInv(x)'
               /\ \E rq \in HttpRequest : requests' = [requests EXCEPT ![x] = rq]
    <2> DEFINE rq == [NoRequest EXCEPT !.pc = "lookup", !.host = host, !.known = At(Published, host)]
    <2>1. /\ rq \in HttpRequest
          /\ rq.pc = "lookup" /\ rq.host = host /\ rq.known = At(Published, host)
      BY HeaderAssumption, AtType, Zenon DEF NoRequest, HttpRequest
    <2>2. requests' = [requests EXCEPT ![x] = rq] /\ UNCHANGED vars
      BY <1>6, Zenon DEF Arrive
    <2> HIDE DEF rq
    <2> QED
      BY <1>4, <2>1, <2>2, Zenon
  <1>7. CASE Lookup(x)
    <2> DEFINE key == normalizeHost(requests[x].host)
    <2>1. requests[x].pc = "lookup" /\ UNCHANGED vars
      BY <1>7 DEF Lookup
    <2>2. CASE key \in DOMAIN routes
      <3> DEFINE rq == [requests[x] EXCEPT !.pc = "provider", !.name = routes[key]]
      <3>1. requests' = [requests EXCEPT ![x] = rq]
        BY <1>7, <2>2 DEF Lookup
      <3>2. routes[key] \in Name /\ ServedAt(key, routes[key])
        BY <2>2, Zenon DEF IInv, TypeOK, ConsumersInv, KeyInv
      <3>3. /\ rq \in HttpRequest /\ rq.pc = "provider" /\ rq.name = routes[key]
            /\ rq.host = requests[x].host /\ rq.known = requests[x].known
        BY <1>1, <3>2, Zenon DEF HttpRequest
      <3>4. At(Published, requests[x].host) \subseteq requests[x].known
        BY <1>1, <2>1 DEF RequestInv, InFlight
      <3> HIDE DEF rq
      <3> QED
        BY <1>2, <1>4, <2>1, <3>1, <3>2, <3>3, <3>4, Zenon
    <2>3. CASE key \notin DOMAIN routes
      <3>1. requests' = [requests EXCEPT ![x] = [NoRequest EXCEPT !.pc = "404"]]
        BY <1>7, <2>3 DEF Lookup
      <3> QED
        BY <1>2, <1>4, <1>5, <2>1, <3>1, Zenon
    <2> QED
      BY <2>2, <2>3
  <1>8. CASE Provide(x)
    <2> DEFINE backend == provider(requests[x].name)
    <2>1. requests[x].pc = "provider" /\ UNCHANGED vars
      BY <1>8 DEF Provide
    <2>2. CASE backend = NoBackend
      <3>1. requests' = [requests EXCEPT ![x] = [NoRequest EXCEPT !.pc = "503"]]
        BY <1>8, <2>2 DEF Provide
      <3> QED
        BY <1>2, <1>4, <1>5, <2>1, <3>1, Zenon
    <2>3. CASE backend # NoBackend
      <3> DEFINE rq == [requests[x] EXCEPT !.pc = "proxy", !.target = backend]
      <3>1. requests' = [requests EXCEPT ![x] = rq]
        BY <1>8, <2>3 DEF Provide
      <3>2. /\ Reg!Ready(requests[x].name)
            /\ backend = services[requests[x].name].backend
        BY <2>3 DEF provider
      <3>3. backend \in Backend
        <4>1. services[requests[x].name] \in Record
          BY <3>2, Zenon DEF IInv, TypeOK, Reg!Ready
        <4> QED
          BY <2>3, <3>2, <4>1 DEF Record, Reg!ServiceRecord
      <3>4. ServedAt(normalizeHost(requests[x].host), requests[x].name)
        BY <1>1, <2>1 DEF RequestInv
      <3>5. <<normalizeHost(requests[x].host), backend>> \in Published
        BY <3>2, <3>4 DEF ServedAt, Published, Reg!Ready
      <3>6. At(Published, requests[x].host) \subseteq requests[x].known
        BY <1>1, <2>1 DEF RequestInv, InFlight
      <3>7. backend \in requests[x].known
        BY <3>3, <3>5, <3>6 DEF At
      <3>8. /\ rq \in HttpRequest /\ rq.pc = "proxy" /\ rq.target = backend
            /\ rq.host = requests[x].host /\ rq.known = requests[x].known
        BY <1>1, <3>3, Zenon DEF HttpRequest
      <3> HIDE DEF rq, backend
      <3> QED
        BY <1>2, <1>4, <2>1, <3>1, <3>6, <3>7, <3>8, Zenon
    <2> QED
      BY <2>2, <2>3
  <1>9. CASE Proxy(x)
    <2>1. requests[x].pc = "proxy" /\ UNCHANGED vars
      BY <1>9 DEF Proxy
    <2>2. PICK pc \in {"200", "502"} : requests' = [requests EXCEPT ![x].pc = pc]
      BY <1>9, Zenon DEF Proxy
    <2> DEFINE rq == [requests[x] EXCEPT !.pc = pc]
    <2>3. requests' = [requests EXCEPT ![x] = rq]
      BY <1>1, <2>2
    <2>4. /\ rq \in HttpRequest /\ rq.pc = pc /\ rq.target = requests[x].target
          /\ rq.known = requests[x].known
      BY <1>1 DEF HttpRequest
    <2>5. requests[x].target \in requests[x].known
      BY <1>1, <2>1 DEF RequestInv
    <2> HIDE DEF rq
    <2> QED
      BY <1>2, <1>4, <2>1, <2>3, <2>4, <2>5, Zenon
  <1> QED
    BY <1>2, <1>6, <1>7, <1>8, <1>9 DEF ServeHTTP

-----------------------------------------------------------------------------
(* Commands. *)

\* No frontend is a well-formed answer of the API.
LEMMA FrontendType == NoFrontend \in Frontend
  BY NoHostType DEF NoFrontend, Frontend

\* A command is well formed before it is started.
LEMMA EmptyCommandType == NoCommand \in Resolving
  BY FrontendType DEF NoCommand, Resolving

\* What the command is told of a service is well formed.
LEMMA ResolveType ==
    ASSUME IInv, NEW name
    PROVE  /\ Resolve(name).status \in Reg!Status \cup {"404"}
           /\ Resolve(name).frontend \in Frontend
           /\ Resolve(name).status \in Reg!Status =>
                name \in DOMAIN services /\ services[name].frontend = Resolve(name).frontend
  <1>1. CASE name \in DOMAIN services
    <2>1. services[name].status \in Reg!Status /\ services[name].frontend \in Frontend
      BY <1>1 DEF IInv, TypeOK, Record, Reg!ServiceRecord
    <2>2. Resolve(name) = [status |-> services[name].status, frontend |-> services[name].frontend]
      BY <1>1 DEF Resolve, serviceDTO
    <2> QED
      BY <1>1, <2>1, <2>2
  <1>2. CASE name \notin DOMAIN services
    BY <1>2, FrontendType DEF Resolve, Reg!Status
  <1> QED
    BY <1>1, <1>2

\* A command's own step, on a record m that replaces its state.
LEMMA CommandStep ==
    ASSUME ConsumersInv, UNCHANGED vars, NEW c \in Command, NEW m \in Resolving,
           commands' = [commands EXCEPT ![c] = m],
           m.pc \notin {"decide", "printed"} => ~m.fresh,
           m.fresh /\ m.status \in Reg!Status =>
             m.name \in DOMAIN services /\ services[m.name].frontend = m.frontend,
           m.pc = "printed" => m.status = "ready" \/ (m.status = "unavailable" /\ ~m.raw)
    PROVE  commands' \in [Command -> Resolving] /\ \A d \in Command : ReplyInv(d)'
  <1>1. commands \in [Command -> Resolving]
    BY DEF ConsumersInv, ConsumersTypeOK
  <1>2. /\ commands' \in [Command -> Resolving] /\ commands'[c] = m
        /\ \A d \in Command \ {c} : commands'[d] = commands[d]
    BY <1>1, Zenon
  <1>3. services' = services
    BY DEF vars
  <1>4. ReplyInv(c)'
    BY <1>2, <1>3 DEF ReplyInv
  <1>5. ASSUME NEW d \in Command \ {c} PROVE ReplyInv(d)'
    <2>1. ReplyInv(d) /\ commands'[d] = commands[d]
      BY <1>2 DEF ConsumersInv
    <2> QED
      BY <1>3, <2>1 DEF ReplyInv
  <1> QED
    BY <1>2, <1>4, <1>5

\* A command that moves keeps the replies true: only a fresh lookup fills one
\* in, and only what Outcome lets through is printed.
LEMMA LoopReplyInv ==
    ASSUME IInv, ConsumersInv, NEW c \in Command,
           Loop(c) \/ Deadline(c) \/ Interrupt(c) \/ \E line \in CommandLines : Invoke(c, line)
    PROVE  commands' \in [Command -> Resolving] /\ \A d \in Command : ReplyInv(d)'
  <1> DEFINE old == commands[c]
             Kept(m) == commands' = [commands EXCEPT ![c] = m] /\ UNCHANGED vars
             Good(m) == /\ m \in Resolving
                        /\ m.pc \notin {"decide", "printed"} => ~m.fresh
                        /\ m.fresh /\ m.status \in Reg!Status =>
                             m.name \in DOMAIN services /\ services[m.name].frontend = m.frontend
                        /\ m.pc = "printed" => m.status = "ready" \/ (m.status = "unavailable" /\ ~m.raw)
  <1>1. commands \in [Command -> Resolving] /\ old \in Resolving /\ Good(old)
    BY Zenon DEF ConsumersInv, ConsumersTypeOK, ReplyInv
  <1>2. SUFFICES \E m : Good(m) /\ Kept(m)
    BY CommandStep, Zenon
  <1>3. ASSUME NEW line \in CommandLines, Invoke(c, line)
        PROVE  \E m : Good(m) /\ Kept(m)
    <2> DEFINE m == [NoCommand EXCEPT !.pc = "lookup", !.name = line.name, !.raw = line.raw,
                                      !.wait = line.wait]
    <2>1. Good(m)
      BY CommandAssumption, FrontendType, Zenon DEF NoCommand, Resolving
    <2>2. Kept(m)
      BY <1>3, Zenon DEF Invoke
    <2> QED
      BY <2>1, <2>2, Zenon
  <1>4. CASE LookupService(c)
    <2> DEFINE dto == Resolve(old.name)
               none(failure) == [old EXCEPT !.pc = "decide", !.status = failure]
               some == [old EXCEPT !.pc = "decide", !.status = dto.status,
                                   !.frontend = dto.frontend, !.fresh = TRUE]
    <2>1. old.pc = "lookup" /\ (Kept(none("4xx")) \/ Kept(none("error")) \/ Kept(some))
      BY <1>4 DEF LookupService
    <2>2. Good(none("4xx")) /\ Good(none("error"))
      BY <1>1, <2>1, Zenon DEF Resolving
    <2>3. Good(some)
      <3>1. /\ dto.status \in Reg!Status \cup {"404"} /\ dto.frontend \in Frontend
            /\ dto.status \in Reg!Status =>
                 old.name \in DOMAIN services /\ services[old.name].frontend = dto.frontend
        BY ResolveType
      <3> HIDE DEF dto
      <3> QED
        BY <1>1, <2>1, <3>1, Zenon DEF Resolving
    <2> QED
      BY <2>1, <2>2, <2>3, Zenon
  <1>5. CASE Decide(c)
    <2> DEFINE to == Outcome(old)
               kept == [old EXCEPT !.pc = to]
               reset == [old EXCEPT !.pc = to, !.status = "error", !.frontend = NoFrontend, !.fresh = FALSE]
    <2>1. /\ old.pc = "decide" /\ to \in {"printed", "lookup", "failed"}
          /\ to = "printed" => old.status = "ready" \/ (old.status = "unavailable" /\ ~old.raw)
      BY <1>5 DEF Decide, Outcome
    <2>2. CASE to = "printed"
      <3>1. Kept(kept)
        BY <1>5, <2>2 DEF Decide
      <3>2. Good(kept)
        BY <1>1, <2>1, <2>2 DEF Resolving
      <3> QED
        BY <3>1, <3>2, Zenon
    <2>3. CASE to # "printed"
      <3>1. Kept(reset)
        BY <1>5, <2>3 DEF Decide
      <3>2. Good(reset)
        BY <1>1, <2>1, <2>3, FrontendType, Zenon DEF Resolving
      <3> QED
        BY <3>1, <3>2, Zenon
    <2> QED
      BY <2>2, <2>3
  <1>6. CASE Deadline(c)
    <2> DEFINE m == [old EXCEPT !.late = TRUE]
    <2>1. Kept(m)
      BY <1>1, <1>6 DEF Deadline
    <2>2. Good(m)
      BY <1>1, Zenon DEF Resolving
    <2> QED
      BY <2>1, <2>2, Zenon
  <1>7. CASE Interrupt(c)
    <2> DEFINE m == [old EXCEPT !.pc = "failed"]
    <2>1. Kept(m) /\ old.pc = "lookup"
      BY <1>1, <1>7 DEF Interrupt
    <2>2. Good(m)
      BY <1>1, <2>1 DEF Resolving
    <2> QED
      BY <2>1, <2>2, Zenon
  <1> QED
    BY <1>3, <1>4, <1>5, <1>6, <1>7, Zenon DEF Loop

-----------------------------------------------------------------------------
(* The invariant of the consumers is inductive, on top of the daemon's. *)

\* Before the first request and the first command, the invariant holds.
LEMMA InitConsumersInv == ConsumersInit => ConsumersInv
  <1> SUFFICES ASSUME ConsumersInit PROVE ConsumersInv
    OBVIOUS
  <1>1. /\ \A x \in Request : requests[x] = NoRequest
        /\ \A c \in Command : commands[c] = NoCommand
        /\ ConsumersTypeOK
    BY EmptyRequestType, EmptyCommandType DEF ConsumersInit, ConsumersTypeOK
  <1>2. KeyInv
    BY DEF ConsumersInit, Init, Reg!Init, KeyInv
  <1>3. \A x \in Request : RequestInv(x)
    BY <1>1 DEF RequestInv, InFlight, NoRequest
  <1>4. \A c \in Command : ReplyInv(c)
    BY <1>1 DEF ReplyInv, NoCommand
  <1> QED
    BY <1>1, <1>2, <1>3, <1>4 DEF ConsumersInv

\* What the daemon and the other consumers do leaves a consumer's reply and
\* request as they are.
LEMMA UnmovedInv ==
    ASSUME ConsumersInv, UNCHANGED vars
    PROVE  /\ KeyInv'
           /\ \A x \in Request : requests'[x] = requests[x] => RequestInv(x)'
           /\ \A c \in Command : commands'[c] = commands[c] => ReplyInv(c)'
  <1>1. /\ UNCHANGED <<services, routes, registering>>
    BY DEF vars
  <1>2. Published' = Published
    BY <1>1, Zenon DEF Published, Reg!Ready
  <1>3. KeyInv'
    BY <1>1 DEF ConsumersInv, KeyInv, ServedAt, HasRoute
  <1>4. ASSUME NEW x \in Request, requests'[x] = requests[x] PROVE RequestInv(x)'
    <2>1. RequestInv(x)
      BY DEF ConsumersInv
    <2>2. (InFlight(x) => At(Published, requests[x].host) \subseteq requests[x].known)'
      BY <1>2, <1>4, <2>1, Zenon DEF RequestInv, InFlight, At
    <2> QED
      BY <1>1, <1>4, <2>1, <2>2, Zenon DEF RequestInv, ServedAt
  <1>5. ASSUME NEW c \in Command, commands'[c] = commands[c] PROVE ReplyInv(c)'
    <2>1. ReplyInv(c)
      BY DEF ConsumersInv
    <2> QED
      BY <1>1, <1>5, <2>1 DEF ReplyInv
  <1> QED
    BY <1>3, <1>4, <1>5

\* Every step of the daemon or of a consumer keeps the invariant.
LEMMA NextConsumersInv ==
    ASSUME IInv, ConsumersInv, [ConsumersNext]_consumerVars
    PROVE  ConsumersInv'
  <1>1. CASE DaemonOperates
    <2>1. /\ requests' \in [Request -> HttpRequest]
          /\ \A x \in Request : RequestInv(x)'
      <3>1. \A x \in Request : RequestInv(x)' /\ requests'[x] \in HttpRequest
        BY <1>1, OperatesRequestInv
      <3>2. requests' = [x \in Request |-> requests'[x]]
        BY <1>1, Zenon DEF DaemonOperates
      <3> QED
        BY <3>1, <3>2
    <2>2. KeyInv'
      BY <1>1, OperationKeyInv DEF DaemonOperates, ConsumersInv
    <2>3. ASSUME NEW c \in Command PROVE ReplyInv(c)'
      <3>1. ReplyInv(c) /\ commands'[c] = commands[c]
        BY <1>1 DEF DaemonOperates, ConsumersInv
      <3>2. /\ DOMAIN services \subseteq DOMAIN services'
            /\ \A n \in DOMAIN services : services'[n].frontend = services[n].frontend
        BY <1>1, OperationKeepsServices DEF DaemonOperates
      <3> QED
        BY <3>1, <3>2 DEF ReplyInv
    <2>4. commands' \in [Command -> Resolving]
      BY <1>1 DEF DaemonOperates, ConsumersInv, ConsumersTypeOK
    <2> QED
      BY <2>1, <2>2, <2>3, <2>4 DEF ConsumersInv, ConsumersTypeOK
  <1>2. CASE DaemonRestarts
    <2>1. /\ \A x \in Request : requests'[x] = NoRequest
          /\ requests' \in [Request -> HttpRequest]
      BY <1>2, EmptyRequestType DEF DaemonRestarts
    <2>2. \A x \in Request : RequestInv(x)'
      BY <2>1 DEF RequestInv, InFlight, NoRequest
    <2>3. KeyInv'
      BY <1>2 DEF DaemonRestarts, Restart, KeyInv
    <2>4. ASSUME NEW c \in Command
          PROVE  /\ commands'[c] \in Resolving
                 /\ ReplyInv(c)'
      <3>1. ReplyInv(c) /\ commands[c] \in Resolving
        BY DEF ConsumersInv, ConsumersTypeOK
      <3>2. commands'[c] = [commands[c] EXCEPT !.fresh = FALSE]
        BY <1>2 DEF DaemonRestarts
      <3>3. /\ commands'[c] \in Resolving /\ ~commands'[c].fresh
            /\ commands'[c].pc = commands[c].pc /\ commands'[c].status = commands[c].status
            /\ commands'[c].raw = commands[c].raw
        BY <3>1, <3>2, Zenon DEF Resolving
      <3> QED
        BY <3>1, <3>3 DEF ReplyInv
    <2>5. commands' = [c \in Command |-> commands'[c]]
      BY <1>2, Zenon DEF DaemonRestarts
    <2> QED
      BY <2>1, <2>2, <2>3, <2>4, <2>5 DEF ConsumersInv, ConsumersTypeOK
  <1>3. ASSUME NEW x \in Request, ServeHTTP(x) \/ \E host \in HostHeader : Arrive(x, host)
        PROVE  ConsumersInv'
    <2>1. UNCHANGED <<vars, commands>>
      BY <1>3, Zenon DEF ServeHTTP, Lookup, Provide, Proxy, Arrive
    <2>2. /\ RequestInv(x)' /\ requests' \in [Request -> HttpRequest]
          /\ \A y \in Request \ {x} : requests'[y] = requests[y]
      BY <1>3, ServeRequestInv
    <2>3. /\ KeyInv' /\ \A y \in Request \ {x} : RequestInv(y)'
          /\ \A c \in Command : ReplyInv(c)'
      BY <2>1, <2>2, UnmovedInv
    <2> QED
      BY <2>1, <2>2, <2>3 DEF ConsumersInv, ConsumersTypeOK
  <1>4. ASSUME NEW c \in Command,
               Loop(c) \/ Deadline(c) \/ Interrupt(c) \/ \E line \in CommandLines : Invoke(c, line)
        PROVE  ConsumersInv'
    <2>1. UNCHANGED <<vars, requests>>
      BY <1>4, Zenon DEF Loop, LookupService, Decide, Deadline, Interrupt, Invoke
    <2>2. commands' \in [Command -> Resolving] /\ \A d \in Command : ReplyInv(d)'
      BY <1>4, LoopReplyInv
    <2>3. KeyInv' /\ \A x \in Request : RequestInv(x)'
      BY <2>1, UnmovedInv
    <2> QED
      BY <2>1, <2>2, <2>3 DEF ConsumersInv, ConsumersTypeOK
  <1>5. CASE UNCHANGED consumerVars
    <2>1. UNCHANGED vars /\ UNCHANGED requests /\ UNCHANGED commands
      BY <1>5 DEF consumerVars
    <2> QED
      BY <2>1, UnmovedInv DEF ConsumersInv, ConsumersTypeOK
  <1> QED
    BY <1>1, <1>2, <1>3, <1>4, <1>5 DEF ConsumersNext

\* Both invariants hold in every reachable state of the composition.
THEOREM ConsumersInvariant == ConsumersSpec => [](IInv /\ ConsumersInv)
  <1>1. ConsumersSpec => []IInv
    BY ConsumersImplementDaemon, InductiveInvariant, PTL
  <1>2. IInv /\ ConsumersInv /\ [ConsumersNext]_consumerVars => ConsumersInv'
    BY NextConsumersInv
  <1> QED
    BY <1>1, <1>2, InitConsumersInv, PTL DEF ConsumersSpec

\* Requests and commands keep their types, with whatever the daemon publishes.
THEOREM ConsumersTypeCorrect == ConsumersSpec => []ConsumersTypeOK
  <1>1. ConsumersInv => ConsumersTypeOK
    BY DEF ConsumersInv
  <1> QED
    BY <1>1, ConsumersInvariant, PTL

\* ServeHTTP reads the route, then the registry, then dials, with no lock
\* around the three: still the backend it dials was published at the hostname
\* of the request after the request arrived.
THEOREM RequestsReachTheirService == ConsumersSpec => []RequestReachesItsService
  <1>1. ConsumersInv => RequestReachesItsService
    BY DEF ConsumersInv, RequestInv, RequestReachesItsService
  <1> QED
    BY <1>1, ConsumersInvariant, PTL

\* What "services resolve" printed stays true of the daemon that answered, and
\* --raw printed it of a ready service only.
THEOREM PrintedEndpointStaysServed == ConsumersSpec => []PrintedEndpointIsServed
  <1>1. ConsumersInv => PrintedEndpointIsServed
    BY DEF ConsumersInv, ReplyInv, PrintedEndpointIsServed, Reg!Status
  <1> QED
    BY <1>1, ConsumersInvariant, PTL

\* A request is answered with 404 only while no service, or none but the one
\* being registered, has its hostname.
THEOREM RegisteredHostsAreFound == ConsumersSpec => RegisteredHostIsFound
  <1> DEFINE Found(x) ==
        requests[x].pc = "lookup" /\ requests'[x].pc = "404" =>
          \A n \in DOMAIN services :
             /\ services[n].kind = "http"
             /\ normalizeHost(services[n].hostname) = normalizeHost(requests[x].host)
             => \E r \in registering : r.name = n /\ r.pc = "route"
  <1>1. ASSUME IInv, ConsumersInv, ConsumersNext, NEW x \in Request,
               requests[x].pc = "lookup", requests'[x].pc = "404"
        PROVE  normalizeHost(requests[x].host) \notin DOMAIN routes
    <2>1. requests \in [Request -> HttpRequest] /\ requests[x] \in HttpRequest
      BY <1>1 DEF ConsumersInv, ConsumersTypeOK
    <2>2. requests'[x] # requests[x] /\ requests'[x].pc # requests[x].pc
      BY <1>1
    <2>3. CASE DaemonOperates
      <3>1. requests'[x].pc = requests[x].pc
        BY <2>1, <2>3 DEF DaemonOperates, HttpRequest
      <3> QED
        BY <2>2, <3>1
    <2>4. CASE DaemonRestarts
      BY <1>1, <2>4 DEF DaemonRestarts, NoRequest
    <2>5. ASSUME NEW y \in Request, ServeHTTP(y) \/ \E host \in HostHeader : Arrive(y, host)
          PROVE  y = x
      BY <1>1, <2>2, <2>5, ServeRequestInv
    <2>6. ASSUME NEW host, Arrive(x, host) PROVE FALSE
      BY <1>1, <2>6 DEF Arrive, InFlight
    <2>7. CASE Lookup(x)
      <3>1. CASE normalizeHost(requests[x].host) \in DOMAIN routes
        <4>1. requests'[x] = [requests[x] EXCEPT !.pc = "provider",
                                !.name = routes[normalizeHost(requests[x].host)]]
          BY <2>1, <2>7, <3>1 DEF Lookup
        <4>2. requests'[x].pc = "provider"
          BY <2>1, <4>1 DEF HttpRequest
        <4> QED
          BY <1>1, <4>2
      <3> QED
        BY <3>1
    <2>8. ~Provide(x) /\ ~Proxy(x)
      BY <1>1 DEF Provide, Proxy
    <2>9. ASSUME NEW c \in Command,
                 Loop(c) \/ Deadline(c) \/ Interrupt(c) \/ \E line \in CommandLines : Invoke(c, line)
          PROVE  FALSE
      BY <2>2, <2>9, Zenon DEF Loop, LookupService, Decide, Deadline, Interrupt, Invoke
    <2> QED
      BY <1>1, <2>3, <2>4, <2>5, <2>6, <2>7, <2>8, <2>9 DEF ConsumersNext, ServeHTTP
  <1>2. IInv /\ ConsumersInv /\ [ConsumersNext]_consumerVars =>
          [\A x \in Request : Found(x)]_consumerVars
    BY <1>1 DEF ConsumersInv, KeyInv, HasRoute
  <1> QED
    BY <1>2, ConsumersInvariant, PTL DEF ConsumersSpec, RegisteredHostIsFound

=============================================================================
