------------------------ MODULE DockerWatcherProofs -------------------------
(***************************************************************************)
(* Theorems about DockerWatcher: type correctness and the safety           *)
(* properties, for every set of containers, labels and addresses, and for  *)
(* every bound on retries, starts and faults.                              *)
(***************************************************************************)
EXTENDS DockerWatcher, WellFoundedInduction, TLAPS

\* The backend inspect found for a container obeys the loopback rule.
Fit(r) ==
    ~AllowNonLoopback =>
        LET addresses == Range(config[r.id].addresses)
        IN  r.backend.host \in addresses /\ addresses \subseteq {"127.0.0.1", "::1"}

\* What the properties rest on: only the loop over "forgotten" leaves entries
\* in it, a container publishes its own service, and what is registered next is
\* what inspect accepted.
WatcherInv ==
    /\ TypeOK
    /\ forgotten # {} => pc = "forget"
    /\ \A n \in DOMAIN services :
         services[n].producer \in Container => n = Service(services[n].producer)
    /\ pc = "register" => \A r \in current : Fit(r)
    /\ PublicationIsTracked
    /\ OnlyLoopbackIsPublished

\* At first there is no service.
LEMMA EmptyRegistry == Init => DOMAIN services = {}
  BY DEF Init, Reg!Init

-----------------------------------------------------------------------------
(* Inspection. *)

\* A set of natural numbers has its minimum.
LEMMA MinType ==
    ASSUME NEW S, S \subseteq Nat, S # {}
    PROVE  Min(S) \in S
  <1>1. \E x \in S : \A y \in S : <<y, x>> \notin OpToRel(<, Nat)
    BY NatLessThanWellFounded, WFMin, Zenon
  <1>2. PICK x \in S : \A y \in S : <<y, x>> \notin OpToRel(<, Nat)
    BY <1>1, Zenon
  <1>3. ASSUME NEW y \in S PROVE x =< y
    <2>1. <<y, x>> \notin {ss \in Nat \X Nat : ss[1] < ss[2]}
      BY <1>2, Zenon DEF OpToRel
    <2>2. x \in Nat /\ y \in Nat /\ ~(y < x)
      BY <2>1
    <2> QED
      BY <2>2
  <1> QED
    BY <1>3, Zenon DEF Min

\* The chosen binding is one of them.
LEMMA ChosenType ==
    ASSUME NEW T, NEW bindings \in Seq(T), bindings # << >>
    PROVE  \E i \in DOMAIN bindings : Chosen(bindings) = bindings[i]
  <1> DEFINE local == {i \in DOMAIN bindings : IsLoopback(bindings[i])}
  <1>1. 1 \in DOMAIN bindings /\ local \subseteq Nat
    OBVIOUS
  <1>2. CASE local = {}
    BY <1>1, <1>2 DEF Chosen
  <1>3. CASE local # {}
    <2>1. Min(local) \in local
      BY <1>1, <1>3, MinType, Zenon
    <2> QED
      BY <1>3, <2>1, Zenon DEF Chosen
  <1> QED
    BY <1>2, <1>3

\* Every container was created with a name and addresses Docker can report.
LEMMA ConfigType ==
    ASSUME TypeOK, NEW c \in Container
    PROVE  /\ Service(c) \in Name
           /\ config[c].addresses \in Seq(STRING)
  <1>1. config[c] \in Created
    BY ContainerAssumption DEF TypeOK, Created, Range
  <1> QED
    BY <1>1, ContainerAssumption DEF Service, Name

\* What inspect accepts is a loopback backend, and unless the operator allowed
\* otherwise it is one of the container's addresses, none of them exposed.
LEMMA InspectAccepts ==
    ASSUME TypeOK, NEW r \in current, NEW bindings \in Reported(r.id),
           RegistrationFromInspect(config[r.id].labels, bindings, AllowNonLoopback) = "ok"
    PROVE  LET found == [r EXCEPT !.backend = Backend(Chosen(bindings))]
           IN  found \in [id : Container, backend : Target] /\ Fit(found)
  <1> DEFINE found == [r EXCEPT !.backend = Backend(Chosen(bindings))]
             addresses == config[r.id].addresses
  <1>1. r.id \in Container /\ r \in [id : Container, backend : Target]
    BY DEF TypeOK
  <1>2. addresses \in Seq(STRING)
    BY <1>1, ConfigType
  <1>3. bindings # << >> /\ ~Refused(bindings, AllowNonLoopback)
    BY DEF RegistrationFromInspect
  <1>4. PICK port \in Nat : bindings = Bindings(r.id, port)
    BY <1>1, <1>3 DEF Reported, TypeOK, NoPort
  <1>5. /\ bindings \in Seq([ip : STRING, port : Nat]) /\ DOMAIN bindings = DOMAIN addresses
        /\ \A i \in DOMAIN bindings : bindings[i].ip = addresses[i] /\ bindings[i].port \in Nat
    <2>1. DOMAIN addresses = 1 .. Len(addresses) /\ Len(addresses) \in Nat
      BY <1>2
    <2>2. bindings = [i \in 1 .. Len(addresses) |-> [ip |-> addresses[i], port |-> port]]
      BY <1>4, <2>1 DEF Bindings
    <2>3. \A i \in 1 .. Len(addresses) : [ip |-> addresses[i], port |-> port] \in [ip : STRING, port : Nat]
      BY <1>2
    <2>4. bindings \in Seq([ip : STRING, port : Nat])
      BY <2>1, <2>2, <2>3
    <2> QED
      BY <2>1, <2>2, <2>4, Zenon
  <1>6. PICK i \in DOMAIN bindings : Chosen(bindings) = bindings[i]
    BY <1>3, <1>5, ChosenType
  <1>7. Backend(Chosen(bindings)) \in Target
    BY <1>5, <1>6 DEF Backend, Target, IsLoopback, isLoopbackIP
  <1>8. /\ found \in [id : Container, backend : Target]
        /\ found.id = r.id /\ found.backend = Backend(Chosen(bindings))
    BY <1>1, <1>7
  <1>9. ASSUME ~AllowNonLoopback
        PROVE  /\ found.backend.host \in Range(addresses)
               /\ Range(addresses) \subseteq {"127.0.0.1", "::1"}
    <2>1. \A j \in DOMAIN addresses : addresses[j] \in {"127.0.0.1", "::1"}
      BY <1>3, <1>5, <1>9, Zenon DEF Refused, IsLoopback, isLoopbackIP
    <2>2. found.backend.host = addresses[i]
      BY <1>5, <1>6, <1>8, <2>1 DEF Backend, IsLoopback, isLoopbackIP
    <2> QED
      BY <1>5, <2>1, <2>2 DEF Range
  <1> QED
    BY <1>8, <1>9 DEF Fit

-----------------------------------------------------------------------------
(* Steps that publish nothing and end nothing. *)

\* As long as the registry is left alone and no publication drops out of the
\* books, only what the step is about to register is in question.
LEMMA BooksKept ==
    ASSUME WatcherInv, TypeOK', UNCHANGED <<services, config>>,
           tracked \cup forgotten \subseteq tracked' \cup forgotten',
           forgotten' # {} => pc' = "forget",
           pc' = "register" => \A r \in current' : Fit(r)'
    PROVE  WatcherInv'
  <1>1. PublicationIsTracked'
    BY DEF WatcherInv, PublicationIsTracked, Reg!Ready
  <1>2. OnlyLoopbackIsPublished'
    BY DEF WatcherInv, OnlyLoopbackIsPublished, Reg!Ready, Range
  <1>3. \A n \in DOMAIN services' :
          services'[n].producer \in Container => n = Service(services[n].producer)'
    BY DEF WatcherInv, Service
  <1> QED
    BY <1>1, <1>2, <1>3 DEF WatcherInv

\* What may be published depends on the labels alone.
LEMMA PublishedFixed ==
    ASSUME UNCHANGED config
    PROVE  Published' = Published
  <1>1. Target' = Target
    BY Zenon DEF Target
  <1>2. {Owner(c) : c \in Container}' = {Owner(c) : c \in Container}
    BY DEF Owner, OwnerKey
  <1> QED
    BY <1>1, <1>2, Zenon DEF Published, Reg!Status

\* The types, when the registry and Docker stay as they are.
LEMMA WatcherType ==
    ASSUME TypeOK, UNCHANGED <<services, config, state, starts>>,
           tracked' \subseteq Container, todo' \subseteq Container,
           seen' \subseteq Container, forgotten' \subseteq Container,
           status' \in {"connected", "degraded"},
           pc' \in {"list", "next", "inspect", "register", "forget", "subscribe", "select"},
           caller' \in {"none", "startup", "tick", "reconnect", "event"},
           retries' \in Nat, retries' < ReconcileAttempts \/ retries' <= PublishRetries,
           current' \subseteq [id : Container, backend : Target],
           stream' \in Seq([action : {"start", "die"}, id : Container]),
           subscribed' \in BOOLEAN,
           faults' \in 0 .. MaxFaults
    PROVE  TypeOK'
  <1>1. Published' = Published
    BY PublishedFixed, Zenon
  <1> QED
    BY <1>1 DEF TypeOK

\* A failure of Docker stays within the bound on failures.
LEMMA FaultType ==
    ASSUME TypeOK, Fault
    PROVE  faults' \in 0 .. MaxFaults
  BY BoundAssumption DEF TypeOK, Fault

\* The first attempt counts no retry.
LEMMA NoRetries == 0 \in Nat /\ 0 <= PublishRetries
  BY BoundAssumption

\* Reconcile lists the containers and works through the list.
LEMMA ReconcileInv ==
    ASSUME WatcherInv, List \/ ListFails \/ NextContainer \/ ForgetAbsent \/ Finish
    PROVE  WatcherInv'
  <1> USE DEF dockerVars
  <1>1. TypeOK /\ (pc # "forget" => forgotten = {})
    BY DEF WatcherInv
  <1>2. CASE List
    <2>1. Listed \subseteq Container
      BY DEF Listed
    <2>2. TypeOK'
      BY <1>1, <1>2, <2>1, WatcherType DEF List, TypeOK
    <2> QED
      BY <1>1, <1>2, <2>2, BooksKept DEF List
  <1>3. CASE ListFails
    <2>1. /\ faults' \in 0 .. MaxFaults
          /\ retries' \in Nat /\ (retries' < ReconcileAttempts \/ retries' <= PublishRetries)
          /\ pc' \in {"list", "subscribe", "select"} /\ status' \in {"connected", "degraded"}
          /\ caller' \in {"none", "startup", "tick", "reconnect", "event"}
      BY <1>1, <1>3, FaultType, NoRetries DEF ListFails, Return, TypeOK
    <2>2. pc = "list" /\ UNCHANGED <<services, tracked, todo, seen, current, forgotten, dockerVars>>
      BY <1>3 DEF ListFails
    <2>3. TypeOK'
      BY <1>1, <2>1, <2>2, WatcherType DEF TypeOK
    <2> QED
      BY <1>1, <2>1, <2>2, <2>3, BooksKept
  <1>4. CASE NextContainer
    <2>1. \A c \in todo : [id |-> c, backend |-> NoBackend] \in [id : Container, backend : Target]
      BY <1>1 DEF TypeOK, Target
    <2>2. /\ todo' \subseteq Container /\ current' \subseteq [id : Container, backend : Target]
      BY <1>1, <1>4, <2>1 DEF NextContainer, TypeOK
    <2>3. /\ pc = "next" /\ pc' = "inspect" /\ retries' = 0
          /\ UNCHANGED <<services, tracked, status, caller, seen, forgotten, dockerVars, faults>>
      BY <1>4 DEF NextContainer
    <2>4. TypeOK'
      BY <1>1, <2>2, <2>3, NoRetries, WatcherType DEF TypeOK
    <2> QED
      BY <1>1, <2>3, <2>4, BooksKept
  <1>5. CASE ForgetAbsent
    <2>1. TypeOK'
      BY <1>1, <1>5, WatcherType DEF ForgetAbsent, TypeOK
    <2> QED
      BY <1>1, <1>5, <2>1, BooksKept DEF ForgetAbsent
  <1>6. CASE Finish
    <2>1. /\ pc' \in {"subscribe", "select"} /\ caller' = "none" /\ retries' = 0
          /\ status' \in {"connected", "degraded"} /\ forgotten = {}
          /\ UNCHANGED <<services, tracked, todo, seen, current, forgotten, dockerVars, faults>>
      BY <1>1, <1>6 DEF Finish, Return, TypeOK
    <2>2. TypeOK'
      BY <1>1, <2>1, NoRetries, WatcherType DEF TypeOK
    <2> QED
      BY <2>1, <2>2, BooksKept
  <1> QED
    BY <1>2, <1>3, <1>4, <1>5, <1>6

\* Leave clears the container at hand.
LEMMA LeaveStep ==
    ASSUME TypeOK, Leave
    PROVE  /\ current' = {} /\ retries' = 0
           /\ pc' \in {"next", "subscribe", "select"}
           /\ caller' \in {"none", "startup", "tick", "reconnect", "event"}
  BY DEF Leave, Return, TypeOK

\* Inspection passes on only what the loopback rule accepts.
LEMMA InspectInv ==
    ASSUME WatcherInv, NEW r \in current, Inspect(r) \/ InspectFails(r)
    PROVE  WatcherInv'
  <1>1. /\ TypeOK /\ pc = "inspect" /\ forgotten = {}
        /\ UNCHANGED <<services, tracked, status, todo, seen, forgotten, stream, subscribed,
                       config, state, starts>>
    BY DEF WatcherInv, Inspect, InspectFails, dockerVars
  <1>2. ASSUME Leave, faults' \in 0 .. MaxFaults PROVE WatcherInv'
    <2>1. /\ current' = {} /\ retries' = 0
          /\ pc' \in {"next", "subscribe", "select"}
          /\ caller' \in {"none", "startup", "tick", "reconnect", "event"}
      BY <1>1, <1>2, LeaveStep
    <2>2. TypeOK'
      BY <1>1, <1>2, <2>1, NoRetries, WatcherType DEF TypeOK
    <2> QED
      BY <1>1, <2>1, <2>2, BooksKept
  <1>3. ASSUME NEW bindings \in Reported(r.id),
               RegistrationFromInspect(config[r.id].labels, bindings, AllowNonLoopback) = "ok",
               current' = {[r EXCEPT !.backend = Backend(Chosen(bindings))]},
               pc' = "register", UNCHANGED <<caller, retries, faults>>
        PROVE  WatcherInv'
    <2> DEFINE found == [r EXCEPT !.backend = Backend(Chosen(bindings))]
    <2>1. found \in [id : Container, backend : Target] /\ Fit(found)
      BY <1>1, <1>3, InspectAccepts
    <2>2. Fit(found)' /\ current' = {found}
      BY <1>1, <1>3, <2>1 DEF Fit, Range
    <2> HIDE DEF found
    <2>3. TypeOK'
      BY <1>1, <1>3, <2>1, <2>2, WatcherType DEF TypeOK
    <2>4. \A s \in current' : Fit(s)'
      BY <2>2
    <2> QED
      BY <1>1, <1>3, <2>3, <2>4, BooksKept
  <1>4. ASSUME retries < PublishRetries, retries' = retries + 1,
               UNCHANGED <<pc, caller, current, faults>>
        PROVE  WatcherInv'
    <2>1. TypeOK'
      BY <1>1, <1>4, BoundAssumption, WatcherType DEF TypeOK
    <2> QED
      BY <1>1, <1>4, <2>1, BooksKept
  <1>5. (Fault \/ UNCHANGED faults) => faults' \in 0 .. MaxFaults
    BY <1>1, FaultType DEF TypeOK
  <1> QED
    BY <1>2, <1>3, <1>4, <1>5 DEF Inspect, InspectFails

\* The event loop: an event moves a container from tracked to forgotten, or
\* has it inspected.
LEMMA EventLoopInv ==
    ASSUME WatcherInv, Subscribe \/ handleEvent \/ ReconcileTick \/ StreamFails
    PROVE  WatcherInv'
  <1> DEFINE Event == [action : {"start", "die"}, id : Container]
  <1>1. TypeOK /\ (pc # "forget" => forgotten = {})
    BY DEF WatcherInv
  <1>2. << >> \in Seq(Event)
    OBVIOUS
  <1>3. CASE Subscribe
    <2>1. TypeOK'
      BY <1>1, <1>2, <1>3, WatcherType DEF Subscribe, TypeOK
    <2> QED
      BY <1>1, <1>3, <2>1, BooksKept DEF Subscribe
  <1>4. CASE handleEvent
    <2> DEFINE m == Head(stream)
    <2>1. m \in Event /\ Tail(stream) \in Seq(Event)
      <3>1. stream \in Seq(Event) /\ stream # << >>
        BY <1>1, <1>4, Zenon DEF handleEvent, TypeOK
      <3> HIDE DEF Event
      <3> QED
        BY <3>1
    <2>2. /\ pc = "select" /\ stream' = Tail(stream) /\ caller' = "event" /\ retries' = 0
          /\ UNCHANGED <<services, status, todo, seen, subscribed, config, state, starts, faults>>
      BY <1>4 DEF handleEvent
    <2>3. \/ /\ current' = {[id |-> m.id, backend |-> NoBackend]}
             /\ pc' = "inspect"
             /\ UNCHANGED <<tracked, forgotten>>
          \/ /\ forgotten' = tracked \cap {m.id}
             /\ tracked' = tracked \ {m.id}
             /\ pc' = "forget"
             /\ UNCHANGED current
      BY <1>4 DEF handleEvent
    <2>4. [id |-> m.id, backend |-> NoBackend] \in [id : Container, backend : Target]
      BY <2>1 DEF Target
    <2> HIDE DEF m
    <2>5. TypeOK'
      <3>1. /\ tracked' \subseteq Container /\ forgotten' \subseteq Container
            /\ current' \subseteq [id : Container, backend : Target]
            /\ pc' \in {"inspect", "forget"}
        BY <1>1, <2>3, <2>4 DEF TypeOK
      <3> QED
        BY <1>1, <2>1, <2>2, <3>1, NoRetries, WatcherType DEF TypeOK
    <2> QED
      BY <1>1, <2>2, <2>3, <2>5, BooksKept
  <1>5. CASE ReconcileTick
    <2>1. TypeOK'
      BY <1>1, <1>5, WatcherType DEF ReconcileTick, TypeOK, dockerVars
    <2> QED
      BY <1>1, <1>5, <2>1, BooksKept DEF ReconcileTick, dockerVars
  <1>6. CASE StreamFails
    <2>1. TypeOK'
      BY <1>1, <1>2, <1>6, FaultType, Zenon, WatcherType DEF StreamFails, TypeOK
    <2> QED
      BY <1>1, <1>6, <2>1, BooksKept DEF StreamFails
  <1> QED
    BY <1>3, <1>4, <1>5, <1>6

\* What happens in Docker changes nothing the watcher has done.
LEMMA DockerInv ==
    ASSUME WatcherInv, NEW c \in Container,
           ContainerStarts(c) \/ PortPublished(c) \/ ContainerDies(c)
    PROVE  WatcherInv'
  <1> DEFINE Event == [action : {"start", "die"}, id : Container]
  <1>1. /\ TypeOK
        /\ UNCHANGED <<services, watcherVars, subscribed, config, faults>>
    BY DEF WatcherInv, ContainerStarts, PortPublished, ContainerDies
  <1>2. \A action \in {"start", "die"} : [action |-> action, id |-> c] \in Event
    OBVIOUS
  <1>3. stream' \in Seq(Event)
    <2>1. stream \in Seq(Event)
      BY <1>1, Zenon DEF TypeOK
    <2>2. \/ stream' = stream
          \/ \E action \in {"start", "die"} : stream' = Append(stream, [action |-> action, id |-> c])
      BY Zenon DEF ContainerStarts, PortPublished, ContainerDies, Emit
    <2>3. \A e \in Event : Append(stream, e) \in Seq(Event)
      <3> HIDE DEF Event
      <3> QED
        BY <2>1
    <2> QED
      BY <1>2, <2>1, <2>2, <2>3, Zenon
  <1>4. state' \in [Container -> {"stopped", "starting", "running"}]
    <2>1. state \in [Container -> {"stopped", "starting", "running"}]
      BY <1>1, Zenon DEF TypeOK
    <2>2. \E to \in {"stopped", "starting", "running"} : state' = [state EXCEPT ![c] = to]
      BY Zenon DEF ContainerStarts, PortPublished, ContainerDies
    <2> QED
      BY <2>1, <2>2
  <1>5. starts' \in [Container -> 1 .. MaxStarts]
    <2>1. starts \in [Container -> 1 .. MaxStarts]
      BY <1>1, Zenon DEF TypeOK
    <2>2. \/ starts' = starts
          \/ starts[c] < MaxStarts /\ starts' = [starts EXCEPT ![c] = @ + 1]
      BY Zenon DEF ContainerStarts, PortPublished, ContainerDies
    <2> QED
      BY <2>1, <2>2, BoundAssumption
  <1>6. Published' = Published
    BY <1>1, PublishedFixed, Zenon
  <1>7. TypeOK'
    BY <1>1, <1>3, <1>4, <1>5, <1>6 DEF TypeOK, watcherVars
  <1>8. pc' = "register" => \A r \in current' : Fit(r)'
    BY <1>1, Zenon DEF WatcherInv, watcherVars, Fit, Range
  <1> QED
    BY <1>1, <1>7, <1>8, BooksKept DEF watcherVars, WatcherInv

-----------------------------------------------------------------------------
(* Steps on the registry. *)

\* A publication is well formed if what is put into the registry is.
LEMMA PutType ==
    ASSUME TypeOK, UNCHANGED config, NEW n \in Name, NEW rec \in Published,
           services' = services \/ services' = Reg!Put(n, rec)
    PROVE  /\ DOMAIN services' \subseteq Name
           /\ \A m \in DOMAIN services' : services'[m] \in Published'
  <1>1. Published' = Published
    BY PublishedFixed, Zenon
  <1> QED
    BY <1>1 DEF TypeOK, Reg!Put

\* ClearBackendIf leaves every other publication alone, and what it touches is
\* not ready any more.
LEMMA ClearStep ==
    ASSUME TypeOK, UNCHANGED config, NEW n \in Name, NEW producer, Reg!ClearBackendIf(n, producer)
    PROVE  /\ DOMAIN services' \subseteq Name
           /\ \A m \in DOMAIN services' : services'[m] \in Published'
           /\ DOMAIN services' = DOMAIN services
           /\ \A m \in DOMAIN services : services'[m].producer = services[m].producer
           /\ \A m \in DOMAIN services : services'[m].status = "ready" =>
                /\ services'[m] = services[m]
                /\ ~(m = n /\ services[m].producer = producer)
  <1>1. CASE ~(n \in DOMAIN services /\ services[n].producer = producer)
    <2>1. services' = services
      BY <1>1 DEF Reg!ClearBackendIf
    <2>2. Published' = Published
      BY PublishedFixed, Zenon
    <2> QED
      BY <1>1, <2>1, <2>2 DEF TypeOK
  <1>2. CASE n \in DOMAIN services /\ services[n].producer = producer
    <2> DEFINE rec == [services[n] EXCEPT !.backend = NoBackend, !.status = "unavailable"]
    <2>1. services[n] \in Published
      BY <1>2 DEF TypeOK
    <2>2. rec \in Published /\ rec.producer = services[n].producer /\ rec.status = "unavailable"
      BY <2>1, Zenon DEF Published, Target, Reg!Status
    <2>3. services' = Reg!Put(n, rec)
      BY <1>2 DEF Reg!ClearBackendIf
    <2> HIDE DEF rec
    <2>4. /\ DOMAIN services' \subseteq Name
          /\ \A m \in DOMAIN services' : services'[m] \in Published'
      BY <2>2, <2>3, PutType
    <2>5. /\ DOMAIN services' = DOMAIN services /\ services'[n] = rec
          /\ \A m \in DOMAIN services \ {n} : services'[m] = services[m]
      BY <1>2, <2>3 DEF Reg!Put
    <2> QED
      BY <2>2, <2>4, <2>5
  <1> QED
    BY <1>1, <1>2

\* Ending a publication by its own producer, that producer may leave the books.
LEMMA ClearInv ==
    ASSUME WatcherInv, TypeOK', UNCHANGED config, NEW n \in Name, NEW producer,
           Reg!ClearBackendIf(n, producer),
           producer \in Container => n = Service(producer),
           (tracked \cup forgotten) \ (tracked' \cup forgotten') \subseteq {producer},
           forgotten' # {} => pc' = "forget",
           pc' = "register" => \A r \in current' : Fit(r)'
    PROVE  WatcherInv'
  <1>1. TypeOK
    BY DEF WatcherInv
  <1>2. /\ DOMAIN services' = DOMAIN services
        /\ \A m \in DOMAIN services : services'[m].producer = services[m].producer
        /\ \A m \in DOMAIN services : services'[m].status = "ready" =>
             /\ services'[m] = services[m]
             /\ ~(m = n /\ services[m].producer = producer)
    BY <1>1, ClearStep
  <1>3. ASSUME NEW m \in DOMAIN services', services'[m].producer \in Container
        PROVE  m = Service(services[m].producer)'
    BY <1>2, <1>3 DEF WatcherInv, Service
  <1>4. PublicationIsTracked'
    <2> SUFFICES ASSUME NEW m \in DOMAIN services, services'[m].status = "ready",
                        services'[m].producer \in Container
                 PROVE  services'[m].producer \in tracked' \cup forgotten'
      BY <1>2 DEF PublicationIsTracked, Reg!Ready
    <2>1. services'[m] = services[m] /\ ~(m = n /\ services[m].producer = producer)
      BY <1>2
    <2>2. services[m].producer \in tracked \cup forgotten /\ m = Service(services[m].producer)
      BY <2>1 DEF WatcherInv, PublicationIsTracked, Reg!Ready
    <2> QED
      BY <2>1, <2>2
  <1>5. OnlyLoopbackIsPublished'
    <2> SUFFICES ASSUME NEW m \in DOMAIN services', services'[m].status = "ready",
                        services'[m].producer \in Container, ~AllowNonLoopback
                 PROVE  LET addresses == Range(config[services'[m].producer].addresses)
                        IN  /\ services'[m].backend.host \in addresses
                            /\ addresses \subseteq {"127.0.0.1", "::1"}
      BY Zenon DEF OnlyLoopbackIsPublished, Reg!Ready
    <2>1. services'[m] = services[m] /\ m \in DOMAIN services
      BY <1>2
    <2> QED
      BY <2>1 DEF WatcherInv, OnlyLoopbackIsPublished, Reg!Ready
  <1> QED
    BY <1>3, <1>4, <1>5 DEF WatcherInv

\* A new publication of a container is tracked and obeys the loopback rule.
LEMMA PutInv ==
    ASSUME WatcherInv, TypeOK', UNCHANGED config, NEW n \in Name, NEW rec \in Published,
           services' = Reg!Put(n, rec),
           rec.producer \in Container =>
             /\ n = Service(rec.producer)
             /\ rec.producer \in tracked'
             /\ Fit([id |-> rec.producer, backend |-> rec.backend]),
           tracked \cup forgotten \subseteq tracked' \cup forgotten',
           forgotten' # {} => pc' = "forget",
           pc' = "register" => \A r \in current' : Fit(r)'
    PROVE  WatcherInv'
  <1>1. /\ DOMAIN services' = DOMAIN services \cup {n}
        /\ services'[n] = rec
        /\ \A m \in DOMAIN services \ {n} : services'[m] = services[m]
    BY DEF Reg!Put
  <1>2. ASSUME NEW m \in DOMAIN services', services'[m].producer \in Container
        PROVE  m = Service(services[m].producer)'
    BY <1>1, <1>2 DEF WatcherInv, Service
  <1>3. PublicationIsTracked'
    BY <1>1 DEF WatcherInv, PublicationIsTracked, Reg!Ready
  <1>4. OnlyLoopbackIsPublished'
    <2> SUFFICES ASSUME NEW m \in DOMAIN services', services'[m].status = "ready",
                        services'[m].producer \in Container, ~AllowNonLoopback
                 PROVE  LET addresses == Range(config[services'[m].producer].addresses)
                        IN  /\ services'[m].backend.host \in addresses
                            /\ addresses \subseteq {"127.0.0.1", "::1"}
      BY Zenon DEF OnlyLoopbackIsPublished, Reg!Ready
    <2>1. CASE m = n
      BY <1>1, <2>1 DEF Fit
    <2>2. CASE m # n
      <3>1. services'[m] = services[m] /\ m \in DOMAIN services
        BY <1>1, <2>2
      <3> QED
        BY <3>1 DEF WatcherInv, OnlyLoopbackIsPublished, Reg!Ready
    <2> QED
      BY <2>1, <2>2
  <1> QED
    BY <1>2, <1>3, <1>4, Zenon DEF WatcherInv

\* A container taken out of tracked is out of the books only when its
\* publication is ended.
LEMMA ForgetInv ==
    ASSUME WatcherInv, Forget
    PROVE  WatcherInv'
  <1>1. /\ TypeOK /\ pc = "forget"
        /\ UNCHANGED <<tracked, status, pc, caller, retries, todo, seen, current, dockerVars, faults>>
    BY DEF WatcherInv, Forget
  <1>2. PICK c \in forgotten : OnForget(c) /\ forgotten' = forgotten \ {c}
    BY DEF Forget
  <1>3. c \in Container /\ Service(c) \in Name
    BY <1>1, ConfigType DEF TypeOK
  <1>4. TypeOK'
    <2>1. /\ DOMAIN services' \subseteq Name
          /\ \A m \in DOMAIN services' : services'[m] \in Published'
      BY <1>1, <1>2, <1>3, ClearStep DEF OnForget, dockerVars
    <2> QED
      BY <1>1, <1>2, <2>1 DEF TypeOK, dockerVars
  <1> QED
    BY <1>1, <1>2, <1>3, <1>4, ClearInv DEF OnForget, dockerVars

\* What inspect found is published under the container's own name and tracked.
LEMMA OnRegisterInv ==
    ASSUME WatcherInv, NEW r \in current, OnRegister(r)
    PROVE  WatcherInv'
  <1> DEFINE n == Service(r.id)
             rec == Publication(r)
  <1>1. /\ TypeOK /\ pc = "register" /\ forgotten = {} /\ Fit(r)
        /\ r \in [id : Container, backend : Target]
        /\ UNCHANGED <<status, todo, seen, forgotten, stream, subscribed, config, state, starts>>
    BY Zenon DEF WatcherInv, OnRegister, TypeOK, dockerVars
  <1>2. /\ current' = {} /\ retries' = 0
        /\ pc' \in {"next", "subscribe", "select"}
        /\ caller' \in {"none", "startup", "tick", "reconnect", "event"}
    BY <1>1, LeaveStep DEF OnRegister
  <1>3. n \in Name /\ rec \in Published /\ rec.producer = r.id /\ rec.backend = r.backend
    BY <1>1, ConfigType DEF Publication, Record, Published, Reg!Status
  <1>4. \/ services' = services /\ UNCHANGED tracked
        \/ services' = Reg!Put(n, rec) /\ tracked' = tracked \cup {r.id}
    <2>1. rec.owner = Owner(r.id)
      BY DEF Publication, Record
    <2> QED
      BY <2>1 DEF OnRegister, Reg!CreateOrReplaceOwned
  <1>5. faults' \in 0 .. MaxFaults
    BY <1>1, FaultType DEF OnRegister, TypeOK
  <1> HIDE DEF rec, n
  <1>6. TypeOK'
    <2>1. /\ DOMAIN services' \subseteq Name
          /\ \A m \in DOMAIN services' : services'[m] \in Published'
      BY <1>1, <1>3, <1>4, PutType
    <2>2. tracked' \subseteq Container
      BY <1>1, <1>4, Zenon DEF TypeOK
    <2> QED
      BY <1>1, <1>2, <1>5, <2>1, <2>2, NoRetries DEF TypeOK
  <1>7. CASE services' = services /\ UNCHANGED tracked
    BY <1>1, <1>2, <1>6, <1>7, BooksKept
  <1>8. CASE services' = Reg!Put(n, rec) /\ tracked' = tracked \cup {r.id}
    <2>1. Fit([id |-> rec.producer, backend |-> rec.backend])
      BY <1>1, <1>3 DEF Fit
    <2>2. n = Service(rec.producer) /\ rec.producer \in tracked'
      BY <1>3, <1>8 DEF n
    <2> QED
      BY <1>1, <1>2, <1>3, <1>6, <1>8, <2>1, <2>2, PutInv
  <1> QED
    BY <1>4, <1>7, <1>8

\* Process producers take and free names; they are not in the watcher's books.
LEMMA ProcessInv ==
    ASSUME WatcherInv, NEW n \in Name, NEW p \in Process,
           ProcessRegisters(n, p) \/ ProcessEnds(n, p)
    PROVE  WatcherInv'
  <1>1. TypeOK /\ UNCHANGED <<watcherVars, dockerVars, faults>> /\ p \notin Container
    BY ContainerAssumption, Zenon DEF WatcherInv, ProcessRegisters, ProcessEnds
  <1>2. pc' = "register" => \A r \in current' : Fit(r)'
    BY <1>1, Zenon DEF WatcherInv, watcherVars, dockerVars, Fit, Range
  <1>3. /\ UNCHANGED <<config, tracked, forgotten>>
        /\ forgotten' # {} => pc' = "forget"
    BY <1>1 DEF watcherVars, dockerVars, WatcherInv
  <1>4. CASE ProcessRegisters(n, p)
    <2> DEFINE rec == Record(<<p>>, p, [host |-> "127.0.0.1", port |-> NoPort])
    <2>1. rec \in Published /\ rec.producer = p
      BY Zenon DEF Record, Published, Target, Reg!Status, NoPort
    <2>2. services' = Reg!Put(n, rec)
      BY <1>4, Zenon DEF ProcessRegisters, Reg!CreateOrReplaceOwned, Record
    <2> HIDE DEF rec
    <2>3. TypeOK'
      <3>1. /\ DOMAIN services' \subseteq Name
            /\ \A m \in DOMAIN services' : services'[m] \in Published'
        BY <1>1, <2>1, <2>2, PutType DEF dockerVars
      <3> QED
        BY <1>1, <3>1, Zenon DEF TypeOK, watcherVars, dockerVars
    <2> QED
      BY <1>1, <1>2, <1>3, <2>1, <2>2, <2>3, PutInv, Zenon
  <1>5. CASE ProcessEnds(n, p)
    <2>1. Reg!ClearBackendIf(n, p)
      BY <1>5 DEF ProcessEnds
    <2>2. TypeOK'
      <3>1. /\ DOMAIN services' \subseteq Name
            /\ \A m \in DOMAIN services' : services'[m] \in Published'
        BY <1>1, <2>1, ClearStep DEF dockerVars
      <3> QED
        BY <1>1, <3>1, Zenon DEF TypeOK, watcherVars, dockerVars
    <2> QED
      BY <1>1, <1>2, <1>3, <2>1, <2>2, ClearInv
  <1> QED
    BY <1>4, <1>5

-----------------------------------------------------------------------------
(* The invariant is inductive. *)

\* The invariant holds when the watcher starts.
LEMMA InitWatcherInv == Init => WatcherInv
  <1> SUFFICES ASSUME Init PROVE WatcherInv
    OBVIOUS
  <1>1. DOMAIN services = {}
    BY EmptyRegistry
  <1>2. TypeOK
    <2>1. starts \in [Container -> 1 .. MaxStarts] /\ faults \in 0 .. MaxFaults
      BY BoundAssumption DEF Init
    <2>2. retries \in Nat /\ retries <= PublishRetries
      BY NoRetries DEF Init
    <2>3. \A c \in Container : config[c] \in Creations[c]
      BY DEF Init
    <2>4. state \in [Container -> {"stopped", "starting", "running"}]
      BY DEF Init
    <2>5. /\ tracked \subseteq Container /\ todo \subseteq Container
          /\ seen \subseteq Container /\ forgotten \subseteq Container
          /\ current \subseteq [id : Container, backend : Target]
          /\ stream \in Seq([action : {"start", "die"}, id : Container])
      BY DEF Init
    <2>6. /\ DOMAIN services \subseteq Name /\ subscribed \in BOOLEAN /\ status = "degraded"
          /\ pc = "list" /\ caller = "startup"
      BY <1>1, Zenon DEF Init
    <2> QED
      BY <1>1, <2>1, <2>2, <2>3, <2>4, <2>5, <2>6, Zenon DEF TypeOK
  <1>3. forgotten = {} /\ pc # "register"
    BY DEF Init
  <1> QED
    BY <1>1, <1>2, <1>3, Zenon DEF WatcherInv, PublicationIsTracked, OnlyLoopbackIsPublished

\* Every step of the watcher, of Docker and of a process keeps the invariant.
LEMMA NextWatcherInv ==
    ASSUME WatcherInv, [Next]_vars
    PROVE  WatcherInv'
  <1>1. CASE UNCHANGED vars
    <2>1. TypeOK /\ TypeOK'
      <3>1. TypeOK
        BY DEF WatcherInv
      <3>2. Published' = Published
        BY <1>1, PublishedFixed, Zenon DEF vars, dockerVars
      <3> QED
        BY <1>1, <3>1, <3>2, Zenon DEF TypeOK, vars, watcherVars, dockerVars
    <2>2. pc' = "register" => \A r \in current' : Fit(r)'
      BY <1>1, Zenon DEF WatcherInv, vars, watcherVars, dockerVars, Fit, Range
    <2> QED
      BY <1>1, <2>1, <2>2, BooksKept DEF vars, watcherVars, dockerVars, WatcherInv
  <1>2. CASE Next
    BY <1>2, ReconcileInv, ForgetInv, InspectInv, OnRegisterInv, EventLoopInv, DockerInv, ProcessInv
       DEF Next, Run
  <1> QED
    BY <1>1, <1>2

\* The inductive invariant holds in every reachable state.
THEOREM WatcherInvariant == Spec => []WatcherInv
  <1>1. WatcherInv /\ [Next]_vars => WatcherInv'
    BY NextWatcherInv
  <1> QED
    BY <1>1, InitWatcherInv, PTL DEF Spec

\* Every variable keeps its type; in particular the retries stay below the
\* bounds of reconcileWithRetry and registerContainer, and every backend that
\* reaches the registry is a loopback address.
THEOREM WatcherTypeCorrect == Spec => []TypeOK
  <1>1. WatcherInv => TypeOK
    BY DEF WatcherInv
  <1> QED
    BY <1>1, WatcherInvariant, PTL

\* A ready service of a container is tracked, or being forgotten, in every
\* interleaving of events, reconciliations, faults and restarts.
THEOREM PublicationsStayTracked == Spec => []PublicationIsTracked
  <1>1. WatcherInv => PublicationIsTracked
    BY DEF WatcherInv
  <1> QED
    BY <1>1, WatcherInvariant, PTL

\* For any list of bindings: unless the operator allows it, no container with
\* an address off loopback is ever published, and a published one listens on
\* the address it is published at.
THEOREM LoopbackRuleHolds == Spec => []OnlyLoopbackIsPublished
  <1>1. WatcherInv => OnlyLoopbackIsPublished
    BY DEF WatcherInv
  <1> QED
    BY <1>1, WatcherInvariant, PTL

-----------------------------------------------------------------------------
(* What a reconciliation keeps. *)

\* A backend of an incarnation of the container that has had its port.
Sound(c, backend) ==
    /\ Managed(c)
    /\ backend.port \in 1 .. starts[c]
    /\ state[c] = "starting" => backend.port # starts[c]

\* In the middle of a pass of Reconcile, all that it may register and every
\* container that is in place was listed.
Pass == pc \in {"next", "inspect", "register"} /\ caller # "event"

KeepInv ==
    /\ \A n \in DOMAIN services :
         services[n].status = "ready" /\ services[n].producer \in Container
            => Sound(services[n].producer, services[n].backend)
    /\ pc = "register" => \A r \in current : Sound(r.id, r.backend)
    /\ Pass => /\ todo \subseteq seen
               /\ pc # "next" => \A r \in current : r.id \in seen
               /\ \A c \in Container : InPlace(c) => c \in seen

\* What inspect accepts is the port of the incarnation that runs.
LEMMA InspectSound ==
    ASSUME TypeOK, NEW r \in current, NEW bindings \in Reported(r.id),
           RegistrationFromInspect(config[r.id].labels, bindings, AllowNonLoopback) = "ok"
    PROVE  LET found == [r EXCEPT !.backend = Backend(Chosen(bindings))]
           IN  found.id = r.id /\ Sound(found.id, found.backend)
  <1> DEFINE found == [r EXCEPT !.backend = Backend(Chosen(bindings))]
             addresses == config[r.id].addresses
  <1>1. r.id \in Container /\ r \in [id : Container, backend : Target]
    BY DEF TypeOK
  <1>2. addresses \in Seq(STRING)
    BY <1>1, ConfigType
  <1>3. /\ Managed(r.id) /\ bindings # << >> /\ Chosen(bindings).port # NoPort
    BY Zenon DEF RegistrationFromInspect, Managed
  <1>4. PICK port \in {NoPort, starts[r.id]} :
            /\ bindings = Bindings(r.id, port)
            /\ port # NoPort => state[r.id] = "running"
    BY <1>3 DEF Reported
  <1>5. DOMAIN addresses = 1 .. Len(addresses) /\ Len(addresses) \in Nat
    BY <1>2
  <1>6. bindings = [i \in 1 .. Len(addresses) |-> [ip |-> addresses[i], port |-> port]]
    BY <1>4, <1>5 DEF Bindings
  <1>7. bindings \in Seq([ip : STRING, port : {port}])
    <2>1. \A i \in 1 .. Len(addresses) :
             [ip |-> addresses[i], port |-> port] \in [ip : STRING, port : {port}]
      BY <1>2
    <2> QED
      BY <1>5, <1>6, <2>1
  <1>8. PICK i \in DOMAIN bindings : Chosen(bindings) = bindings[i]
    BY <1>3, <1>7, ChosenType
  <1>9. Chosen(bindings).port = port
    <2>1. i \in 1 .. Len(addresses)
      BY <1>6, <1>8, Zenon
    <2>2. bindings[i] = [ip |-> addresses[i], port |-> port]
      BY <1>6, <2>1, Zenon
    <2> QED
      BY <1>8, <2>2
  <1>10. Backend(Chosen(bindings)).port = port /\ port = starts[r.id] /\ port # NoPort
    BY <1>3, <1>4, <1>9 DEF Backend
  <1>11. found.id = r.id /\ found.backend = Backend(Chosen(bindings))
    BY <1>1
  <1>12. starts[r.id] \in 1 .. starts[r.id]
    BY <1>1, BoundAssumption DEF TypeOK
  <1> QED
    BY <1>3, <1>4, <1>10, <1>11, <1>12 DEF Sound

\* Where the registry and the containers stay as they are, a pass is in
\* question only when it begins.
LEMMA KeptWhile ==
    ASSUME KeepInv, UNCHANGED <<services, config, state, starts>>,
           pc' = "register" => \A r \in current' : Sound(r.id, r.backend),
           Pass' => /\ todo' \subseteq seen'
                    /\ pc' # "next" => \A r \in current' : r.id \in seen'
                    /\ \A c \in Container : InPlace(c) => c \in seen'
    PROVE  KeepInv'
  <1>1. \A c, b : Sound(c, b)' <=> Sound(c, b)
    BY DEF Sound, Managed
  <1>2. \A c \in Container : InPlace(c)' <=> InPlace(c)
    BY Zenon DEF InPlace, Service, Reg!Ready
  <1> QED
    BY <1>1, <1>2, Zenon DEF KeepInv

\* Every step of the watcher on its own variables.
LEMMA WatcherKeeps ==
    ASSUME WatcherInv, KeepInv,
           \/ List \/ ListFails \/ NextContainer \/ ForgetAbsent \/ Finish
           \/ Subscribe \/ handleEvent \/ ReconcileTick \/ StreamFails
    PROVE  KeepInv'
  <1> USE DEF dockerVars
  <1>1. CASE List
    <2>1. ASSUME NEW c \in Container, InPlace(c) PROVE c \in Listed
      <3>1. Sound(c, services[Service(c)].backend)
        BY <2>1 DEF KeepInv, InPlace, Reg!Ready
      <3> QED
        BY <2>1, <3>1, Zenon DEF Listed, Sound, InPlace
    <2> QED
      BY <1>1, <2>1, KeptWhile DEF List
  <1>2. CASE NextContainer
    <2>1. /\ pc = "next" /\ pc' = "inspect"
          /\ UNCHANGED <<services, tracked, status, caller, seen, forgotten, dockerVars, faults>>
      BY <1>2 DEF NextContainer
    <2>2. PICK c \in todo : todo' = todo \ {c} /\ current' = {[id |-> c, backend |-> NoBackend]}
      BY <1>2 DEF NextContainer
    <2>3. \A r \in current' : r.id = c
      BY <2>2
    <2>4. Pass' => Pass
      BY <2>1, Zenon DEF Pass
    <2>5. Pass' => /\ todo' \subseteq seen' /\ c \in seen'
                   /\ \A d \in Container : InPlace(d) => d \in seen'
      BY <2>1, <2>2, <2>4, Zenon DEF KeepInv
    <2> QED
      BY <2>1, <2>3, <2>5, KeptWhile
  <1>3. CASE \/ ListFails \/ ForgetAbsent \/ Finish \/ Subscribe \/ ReconcileTick \/ StreamFails
             \/ handleEvent
    <2>1. /\ UNCHANGED <<services, config, state, starts>> /\ pc' # "register"
          /\ ~Pass'
      BY <1>3, Zenon DEF ListFails, ForgetAbsent, Finish, Return, Subscribe, ReconcileTick, StreamFails,
                  handleEvent, Pass
    <2> QED
      BY <2>1, KeptWhile
  <1> QED
    BY <1>1, <1>2, <1>3

\* Inspecting a container drops it, or passes on what was found.
LEMMA InspectKeeps ==
    ASSUME WatcherInv, KeepInv, NEW r \in current, Inspect(r) \/ InspectFails(r)
    PROVE  KeepInv'
  <1>1. /\ TypeOK /\ pc = "inspect"
        /\ UNCHANGED <<services, todo, seen, config, state, starts>>
    BY DEF WatcherInv, Inspect, InspectFails, dockerVars
  <1>2. CASE Leave
    <2>1. /\ current' = {} /\ pc' # "register"
          /\ Pass' => pc' = "next" /\ caller' = caller
      BY <1>2 DEF Leave, Return, Pass
    <2> QED
      BY <1>1, <2>1, KeptWhile, Zenon DEF KeepInv, Pass
  <1>3. ASSUME NEW bindings \in Reported(r.id),
               RegistrationFromInspect(config[r.id].labels, bindings, AllowNonLoopback) = "ok",
               current' = {[r EXCEPT !.backend = Backend(Chosen(bindings))]},
               pc' = "register", UNCHANGED caller
        PROVE  KeepInv'
    <2> DEFINE found == [r EXCEPT !.backend = Backend(Chosen(bindings))]
    <2>1. found.id = r.id /\ Sound(found.id, found.backend) /\ current' = {found}
      BY <1>1, <1>3, InspectSound
    <2> HIDE DEF found
    <2>2. \A s \in current' : Sound(s.id, s.backend) /\ s.id = r.id
      BY <2>1
    <2> QED
      BY <1>1, <1>3, <2>2, KeptWhile DEF KeepInv, Pass
  <1>4. CASE UNCHANGED <<pc, caller, current>>
    BY <1>1, <1>4, KeptWhile, Zenon DEF KeepInv, Pass
  <1> QED
    BY <1>2, <1>3, <1>4 DEF Inspect, InspectFails

\* A container that starts is not in place, and no backend is of the incarnation
\* whose port appears.
LEMMA DockerKeeps ==
    ASSUME WatcherInv, KeepInv, NEW c \in Container,
           ContainerStarts(c) \/ PortPublished(c) \/ ContainerDies(c)
    PROVE  KeepInv'
  <1>1. /\ TypeOK /\ UNCHANGED <<services, pc, caller, todo, seen, current, config>>
    BY DEF WatcherInv, ContainerStarts, PortPublished, ContainerDies, watcherVars
  <1>2. \A d \in Container : starts[d] \in Nat
    <2>1. \A d \in Container : starts[d] \in 1 .. MaxStarts
      BY <1>1, Zenon DEF TypeOK
    <2> QED
      BY <2>1, BoundAssumption
  <1>3. \A d \in Container :
          \/ state'[d] = state[d] /\ starts'[d] = starts[d]
          \/ state'[d] = "starting" /\ starts'[d] = starts[d] + 1
          \/ state[d] = "starting" /\ state'[d] = "running" /\ starts'[d] = starts[d]
          \/ state'[d] = "stopped" /\ starts'[d] = starts[d]
    BY <1>1, Zenon DEF TypeOK, ContainerStarts, PortPublished, ContainerDies
  <1>4. ASSUME NEW d \in Container, NEW b, Sound(d, b) PROVE Sound(d, b)'
    <2>1. Managed(d)' <=> Managed(d)
      BY <1>1 DEF Managed
    <2>2. /\ Managed(d) /\ b.port \in 1 .. starts[d] /\ starts[d] \in Nat
          /\ state[d] = "starting" => b.port # starts[d]
      BY <1>2, <1>4, Zenon DEF Sound
    <2>3. \/ starts'[d] = starts[d] /\ (state'[d] = "starting" => state[d] = "starting")
          \/ starts'[d] = starts[d] + 1
      BY <1>3, Zenon
    <2>4. \A k \in 1 .. starts[d] : k \in 1 .. (starts[d] + 1) /\ k # starts[d] + 1
      BY <1>2
    <2>5. CASE starts'[d] = starts[d] /\ (state'[d] = "starting" => state[d] = "starting")
      BY <2>1, <2>2, <2>5, Zenon DEF Sound
    <2>6. CASE starts'[d] = starts[d] + 1
      <3>1. b.port \in 1 .. (starts[d] + 1) /\ b.port # starts[d] + 1
        BY <2>2, <2>4, Zenon
      <3> QED
        BY <2>1, <2>2, <2>6, <3>1, Zenon DEF Sound
    <2> QED
      BY <2>3, <2>5, <2>6, Zenon
  <1>5. ASSUME NEW d \in Container, InPlace(d)' PROVE InPlace(d)
    <2>1. Service(d)' = Service(d) /\ Reg!Ready(Service(d))
      BY <1>1, <1>5, Zenon DEF InPlace, Service, Reg!Ready
    <2>2. services[Service(d)].producer = d /\ services[Service(d)].backend.port = starts'[d]
      BY <1>1, <1>5, <2>1, Zenon DEF InPlace
    <2>3. Sound(d, services[Service(d)].backend)
      BY <2>1, <2>2, Zenon DEF KeepInv, Reg!Ready
    <2>4. state'[d] = "running"
      BY <1>5 DEF InPlace
    <2>5. state[d] = "running" /\ starts'[d] = starts[d]
      BY <1>3, <2>2, <2>3, <2>4, Zenon DEF Sound
    <2> QED
      BY <2>1, <2>2, <2>5, Zenon DEF InPlace
  <1>6. \A r \in current : r.id \in Container
    BY <1>1, Zenon DEF TypeOK
  <1> QED
    BY <1>1, <1>4, <1>5, <1>6, Zenon DEF KeepInv, Pass

\* Where containers stay as they are and every ready record of one is an old one
\* or that of a listed container.
LEMMA RegistryKeeps ==
    ASSUME KeepInv, UNCHANGED <<config, state, starts, todo, seen>>, Pass' => Pass,
           Pass' /\ pc' # "next" => current' = current /\ pc # "next",
           pc' = "register" => pc = "register" /\ current' = current,
           \A n \in DOMAIN services' :
              services'[n].status = "ready" /\ services'[n].producer \in Container =>
                 \/ n \in DOMAIN services /\ services'[n] = services[n]
                 \/ /\ Sound(services'[n].producer, services'[n].backend)
                    /\ Pass => services'[n].producer \in seen
    PROVE  KeepInv'
  <1>1. \A c, b : Sound(c, b)' <=> Sound(c, b)
    BY Zenon DEF Sound, Managed
  <1>2. ASSUME NEW n \in DOMAIN services', services'[n].status = "ready",
               services'[n].producer \in Container
        PROVE  Sound(services'[n].producer, services'[n].backend)
    BY <1>2, Zenon DEF KeepInv
  <1>3. ASSUME NEW c \in Container, InPlace(c)', Pass' PROVE c \in seen
    <2> DEFINE n == Service(c)
    <2>1. /\ Service(c)' = n /\ n \in DOMAIN services' /\ services'[n].status = "ready"
          /\ services'[n].producer = c /\ state[c] = "running"
          /\ services'[n].backend.port = starts[c]
      BY <1>3, Zenon DEF InPlace, Service, Reg!Ready
    <2> HIDE DEF n
    <2>2. CASE n \in DOMAIN services /\ services'[n] = services[n]
      <3>1. InPlace(c)
        BY <2>1, <2>2 DEF InPlace, Reg!Ready, n
      <3> QED
        BY <1>3, <3>1, Zenon DEF KeepInv
    <2> QED
      BY <1>3, <2>1, <2>2, Zenon
  <1> QED
    BY <1>1, <1>2, <1>3, Zenon DEF KeepInv

\* Registrations and the ends of publications, whoever makes them.
LEMMA PublicationsKeep ==
    ASSUME WatcherInv, KeepInv,
           \/ Forget
           \/ \E r \in current : OnRegister(r)
           \/ \E n \in Name, p \in Process : ProcessRegisters(n, p) \/ ProcessEnds(n, p)
    PROVE  KeepInv'
  <1> DEFINE Kept(n) == n \in DOMAIN services /\ services'[n] = services[n]
  <1>1. TypeOK
    BY DEF WatcherInv
  <1>2. CASE Forget
    <2>1. PICK c \in forgotten : OnForget(c)
      BY <1>2 DEF Forget
    <2>2. Service(c) \in Name
      BY <1>1, ConfigType, Zenon DEF TypeOK
    <2>3. \A n \in DOMAIN services' : services'[n].status = "ready" => Kept(n)
      BY <1>1, <1>2, <2>1, <2>2, ClearStep, Zenon DEF OnForget, Forget, dockerVars
    <2>4. pc = "forget" /\ UNCHANGED <<pc, caller, config, state, starts, todo, seen, current>>
      BY <1>2 DEF Forget, dockerVars
    <2> QED
      BY <2>3, <2>4, RegistryKeeps DEF Pass
  <1>3. ASSUME NEW r \in current, OnRegister(r) PROVE KeepInv'
    <2> DEFINE name == Service(r.id)
    <2>1. /\ pc = "register" /\ current' = {} /\ pc' # "register"
          /\ Pass' => pc' = "next" /\ caller' = caller
          /\ UNCHANGED <<config, state, starts, todo, seen>>
      BY <1>3 DEF OnRegister, Leave, Return, Pass, dockerVars
    <2>2. Sound(r.id, r.backend) /\ (Pass => r.id \in seen)
      BY <2>1, Zenon DEF KeepInv
    <2>3. services' = services \/ services' = Reg!Put(name, Publication(r))
      BY <1>3 DEF OnRegister, Reg!CreateOrReplaceOwned
    <2>4. Publication(r).producer = r.id /\ Publication(r).backend = r.backend
      BY DEF Publication, Record
    <2>5. \A n \in DOMAIN services' : Kept(n) \/ services'[n] = Publication(r)
      BY <2>3 DEF Reg!Put
    <2> QED
      BY <2>1, <2>2, <2>4, <2>5, RegistryKeeps, Zenon DEF Pass
  <1>4. ASSUME NEW n \in Name, NEW p \in Process, ProcessRegisters(n, p) \/ ProcessEnds(n, p)
        PROVE  KeepInv'
    <2> DEFINE rec == Record(<<p>>, p, [host |-> "127.0.0.1", port |-> NoPort])
    <2>1. UNCHANGED <<pc, caller, config, state, starts, todo, seen, current>>
      BY <1>4 DEF ProcessRegisters, ProcessEnds, watcherVars, dockerVars
    <2>2. rec.producer \notin Container
      BY ContainerAssumption, Zenon DEF Record
    <2>3. CASE ProcessRegisters(n, p)
      <3>1. services' = services \/ services' = Reg!Put(n, rec)
        BY <2>3, Zenon DEF ProcessRegisters, Reg!CreateOrReplaceOwned
      <3> HIDE DEF rec
      <3>2. \A m \in DOMAIN services' : Kept(m) \/ services'[m] = rec
        BY <3>1 DEF Reg!Put
      <3> QED
        BY <2>1, <2>2, <3>2, RegistryKeeps, Zenon DEF Pass
    <2>4. CASE ProcessEnds(n, p)
      <3>1. \A m \in DOMAIN services' : services'[m].status = "ready" => Kept(m)
        BY <1>1, <2>1, <2>4, ClearStep, Zenon DEF ProcessEnds
      <3> QED
        BY <2>1, <3>1, RegistryKeeps, Zenon DEF Pass
    <2> QED
      BY <1>4, <2>3, <2>4
  <1> QED
    BY <1>2, <1>3, <1>4

\* For any containers, faults and restarts: a reconciliation gives up no container
\* that runs where it is published (Reconcile marks a container as seen before it
\* inspects it).
THEOREM PresentContainersAreKept == Spec => PresentContainerIsKept
  <1>1. Init => KeepInv
    <2>1. Init => pc # "register" /\ ~Pass
      BY Zenon DEF Init, Pass
    <2> QED
      BY <2>1, EmptyRegistry, Zenon DEF KeepInv
  <1>2. WatcherInv /\ KeepInv /\ [Next]_vars => KeepInv'
    <2> SUFFICES ASSUME WatcherInv, KeepInv, [Next]_vars PROVE KeepInv'
      OBVIOUS
    <2>1. CASE UNCHANGED vars
      BY <2>1, KeptWhile, Zenon DEF KeepInv, Pass, vars, watcherVars, dockerVars
    <2>2. CASE Next
      BY <2>2, WatcherKeeps, InspectKeeps, DockerKeeps, PublicationsKeep DEF Next, Run
    <2> QED
      BY <2>1, <2>2
  <1>3. WatcherInv /\ KeepInv /\ [Next]_vars
           => [\A c \in forgotten' \ forgotten : caller' = "event" \/ ~InPlace(c)]_vars
    <2> SUFFICES ASSUME WatcherInv, KeepInv, [Next]_vars, NEW c \in forgotten' \ forgotten,
                        caller' # "event", InPlace(c)
                 PROVE  FALSE
      BY Zenon
    <2>1. CASE ForgetAbsent
      <3>1. /\ c \in tracked \ seen /\ pc = "next" /\ caller' = caller
        BY <2>1 DEF ForgetAbsent
      <3>2. c \in Container
        BY <3>1 DEF WatcherInv, TypeOK
      <3> QED
        BY <3>1, <3>2, Zenon DEF KeepInv, Pass
    <2>2. ASSUME forgotten' \subseteq forgotten PROVE FALSE
      BY <2>2
    <2>3. CASE handleEvent
      BY <2>3 DEF handleEvent
    <2> QED
      BY <2>1, <2>2, <2>3, Zenon
      DEF Next, Run, List, ListFails, NextContainer, Forget, Finish, Inspect, InspectFails,
          OnRegister, Subscribe, ReconcileTick, StreamFails, ContainerStarts, PortPublished,
          ContainerDies, ProcessRegisters, ProcessEnds, vars, watcherVars
  <1> QED
    BY <1>1, <1>2, <1>3, WatcherInvariant, PTL DEF Spec, PresentContainerIsKept

=============================================================================
