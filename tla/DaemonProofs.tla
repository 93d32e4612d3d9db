---------------------------- MODULE DaemonProofs ----------------------------
(***************************************************************************)
(* Theorems about Daemon: type correctness and the safety properties, for  *)
(* every choice of names, requests, ports, producers and lease lengths.    *)
(***************************************************************************)
EXTENDS Daemon, TLAPS

-----------------------------------------------------------------------------
\* Whatever is trimmed of a hostname, a hostname is left.
LEMMA TrimType ==
    ASSUME NEW h \in Host
    PROVE  /\ TrimSpace(h) \in Host
           /\ TrimDot(h) \in Host
           /\ SplitHostPort(h) \in Host
           /\ TrimBrackets(h) \in Host
  <1>1. TrimSpace(h) \in Host
    BY DEF TrimSpace, Host
  <1>2. TrimDot(h) \in Host
    BY DEF TrimDot, Host
  <1>3. SplitHostPort(h) \in Host
    <2>1. [h EXCEPT !.open = FALSE, !.close = FALSE, !.port = FALSE] \in Host
      BY Zenon DEF Host
    <2> QED
      BY <2>1, Zenon DEF SplitHostPort
  <1>4. TrimBrackets(h) \in Host
    BY Zenon DEF TrimBrackets, Host
  <1> QED
    BY <1>1, <1>2, <1>3, <1>4

\* Registration and router turn a hostname into a hostname.
LEMMA HostnameType ==
    ASSUME NEW h \in Host
    PROVE  canonicalHTTPHost(h) \in Host /\ normalizeHost(h) \in Host
  BY TrimType DEF canonicalHTTPHost, normalizeHost

\* The empty hostname is one.
LEMMA NoHostType == NoHost \in Host
  BY LabelAssumption DEF NoHost, Host

\* A lease length is a number of time units.
LEMMA LengthType == LeaseLength \subseteq Nat
  BY LeaseAssumption DEF LeaseLength

\* What registerLocked computes from a request is well typed, and a TTL that
\* passed the range check is permitted.
LEMMA RequestType ==
    ASSUME NEW p \in Requests
    PROVE  /\ p \in RegisterParams
           /\ Hostname(p) \in Host
           /\ LeaseInRange(p) => EffectiveTTL(p) \in LeaseLength
  <1>1. p \in RegisterParams
    BY RequestAssumption
  <1>2. Hostname(p) \in Host
    BY <1>1, HostnameType, NoHostType DEF Hostname, RegisterParams
  <1>3. LeaseInRange(p) => EffectiveTTL(p) \in LeaseLength
    <2>1. CASE p.source = "docker"
      BY <2>1, LeaseAssumption DEF EffectiveTTL, LeaseLength
    <2>2. CASE p.source # "docker"
      BY <2>2 DEF LeaseInRange
    <2> QED BY <2>1, <2>2
  <1> QED BY <1>1, <1>2, <1>3

\* The record Register builds, for a producer it may pick.
LEMMA NewRecordType ==
    ASSUME NEW p \in Requests, NEW id \in ProducerIDs(p)
    PROVE  /\ id \in ProducerID
           /\ OwnerOf(p, id) \in Owner
           /\ NewRecord(p, OwnerOf(p, id), id) \in Record
           /\ p.source # "docker" => id \in RegistrationID \ used
           /\ p.source = "docker" => id \in Container
  <1>1. p \in RegisterParams
    BY RequestType
  <1>2. /\ id \in ProducerID
        /\ p.source # "docker" => id \in RegistrationID \ used
        /\ p.source = "docker" => id \in Container
    BY <1>1 DEF ProducerIDs, RegisterParams, ProducerID
  <1>3. OwnerOf(p, id) \in Owner
    BY <1>1, <1>2, RequestAssumption DEF OwnerOf, Owner, RegisterParams, Reg!Source
  <1>4. normalizeHost(Hostname(p)) \in Host
    BY RequestType, HostnameType
  <1>5. NewRecord(p, OwnerOf(p, id), id) \in Record
    BY <1>1, <1>2, <1>3, <1>4, RequestType, NoHostType
       DEF NewRecord, Record, Reg!ServiceRecord, Reg!Status, Frontend, NoFrontend, RegisterParams
  <1> QED BY <1>2, <1>3, <1>5

-----------------------------------------------------------------------------
(* The inductive invariant. *)

\* The frontend of a record: the URL of its hostname, or the port of its
\* runtime.
HasItsFrontend(n, rec) ==
    IF rec.kind = "http"
      THEN rec.frontend = [port |-> 0, url |-> normalizeHost(rec.hostname)]
      ELSE /\ rec.hostname = NoHost
           /\ n \in DOMAIN runtimes
           /\ rec.frontend = [port |-> runtimes[n], url |-> NoHost]

\* What the registration that holds the mutex can rely on, although
\* heartbeats, deletions and the sweeper run beside it.
UnderWay(r) ==
    /\ r.rec.status = "ready"
    /\ r.rec.source = "docker" => r.rec.producer \in Container
    /\ r.rec.source # "docker" =>
         /\ r.rec.producer \in used
         /\ r.rec.producer \notin DOMAIN entries
         /\ \A e \in deleting \cup sweeping : e.id # r.rec.producer
    /\ r.pc = "allocate" =>
         r.rec.kind = "tcp" /\ r.rec.hostname = NoHost /\ r.rec.frontend = NoFrontend
    /\ r.pc = "route" => r.rec.kind = "http"
    /\ r.pc = "lease" => r.rec.source # "docker"
    /\ r.pc # "allocate" => HasItsFrontend(r.name, r.rec)
    /\ r.pc \in {"allocate", "publish"} =>
         /\ ~Reg!NameConflict(r.name, r.rec.owner)
         /\ r.rec.source # "docker" =>
              \A n \in DOMAIN services : services[n].producer # r.rec.producer
         /\ r.name \in DOMAIN services =>
              /\ services[r.name].kind = r.rec.kind
              /\ services[r.name].hostname = r.rec.hostname
    /\ r.pc \in {"route", "lease"} =>
         r.name \in DOMAIN services /\ services[r.name] = r.rec
    /\ \A id \in DOMAIN entries : entries[id].name # r.name

MutexInv ==
    /\ \A r, s \in registering : r = s
    /\ \A r \in registering : UnderWay(r)

LeaseInv ==
    /\ DOMAIN entries \subseteq used
    /\ \A e \in deleting \cup sweeping : e.id \in used /\ e.id \notin DOMAIN entries
    /\ LeaseHolderIsPublished

ServiceInv ==
    /\ \A n \in DOMAIN services :
         /\ HasItsFrontend(n, services[n])
         /\ services[n].source = "docker" => services[n].producer \in Container
         /\ services[n].source # "docker" => services[n].producer \in used
    /\ \A m, n \in DOMAIN services :
         services[m].source # "docker" /\ services[m].producer = services[n].producer => m = n

IInv ==
    /\ TypeOK
    /\ MutexInv
    /\ LeaseInv
    /\ ServiceInv
    /\ ReadyServiceIsCovered
    /\ Runtime!PortsDistinct

-----------------------------------------------------------------------------
(* Type correctness. *)

USE DEF Lease!Entry, Lease!Without, Restrict, Lease!Restrict

\* A daemon that just started is well typed.
LEMMA InitType == Init => TypeOK
  BY DEF Init, TypeOK, Reg!Init, Lease!Init, Runtime!Init

\* endPublication leaves well-typed records.
LEMMA EndPublicationType ==
    ASSUME TypeOK, NEW name \in Name, NEW producer, endPublication(name, producer)
    PROVE  /\ DOMAIN services' = DOMAIN services
           /\ \A n \in DOMAIN services : services'[n] \in Record
  <1>1. \A n \in DOMAIN services :
          [services[n] EXCEPT !.backend = NoBackend, !.status = "unavailable"] \in Record
    BY Zenon DEF TypeOK, Record, Reg!ServiceRecord, Reg!Status
  <1> QED
    BY <1>1, Zenon DEF TypeOK, endPublication, Reg!ClearBackendIf, Reg!Put

\* The checks of Register, up to the lease it retires, keep the types.
LEMMA RegisterType ==
    ASSUME TypeOK, NEW p \in Requests, Register(p)
    PROVE  TypeOK'
  <1>1. PICK id \in ProducerIDs(p) :
           /\ RetireReplaced(p.name, OwnerOf(p, id), id)
           /\ used' = used \cup ({id} \cap RegistrationID)
           /\ registering' = {[pc   |-> IF p.kind = "http" THEN "publish" ELSE "allocate",
                               name |-> p.name,
                               rec  |-> NewRecord(p, OwnerOf(p, id), id),
                               ttl  |-> EffectiveTTL(p)]}
    BY DEF Register
  <1>2. p.name \in Name /\ p.kind \in Reg!Kind
    BY RequestType DEF RegisterParams
  <1>3. registering' \subseteq Registration
    BY <1>1, <1>2, RequestType, NewRecordType DEF Register, Registration
  <1>4. /\ DOMAIN entries' \subseteq RegistrationID
        /\ \A i \in DOMAIN entries' : entries'[i] \in Lease!Entry(Name, Owner, LeaseLength)
    BY <1>1 DEF RetireReplaced, TypeOK
  <1> QED
    BY <1>1, <1>3, <1>4 DEF Register, TypeOK

\* So do the steps it takes under the mutex.
LEMMA RegisterStepType ==
    ASSUME TypeOK, NEW r \in registering,
           EnsureTCPRuntime(r) \/ Publish(r) \/ SetRoute(r) \/ AddLease(r),
           r.pc = "lease" => r.rec.producer \in RegistrationID
    PROVE  TypeOK'
  <1>1. r \in Registration
    BY DEF TypeOK
  <1>2. CASE EnsureTCPRuntime(r)
    <2>1. ASSUME NEW port \in Port
          PROVE  WithPort(r, port) \in Registration
      BY <1>1, PortAssumption, Zenon
         DEF WithPort, Registration, Record, Reg!ServiceRecord, Frontend
    <2>2. CASE r.name \in DOMAIN runtimes /\ registering' = {WithPort(r, runtimes[r.name])} /\ UNCHANGED runtimes
      BY <1>2, <2>1, <2>2 DEF EnsureTCPRuntime, TypeOK
    <2>3. ASSUME NEW port \in Port, Runtime!Bind(r.name, port), registering' = {WithPort(r, port)}
          PROVE  TypeOK'
      BY <1>1, <1>2, <2>1, <2>3 DEF EnsureTCPRuntime, TypeOK, Runtime!Bind, Registration
    <2>4. CASE registering' = {} /\ UNCHANGED runtimes
      BY <1>2, <2>4 DEF EnsureTCPRuntime, TypeOK
    <2> QED
      BY <1>2, <2>2, <2>3, <2>4 DEF EnsureTCPRuntime
  <1>3. \A pc \in {"route", "lease"} : [r EXCEPT !.pc = pc] \in Registration
    BY <1>1 DEF Registration
  <1>4. AfterPublish(r) \subseteq Registration
    BY <1>3 DEF AfterPublish
  <1>5. CASE Publish(r)
    <2>1. registering' \subseteq Registration
      BY <1>3, <1>4, <1>5 DEF Publish
    <2>2. /\ DOMAIN services' \subseteq Name
          /\ \A n \in DOMAIN services' : services'[n] \in Record
      BY <1>1, <1>5 DEF Publish, Reg!CreateOrReplaceOwned, Reg!Put, TypeOK, Registration
    <2> QED
      BY <1>5, <2>1, <2>2 DEF Publish, TypeOK
  <1>6. CASE SetRoute(r)
    <2>1. normalizeHost(r.rec.hostname) \in Host
      BY <1>1, HostnameType DEF Registration, Record, Reg!ServiceRecord
    <2> QED
      BY <1>1, <1>4, <1>6, <2>1 DEF SetRoute, TypeOK, Registration
  <1>7. CASE AddLease(r)
    <2>1. Lease!Effective(r.ttl) = r.ttl
      BY <1>1, LeaseAssumption DEF Lease!Effective, Registration, LeaseLength
    <2> QED
      BY <1>1, <1>7, <2>1, LengthType, Zenon DEF AddLease, Lease!AddWithTTL, TypeOK, Registration, Record, Reg!ServiceRecord
  <1> QED
    BY <1>2, <1>5, <1>6, <1>7

-----------------------------------------------------------------------------
(* Steps that touch only the leases and the pending removals. *)

\* Heartbeat, DeleteRegistration, TakeExpired and Tick take no
\* mutex.  What they have in common: no lease appears or changes its name, and
\* a lease that disappears is either handed over as a removal or dropped.
LeasesMove ==
    /\ UNCHANGED <<services, runtimes, routes, registering, used>>
    /\ DOMAIN entries' \subseteq DOMAIN entries
    /\ \A id \in DOMAIN entries' :
          /\ entries'[id] \in Lease!Entry(Name, Owner, LeaseLength)
          /\ entries'[id].name = entries[id].name
    /\ dropped \subseteq dropped' /\ dropped' \subseteq RegistrationID
    /\ deleting' \subseteq Removal /\ sweeping' \subseteq Removal
    /\ deleting \cup sweeping \subseteq deleting' \cup sweeping'
    /\ \A e \in deleting' \cup sweeping' :
          e \in deleting \cup sweeping \/ e.id \in DOMAIN entries \ DOMAIN entries'
    /\ \A id \in DOMAIN entries \ DOMAIN entries' :
          id \in dropped' \/ [name |-> entries[id].name, id |-> id] \in deleting' \cup sweeping'

\* Such a step keeps the invariant.
LEMMA LeaseStep ==
    ASSUME IInv, LeasesMove
    PROVE  IInv'
  <1> USE DEF IInv, LeasesMove
  <1>1. TypeOK'
    BY DEF TypeOK
  <1>2. MutexInv'
    <2> SUFFICES ASSUME NEW r \in registering
                 PROVE  UnderWay(r)'
      BY DEF MutexInv
    <2>1. UnderWay(r)
      BY DEF MutexInv
    <2>2. r.rec.source # "docker" =>
            /\ r.rec.producer \notin DOMAIN entries'
            /\ \A e \in deleting' \cup sweeping' : e.id # r.rec.producer
      BY <2>1 DEF UnderWay
    <2> QED
      BY <2>1, <2>2 DEF UnderWay, HasItsFrontend, Reg!NameConflict
  <1>3. LeaseInv'
    BY DEF LeaseInv, LeaseHolderIsPublished, Publishes, Reg!Ready
  <1>4. ServiceInv'
    BY DEF ServiceInv, HasItsFrontend
  <1>5. ReadyServiceIsCovered'
    BY DEF ReadyServiceIsCovered, Removing, Reg!Ready
  <1>6. Runtime!PortsDistinct'
    BY DEF Runtime!PortsDistinct
  <1> QED
    BY <1>1, <1>2, <1>3, <1>4, <1>5, <1>6

\* A heartbeat renews a lease or deletes an expired one, which is then dropped.
LEMMA HeartbeatInv ==
    ASSUME IInv, NEW id \in RegistrationID, NEW tokenOK \in BOOLEAN, Heartbeat(id, tokenOK)
    PROVE  IInv'
  <1>1. CASE Lease!Expired(id)
    <2>1. entries' = [i \in DOMAIN entries \ {id} |-> entries[i]] /\ dropped' = dropped \cup {id}
      BY <1>1 DEF Heartbeat, Lease!Renew
    <2>2. LeasesMove
      BY <2>1 DEF LeasesMove, Heartbeat, IInv, TypeOK
    <2> QED
      BY <2>2, LeaseStep
  <1>2. CASE ~Lease!Expired(id)
    <2>1. /\ id \in DOMAIN entries
          /\ entries' = [entries EXCEPT ![id].left = entries[id].ttl]
          /\ dropped' = dropped
      BY <1>2 DEF Heartbeat, Lease!Renew
    <2>2. LeasesMove
      BY <2>1, LengthType DEF LeasesMove, Heartbeat, IInv, TypeOK
    <2> QED
      BY <2>2, LeaseStep
  <1> QED BY <1>1, <1>2

\* A deletion moves from the lease to the removals that wait for the mutex.
LEMMA DeleteRegistrationInv ==
    ASSUME IInv, NEW id \in RegistrationID, DeleteRegistration(id)
    PROVE  IInv'
  <1>1. /\ id \in DOMAIN entries
        /\ entries' = [i \in DOMAIN entries \ {id} |-> entries[i]]
        /\ deleting' = deleting \cup {[name |-> entries[id].name, id |-> id]}
    BY DEF DeleteRegistration, Lease!Delete
  <1>2. [name |-> entries[id].name, id |-> id] \in Removal
    BY <1>1 DEF IInv, TypeOK, Removal, Lease!Entry
  <1>3. \A i \in DOMAIN entries' : entries'[i] \in Lease!Entry(Name, Owner, LeaseLength)
    BY <1>1 DEF IInv, TypeOK
  <1>4. LeasesMove
    BY <1>1, <1>2, <1>3 DEF LeasesMove, DeleteRegistration, IInv, TypeOK
  <1> QED
    BY <1>4, LeaseStep

\* The sweeper moves expired leases to the removals that wait for the mutex.
LEMMA TakeExpiredInv ==
    ASSUME IInv, TakeExpired
    PROVE  IInv'
  <1>1. /\ entries' = [i \in DOMAIN entries \ Lease!ExpiredIds |-> entries[i]]
        /\ sweeping = {}
        /\ sweeping' = {[name |-> entries[id].name, id |-> id] : id \in Lease!ExpiredIds}
        /\ Lease!ExpiredIds \subseteq DOMAIN entries
    BY DEF TakeExpired, Lease!TakeExpired, Lease!ExpiredIds
  <1>2. sweeping' \subseteq Removal
    BY <1>1 DEF IInv, TypeOK, Removal
  <1>3. LeasesMove
    BY <1>1, <1>2 DEF LeasesMove, TakeExpired, IInv, TypeOK
  <1> QED
    BY <1>3, LeaseStep

\* Time changes no lease but the time it has left.
LEMMA TickInv ==
    ASSUME IInv, Tick
    PROVE  IInv'
  <1>1. entries' = [id \in DOMAIN entries |->
                      [entries[id] EXCEPT !.left = IF @ = 0 THEN 0 ELSE @ - 1]]
    BY DEF Tick, Lease!Elapse
  <1>2. \A id \in DOMAIN entries' :
           entries'[id] \in Lease!Entry(Name, Owner, LeaseLength) /\ entries'[id].name = entries[id].name
    BY <1>1 DEF IInv, TypeOK
  <1>3. LeasesMove
    BY <1>1, <1>2 DEF LeasesMove, Tick, IInv, TypeOK
  <1> QED
    BY <1>3, LeaseStep

-----------------------------------------------------------------------------
(* Steps that end a publication: the mutex is free, so no registration is  *)
(* in flight, and the producer to end holds no lease.                      *)

\* endPublication, for a producer that holds no lease, unpublishes nobody else.
LEMMA EndPublicationInv ==
    ASSUME IInv,
           NEW name \in Name, NEW producer,
           endPublication(name, producer),
           producer \notin DOMAIN entries,
           UNCHANGED <<entries, runtimes, routes, registering, used, dropped>>,
           deleting' \subseteq deleting, sweeping' \subseteq sweeping,
           \A e \in deleting \cup sweeping :
              e \in deleting' \cup sweeping' \/ (e.name = name /\ e.id = producer)
    PROVE  IInv'
  <1> USE DEF IInv
  <1>1. registering = {} /\ registering' = {}
    BY DEF endPublication
  <1>2. /\ DOMAIN services' = DOMAIN services
        /\ \A n \in DOMAIN services : services'[n] \in Record
    BY EndPublicationType
  <1>3. \A n \in DOMAIN services :
          /\ services'[n].kind = services[n].kind
          /\ services'[n].source = services[n].source
          /\ services'[n].producer = services[n].producer
          /\ services'[n].owner = services[n].owner
          /\ services'[n].hostname = services[n].hostname
          /\ services'[n].frontend = services[n].frontend
          /\ services'[n].status =
               IF n = name /\ services[n].producer = producer
                 THEN "unavailable" ELSE services[n].status
    BY DEF endPublication, Reg!ClearBackendIf, Reg!Put, TypeOK, Record, Reg!ServiceRecord
  <1>4. TypeOK'
    BY <1>1, <1>2 DEF TypeOK
  <1>5. MutexInv'
    BY <1>1 DEF MutexInv
  <1>6. LeaseInv'
    BY <1>2, <1>3 DEF LeaseInv, LeaseHolderIsPublished, Publishes, Reg!Ready
  <1>7. ServiceInv'
    <2>1. \A n \in DOMAIN services : HasItsFrontend(n, services[n])'
      <3> TAKE n \in DOMAIN services
      <3>1. HasItsFrontend(n, services[n])
        BY Zenon DEF ServiceInv
      <3> QED
        BY <1>3, <3>1, Zenon DEF HasItsFrontend
    <2> QED
      BY <1>2, <1>3, <2>1 DEF ServiceInv
  <1>8. ReadyServiceIsCovered'
    BY <1>1, <1>2, <1>3 DEF ReadyServiceIsCovered, Removing, Reg!Ready
  <1>9. Runtime!PortsDistinct'
    BY DEF Runtime!PortsDistinct
  <1> QED
    BY <1>4, <1>5, <1>6, <1>7, <1>8, <1>9

\* The second half of a deletion.
LEMMA EndDeletionInv ==
    ASSUME IInv, NEW e \in deleting, EndDeletion(e)
    PROVE  IInv'
  <1>1. e.name \in Name /\ e.id \notin DOMAIN entries
    BY DEF IInv, TypeOK, Removal, LeaseInv
  <1> QED
    BY <1>1, EndPublicationInv DEF EndDeletion

\* The second half of an expiry.
LEMMA EndExpiredInv ==
    ASSUME IInv, NEW e \in sweeping, EndExpired(e)
    PROVE  IInv'
  <1>1. e.name \in Name /\ e.id \notin DOMAIN entries
    BY DEF IInv, TypeOK, Removal, LeaseInv
  <1> QED
    BY <1>1, EndPublicationInv DEF EndExpired

\* A container ID is no registration ID, so a container stop ends no lease
\* holder.
LEMMA ForgetInv ==
    ASSUME IInv, NEW n \in Name, NEW c \in Container, ForgetDockerPublication(n, c)
    PROVE  IInv'
  <1>1. c \notin DOMAIN entries
    BY IdentityAssumption DEF IInv, TypeOK
  <1> QED
    BY <1>1, EndPublicationInv DEF ForgetDockerPublication

\* A restart leaves nothing behind that could be wrong.
LEMMA RestartInv ==
    ASSUME IInv, Restart
    PROVE  IInv'
  <1>1. /\ services' = << >> /\ entries' = << >> /\ runtimes' = << >> /\ routes' = << >>
        /\ registering' = {} /\ deleting' = {} /\ sweeping' = {}
        /\ UNCHANGED <<used, dropped>>
    BY DEF Restart, Runtime!Stop
  <1>2. TypeOK'
    BY <1>1 DEF IInv, TypeOK
  <1>3. MutexInv' /\ LeaseInv'
    BY <1>1 DEF MutexInv, LeaseInv, LeaseHolderIsPublished
  <1>4. ServiceInv' /\ ReadyServiceIsCovered' /\ Runtime!PortsDistinct'
    BY <1>1 DEF ServiceInv, ReadyServiceIsCovered, Runtime!PortsDistinct
  <1> QED
    BY <1>2, <1>3, <1>4 DEF IInv

HIDE DEF Lease!Entry, Lease!Without, Restrict, Lease!Restrict

-----------------------------------------------------------------------------
(* Register and the steps it takes under the mutex. *)

\* Retiring the replaced lease leaves the replaced record covered by the
\* registration that is under way.
LEMMA RegisterInv ==
    ASSUME IInv, NEW p \in Requests, Register(p)
    PROVE  IInv'
  <1> USE DEF IInv
  <1> DEFINE rec(id) == NewRecord(p, OwnerOf(p, id), id)
             reg(id) == [pc   |-> IF p.kind = "http" THEN "publish" ELSE "allocate",
                         name |-> p.name, rec |-> rec(id), ttl |-> EffectiveTTL(p)]
  <1>1. PICK id \in ProducerIDs(p) :
           /\ ~Reg!NameConflict(p.name, OwnerOf(p, id))
           /\ RetireReplaced(p.name, OwnerOf(p, id), id)
           /\ used' = used \cup ({id} \cap RegistrationID)
           /\ registering' = {reg(id)}
    BY DEF Register
  <1>2. /\ UNCHANGED <<services, runtimes, routes, deleting, sweeping, dropped>>
        /\ registering = {} /\ KeepsIdentity(p)
    BY DEF Register
  <1>3. /\ p \in RegisterParams
        /\ p.source # "docker" => id \in RegistrationID \ used
        /\ p.source = "docker" => id \in Container
    BY RequestType, NewRecordType
  <1>4. TypeOK'
    BY RegisterType
  <1>5. /\ DOMAIN entries' \subseteq DOMAIN entries
        /\ \A i \in DOMAIN entries' : entries'[i] = entries[i]
        /\ \A i \in DOMAIN entries \ DOMAIN entries' :
             /\ i = services[p.name].producer
             /\ services[p.name].owner = OwnerOf(p, id)
    BY <1>1 DEF RetireReplaced, Lease!Without, Lease!Restrict
  <1>6. \A i \in DOMAIN entries' : entries'[i].name # p.name
    <2> SUFFICES ASSUME NEW i \in DOMAIN entries', entries'[i].name = p.name
                 PROVE  FALSE
      OBVIOUS
    <2>1. /\ i \in DOMAIN entries /\ p.name \in DOMAIN services
          /\ services[p.name].producer = i /\ services[p.name].status = "ready"
      BY <1>5 DEF LeaseInv, LeaseHolderIsPublished, Publishes, Reg!Ready
    <2>2. services[p.name].owner = OwnerOf(p, id)
      BY <1>1, <2>1, Zenon DEF Reg!NameConflict
    <2>3. i \in used /\ i # id
      BY <1>3, <2>1, IdentityAssumption, Zenon DEF LeaseInv, TypeOK, RegisterParams
    <2>4. services[p.name].source # "docker"
      BY <2>1, <2>3, IdentityAssumption, Zenon DEF ServiceInv, TypeOK
    <2>5. services[p.name].source \in Reg!LeasedSource
      BY <2>1, <2>4, Zenon DEF TypeOK, Record, Reg!ServiceRecord, Reg!Source, Reg!LeasedSource
    <2> QED
      BY <1>1, <2>1, <2>2, <2>3, <2>5 DEF RetireReplaced, Lease!Without, Lease!Restrict
  <1>7. MutexInv'
    <2>1. UnderWay(reg(id))'
      <3>1. HasItsFrontend(p.name, rec(id))' \/ p.kind # "http"
        BY Zenon DEF HasItsFrontend, NewRecord
      <3>2. p.source # "docker" =>
              /\ id \in used'
              /\ id \notin DOMAIN entries'
              /\ \A e \in deleting' \cup sweeping' : e.id # id
              /\ \A n \in DOMAIN services' : services'[n].producer # id
        <4> SUFFICES ASSUME p.source # "docker"
                     PROVE  /\ id \in used'
                            /\ id \notin DOMAIN entries'
                            /\ \A e \in deleting' \cup sweeping' : e.id # id
                            /\ \A n \in DOMAIN services' : services'[n].producer # id
          OBVIOUS
        <4>1. id \in RegistrationID \ used
          BY <1>3
        <4>2. id \in used'
          BY <1>1, <4>1
        <4>3. id \notin DOMAIN entries'
          BY <1>5, <4>1 DEF LeaseInv
        <4>4. \A e \in deleting' \cup sweeping' : e.id # id
          BY <1>2, <4>1 DEF LeaseInv
        <4>5. \A n \in DOMAIN services' : services'[n].producer # id
          BY <1>2, <4>1, IdentityAssumption DEF ServiceInv
        <4> QED
          BY <4>2, <4>3, <4>4, <4>5
      <3>3. p.name \in DOMAIN services =>
              services[p.name].kind = p.kind /\ services[p.name].hostname = Hostname(p)
        BY <1>2, Zenon DEF KeepsIdentity, Hostname, ServiceInv, HasItsFrontend
      <3>4. ~Reg!NameConflict(p.name, OwnerOf(p, id))'
        BY <1>1, <1>2 DEF Reg!NameConflict
      <3>5. p.kind # "http" => p.kind = "tcp" /\ Hostname(p) = NoHost
        BY <1>3 DEF RegisterParams, Reg!Kind, Hostname
      <3> QED
        BY <1>2, <1>3, <1>6, <3>1, <3>2, <3>3, <3>4, <3>5, Zenon DEF UnderWay, NewRecord
    <2> QED
      BY <1>1, <2>1 DEF MutexInv
  <1>8. LeaseInv'
    BY <1>1, <1>2, <1>5, Zenon DEF LeaseInv, LeaseHolderIsPublished, Publishes, Reg!Ready
  <1>9. ServiceInv'
    BY <1>1, <1>2, Zenon DEF ServiceInv, HasItsFrontend
  <1>10. ReadyServiceIsCovered'
    <2> SUFFICES ASSUME NEW n \in DOMAIN services,
                        services[n].status = "ready", services[n].source \in Reg!LeasedSource
                 PROVE  \/ services[n].producer \in DOMAIN entries' /\ entries'[services[n].producer].name = n
                        \/ Removing(n, services[n].producer)
                        \/ n = p.name /\ OwnerOf(p, id) = services[n].owner
                        \/ services[n].producer \in dropped
      BY <1>1, <1>2, Zenon DEF ReadyServiceIsCovered, Reg!Ready, Removing, NewRecord
    <2>1. \/ services[n].producer \in DOMAIN entries /\ entries[services[n].producer].name = n
          \/ Removing(n, services[n].producer)
          \/ services[n].producer \in dropped
      BY <1>2, Zenon DEF ReadyServiceIsCovered, Reg!Ready
    <2>2. ASSUME services[n].producer \in DOMAIN entries, entries[services[n].producer].name = n,
                 services[n].producer \notin DOMAIN entries'
          PROVE  n = p.name /\ OwnerOf(p, id) = services[n].owner
      <3>1. /\ p.name \in DOMAIN services
            /\ services[p.name].producer = services[n].producer
            /\ services[p.name].owner = OwnerOf(p, id)
        BY <1>1, <1>5, <2>2, Zenon DEF RetireReplaced
      <3>2. services[n].source # "docker"
        BY DEF Reg!LeasedSource
      <3> QED
        BY <3>1, <3>2 DEF ServiceInv
    <2> QED
      BY <1>5, <2>1, <2>2
  <1>11. Runtime!PortsDistinct'
    BY <1>2 DEF Runtime!PortsDistinct
  <1> QED
    BY <1>4, <1>7, <1>8, <1>9, <1>10, <1>11

\* A registration only fails here if its name has no runtime yet, hence no
\* record that would be left uncovered.
LEMMA EnsureTCPRuntimeInv ==
    ASSUME IInv, NEW r \in registering, EnsureTCPRuntime(r)
    PROVE  IInv'
  <1> USE DEF IInv
  <1>1. /\ r \in Registration /\ UnderWay(r) /\ registering = {r}
        /\ r.pc = "allocate"
        /\ UNCHANGED <<services, entries, routes, deleting, sweeping, used, dropped>>
    BY Zenon DEF TypeOK, MutexInv, EnsureTCPRuntime
  <1>2. TypeOK'
    BY <1>1, RegisterStepType
  <1>3. /\ DOMAIN runtimes \subseteq DOMAIN runtimes'
        /\ \A n \in DOMAIN runtimes : runtimes'[n] = runtimes[n]
        /\ Runtime!PortsDistinct'
    BY DEF EnsureTCPRuntime, Runtime!Bind, Runtime!PortsDistinct, Range, Runtime!Range
  <1>4. \/ /\ r.name \in DOMAIN runtimes'
           /\ registering' = {WithPort(r, runtimes'[r.name])}
        \/ /\ r.name \notin DOMAIN runtimes
           /\ registering' = {}
    BY DEF EnsureTCPRuntime, Runtime!Bind
  <1>5. ServiceInv'
    <2>1. \A n \in DOMAIN services : HasItsFrontend(n, services[n])'
      BY <1>1, <1>3, Zenon DEF ServiceInv, HasItsFrontend
    <2> QED
      BY <1>1, <2>1 DEF ServiceInv
  <1>6. LeaseInv'
    BY <1>1 DEF LeaseInv, LeaseHolderIsPublished, Publishes, Reg!Ready
  <1>7. CASE r.name \in DOMAIN runtimes' /\ registering' = {WithPort(r, runtimes'[r.name])}
    <2>1. \A w \in registering' :
            /\ w.pc = "publish" /\ w.name = r.name
            /\ w.rec.kind = r.rec.kind /\ w.rec.owner = r.rec.owner
            /\ w.rec.producer = r.rec.producer /\ w.rec.source = r.rec.source
            /\ w.rec.status = r.rec.status /\ w.rec.hostname = r.rec.hostname
            /\ w.rec.frontend = [port |-> runtimes'[r.name], url |-> NoHost]
      <3> DEFINE w == WithPort(r, runtimes'[r.name])
      <3>1. /\ w.pc = "publish" /\ w.name = r.name
            /\ w.rec.kind = r.rec.kind /\ w.rec.owner = r.rec.owner
            /\ w.rec.producer = r.rec.producer /\ w.rec.source = r.rec.source
            /\ w.rec.status = r.rec.status /\ w.rec.hostname = r.rec.hostname
            /\ w.rec.frontend = [port |-> runtimes'[r.name], url |-> NoHost]
        BY <1>1 DEF WithPort, Registration, Record, Reg!ServiceRecord, UnderWay, NoFrontend
      <3> HIDE DEF w
      <3>2. registering' = {w}
        BY <1>7 DEF w
      <3> QED
        BY <3>1, <3>2
    <2>2. ASSUME NEW w \in registering'
          PROVE  UnderWay(w)'
      <3>1. HasItsFrontend(w.name, w.rec)'
        BY <1>1, <1>7, <2>1, Zenon DEF UnderWay, HasItsFrontend
      <3>2. (~Reg!NameConflict(w.name, w.rec.owner))'
        BY <1>1, <1>7, <2>1, Zenon DEF UnderWay, Reg!NameConflict
      <3> QED
        BY <1>1, <1>7, <2>1, <3>1, <3>2, Zenon DEF UnderWay
    <2>3. MutexInv'
      BY <1>7, <2>2 DEF MutexInv
    <2>4. ReadyServiceIsCovered'
      <3>1. \E w \in registering' : w.name = r.name /\ w.rec.owner = r.rec.owner
        BY <1>7, <2>1, Zenon
      <3>2. \A n \in DOMAIN services :
              (\E w \in registering : w.name = n /\ w.rec.owner = services[n].owner) =>
              (\E w \in registering' : w.name = n /\ w.rec.owner = services[n].owner)
        BY <1>1, <3>1
      <3> QED
        BY <1>1, <3>2 DEF ReadyServiceIsCovered, Removing, Reg!Ready
    <2> QED
      BY <1>2, <1>3, <1>5, <1>6, <2>3, <2>4
  <1>8. CASE r.name \notin DOMAIN runtimes /\ registering' = {}
    <2>1. r.name \notin DOMAIN services
      BY <1>1, <1>8, Zenon DEF UnderWay, ServiceInv, HasItsFrontend
    <2>2. ReadyServiceIsCovered'
      BY <1>1, <1>8, <2>1, Zenon DEF ReadyServiceIsCovered, Removing, Reg!Ready
    <2>3. MutexInv'
      BY <1>8 DEF MutexInv
    <2> QED
      BY <1>2, <1>3, <1>5, <1>6, <2>2, <2>3
  <1> QED
    BY <1>4, <1>7, <1>8, Zenon

\* CreateOrReplaceOwned never meets a conflict: CheckOwnership ran under the
\* same mutex.
LEMMA PublishInv ==
    ASSUME IInv, NEW r \in registering, Publish(r)
    PROVE  IInv'
  <1> USE DEF IInv
  <1>1. /\ r \in Registration /\ r.rec \in Record /\ UnderWay(r) /\ registering = {r}
        /\ r.pc = "publish"
        /\ UNCHANGED <<entries, runtimes, routes, deleting, sweeping, used, dropped>>
    BY DEF TypeOK, MutexInv, Publish, Registration
  <1>2. TypeOK'
    BY <1>1, RegisterStepType
  <1>3. /\ DOMAIN services' = DOMAIN services \cup {r.name}
        /\ services'[r.name] = r.rec
        /\ \A n \in DOMAIN services \ {r.name} : services'[n] = services[n]
        /\ registering' = IF r.rec.kind = "http" THEN {[r EXCEPT !.pc = "route"]}
                          ELSE AfterPublish(r)
    BY <1>1 DEF Publish, UnderWay, Reg!CreateOrReplaceOwned, Reg!Put
  <1>4. ServiceInv'
    <2>1. \A n \in DOMAIN services' : HasItsFrontend(n, services[n])'
      BY <1>1, <1>3 DEF ServiceInv, HasItsFrontend, UnderWay
    <2>2. \A n \in DOMAIN services' :
             /\ services'[n].source = "docker" => services'[n].producer \in Container
             /\ services'[n].source # "docker" => services'[n].producer \in used
      BY <1>1, <1>3 DEF ServiceInv, UnderWay
    <2>3. ASSUME NEW m \in DOMAIN services', NEW n \in DOMAIN services',
                 services'[m].source # "docker", services'[m].producer = services'[n].producer,
                 m # n
          PROVE  FALSE
      <3>1. CASE m # r.name /\ n # r.name
        BY <1>3, <2>3, <3>1 DEF ServiceInv
      <3>2. CASE m = r.name
        BY <1>1, <1>3, <2>3, <3>2 DEF UnderWay
      <3>3. CASE n = r.name
        <4>1. m \in DOMAIN services /\ services[m].producer = r.rec.producer /\ services[m].source # "docker"
          BY <1>3, <2>3, <3>3
        <4>2. r.rec.source # "docker"
          BY <1>1, <4>1, IdentityAssumption, Zenon DEF UnderWay, ServiceInv, TypeOK
        <4> QED
          BY <1>1, <4>1, <4>2, Zenon DEF UnderWay
      <3> QED
        BY <3>1, <3>2, <3>3
    <2> QED
      BY <1>1, <2>1, <2>2, <2>3, Zenon DEF ServiceInv
  <1>5. LeaseInv'
    BY <1>1, <1>3 DEF LeaseInv, LeaseHolderIsPublished, Publishes, Reg!Ready, UnderWay
  <1>6. \A s \in registering' :
          /\ s.pc \in {"route", "lease"} /\ s.name = r.name /\ s.rec = r.rec
          /\ s.pc = "route" => r.rec.kind = "http"
          /\ s.pc = "lease" => r.rec.source # "docker"
    BY <1>1, <1>3 DEF AfterPublish, Registration
  <1>7. MutexInv'
    <2>1. ASSUME NEW s \in registering'
          PROVE  UnderWay(s)'
      BY <1>1, <1>3, <1>6 DEF UnderWay, HasItsFrontend
    <2>2. \A s, t \in registering' : s = t
      BY <1>3 DEF AfterPublish
    <2> QED
      BY <2>1, <2>2 DEF MutexInv
  <1>8. ReadyServiceIsCovered'
    <2>1. r.rec.source \in Reg!LeasedSource => \E s \in registering' : s.name = r.name /\ s.rec = r.rec
      BY <1>1, <1>3, Zenon DEF AfterPublish, Registration, Reg!LeasedSource
    <2> QED
      BY <1>1, <1>3, <2>1 DEF ReadyServiceIsCovered, Removing, Reg!Ready
  <1>9. Runtime!PortsDistinct'
    BY <1>1 DEF Runtime!PortsDistinct
  <1> QED
    BY <1>2, <1>4, <1>5, <1>7, <1>8, <1>9

\* Installing a route touches neither record nor lease.
LEMMA SetRouteInv ==
    ASSUME IInv, NEW r \in registering, SetRoute(r)
    PROVE  IInv'
  <1> USE DEF IInv
  <1>1. /\ r \in Registration /\ UnderWay(r) /\ registering = {r}
        /\ r.pc = "route"
        /\ registering' = AfterPublish(r)
        /\ UNCHANGED <<services, entries, runtimes, deleting, sweeping, used, dropped>>
    BY Zenon DEF TypeOK, MutexInv, SetRoute
  <1>2. TypeOK'
    BY <1>1, RegisterStepType
  <1>3. \A s \in registering' :
          s.pc = "lease" /\ s.name = r.name /\ s.rec = r.rec /\ r.rec.source # "docker"
    BY <1>1 DEF AfterPublish, Registration
  <1>4. MutexInv'
    <2>1. ASSUME NEW s \in registering'
          PROVE  UnderWay(s)'
      BY <1>1, <1>3, Zenon DEF UnderWay, HasItsFrontend
    <2>2. \A s, t \in registering' : s = t
      BY <1>1 DEF AfterPublish
    <2> QED
      BY <2>1, <2>2 DEF MutexInv
  <1>5. LeaseInv'
    BY <1>1, Zenon DEF LeaseInv, LeaseHolderIsPublished, Publishes, Reg!Ready
  <1>6. ServiceInv'
    BY <1>1 DEF ServiceInv, HasItsFrontend
  <1>7. ReadyServiceIsCovered'
    <2>1. services[r.name] = r.rec
      BY <1>1, Zenon DEF UnderWay
    <2>2. r.rec.source \in Reg!LeasedSource => \E s \in registering' : s.name = r.name /\ s.rec = r.rec
      BY <1>1, Zenon DEF AfterPublish, Registration, Reg!LeasedSource
    <2>3. ASSUME NEW n \in DOMAIN services, services[n].status = "ready",
                 services[n].source \in Reg!LeasedSource
          PROVE  \/ services[n].producer \in DOMAIN entries /\ entries[services[n].producer].name = n
                 \/ Removing(n, services[n].producer)
                 \/ \E s \in registering' : s.name = n /\ s.rec.owner = services[n].owner
                 \/ services[n].producer \in dropped
      <3>1. CASE n = r.name
        BY <2>1, <2>2, <2>3, <3>1
      <3>2. CASE n # r.name
        BY <1>1, <2>3, <3>2, Zenon DEF ReadyServiceIsCovered, Reg!Ready
      <3> QED
        BY <3>1, <3>2
    <2> QED
      BY <1>1, <2>3, Zenon DEF ReadyServiceIsCovered, Removing, Reg!Ready
  <1>8. Runtime!PortsDistinct'
    BY <1>1 DEF Runtime!PortsDistinct
  <1> QED
    BY <1>2, <1>4, <1>5, <1>6, <1>7, <1>8

\* The lease is added to the record that was just published.
LEMMA AddLeaseInv ==
    ASSUME IInv, NEW r \in registering, AddLease(r)
    PROVE  IInv'
  <1> USE DEF IInv
  <1>1. /\ r \in Registration /\ UnderWay(r) /\ registering = {r}
        /\ r.pc = "lease" /\ registering' = {}
        /\ UNCHANGED <<services, runtimes, routes, deleting, sweeping, used, dropped>>
    BY Zenon DEF TypeOK, MutexInv, AddLease
  <1>2. /\ r.rec.producer \in used /\ services[r.name] = r.rec /\ r.name \in DOMAIN services
        /\ r.rec.producer \notin DOMAIN entries
        /\ \A e \in deleting \cup sweeping : e.id # r.rec.producer
        /\ r.rec.status = "ready"
    BY <1>1 DEF UnderWay
  <1>3. TypeOK'
    BY <1>2, RegisterStepType, Zenon DEF TypeOK
  <1>4. /\ DOMAIN entries' = DOMAIN entries \cup {r.rec.producer}
        /\ entries'[r.rec.producer].name = r.name
        /\ \A id \in DOMAIN entries : entries'[id] = entries[id]
    BY <1>2, Zenon DEF AddLease, Lease!AddWithTTL
  <1>5. MutexInv'
    BY <1>1 DEF MutexInv
  <1>6. LeaseInv'
    <2>1. ASSUME NEW id \in DOMAIN entries'
          PROVE  /\ entries'[id].name \in DOMAIN services
                 /\ services[entries'[id].name].status = "ready"
                 /\ services[entries'[id].name].producer = id
      <3>1. CASE id = r.rec.producer
        BY <1>2, <1>4, <3>1
      <3>2. CASE id \in DOMAIN entries
        BY <1>4, <3>2 DEF LeaseInv, LeaseHolderIsPublished, Publishes, Reg!Ready
      <3> QED
        BY <1>4, <3>1, <3>2
    <2>2. LeaseHolderIsPublished'
      BY <1>1, <2>1 DEF LeaseHolderIsPublished, Publishes, Reg!Ready
    <2> QED
      BY <1>1, <1>2, <1>4, <2>2, Zenon DEF LeaseInv
  <1>7. ServiceInv'
    BY <1>1 DEF ServiceInv, HasItsFrontend
  <1>8. ReadyServiceIsCovered'
    BY <1>1, <1>2, <1>4 DEF ReadyServiceIsCovered, Removing, Reg!Ready
  <1>9. Runtime!PortsDistinct'
    BY <1>1 DEF Runtime!PortsDistinct
  <1> QED
    BY <1>3, <1>5, <1>6, <1>7, <1>8, <1>9

-----------------------------------------------------------------------------
(* The invariant is inductive. *)

\* The invariant holds initially.
LEMMA InitIInv == Init => IInv
  <1> SUFFICES ASSUME Init PROVE IInv
    OBVIOUS
  <1>1. TypeOK
    BY InitType
  <1> QED
    BY <1>1 DEF IInv, Init, Reg!Init, Lease!Init, Runtime!Init, MutexInv, LeaseInv,
                LeaseHolderIsPublished, ServiceInv, ReadyServiceIsCovered, Runtime!PortsDistinct

\* Every step keeps the invariant.
LEMMA NextIInv == IInv /\ [Next]_vars => IInv'
  <1> SUFFICES ASSUME IInv, [Next]_vars PROVE IInv'
    OBVIOUS
  <1>1. ASSUME NEW p \in Requests, Register(p) PROVE IInv'
    BY <1>1, RegisterInv
  <1>2. CASE RegisterStep
    BY <1>2, EnsureTCPRuntimeInv, PublishInv, SetRouteInv, AddLeaseInv DEF RegisterStep
  <1>3. ASSUME NEW id \in RegistrationID, NEW tokenOK \in BOOLEAN, Heartbeat(id, tokenOK)
        PROVE  IInv'
    BY <1>3, HeartbeatInv
  <1>4. ASSUME NEW id \in RegistrationID, DeleteRegistration(id) PROVE IInv'
    BY <1>4, DeleteRegistrationInv
  <1>5. ASSUME NEW e \in deleting, EndDeletion(e) PROVE IInv'
    BY <1>5, EndDeletionInv
  <1>6. CASE TakeExpired
    BY <1>6, TakeExpiredInv
  <1>7. ASSUME NEW e \in sweeping, EndExpired(e) PROVE IInv'
    BY <1>7, EndExpiredInv
  <1>8. ASSUME NEW n \in Name, NEW c \in Container, ForgetDockerPublication(n, c) PROVE IInv'
    BY <1>8, ForgetInv
  <1>9. CASE Tick
    BY <1>9, TickInv
  <1>10. CASE Restart
    BY <1>10, RestartInv
  <1>11. CASE UNCHANGED vars
    <2>1. TypeOK'
      BY <1>11 DEF vars, IInv, TypeOK
    <2>2. MutexInv'
      <3>1. ASSUME NEW r \in registering PROVE UnderWay(r)'
        <4>1. UnderWay(r)
          BY DEF IInv, MutexInv
        <4> QED
          BY <1>11, <4>1, Zenon DEF vars, UnderWay, Reg!NameConflict, HasItsFrontend
      <3> QED
        BY <1>11, <3>1 DEF vars, IInv, MutexInv
    <2>3. LeaseInv'
      BY <1>11, Zenon DEF vars, IInv, LeaseInv, LeaseHolderIsPublished, Publishes, Reg!Ready
    <2>4. ServiceInv'
      BY <1>11, Zenon DEF vars, IInv, ServiceInv, HasItsFrontend
    <2>5. ReadyServiceIsCovered'
      BY <1>11 DEF vars, IInv, ReadyServiceIsCovered, Removing, Reg!Ready
    <2>6. Runtime!PortsDistinct'
      BY <1>11 DEF vars, IInv, Runtime!PortsDistinct
    <2> QED
      BY <2>1, <2>2, <2>3, <2>4, <2>5, <2>6 DEF IInv
  <1> QED
    BY <1>1, <1>2, <1>3, <1>4, <1>5, <1>6, <1>7, <1>8, <1>9, <1>10, <1>11 DEF Next, Operation

\* The inductive invariant holds in every reachable state of the daemon.
THEOREM InductiveInvariant == Spec => []IInv
  BY InitIInv, NextIInv, PTL DEF Spec

\* Every variable keeps its type under all interleavings of the operations.
THEOREM TypeCorrect == Spec => []TypeOK
  <1>1. IInv => TypeOK
    BY DEF IInv
  <1> QED
    BY <1>1, InductiveInvariant, PTL

\* Whoever holds a lease is the published, ready producer of its service.
THEOREM LeaseHolderStaysPublished == Spec => []LeaseHolderIsPublished
  <1>1. IInv => LeaseHolderIsPublished
    BY DEF IInv, LeaseInv
  <1> QED
    BY <1>1, InductiveInvariant, PTL

\* A ready leased service always has somebody who will end it, except after
\* the late heartbeat of Renew.
THEOREM ReadyServiceStaysCovered == Spec => []ReadyServiceIsCovered
  <1>1. IInv => ReadyServiceIsCovered
    BY DEF IInv
  <1> QED
    BY <1>1, InductiveInvariant, PTL

\* A TCP service advertises the port its runtime listens on, and it alone.
THEOREM FrontendStaysListening == Spec => []FrontendIsListening
  <1>1. IInv => FrontendIsListening
    <2> SUFFICES ASSUME IInv, NEW n \in DOMAIN services, services[n].kind = "tcp"
                 PROVE  /\ n \in DOMAIN runtimes
                        /\ runtimes[n] = services[n].frontend.port
                        /\ \A m \in DOMAIN services :
                             services[m].frontend.port = services[n].frontend.port => m = n
      BY DEF FrontendIsListening
    <2> DEFINE port(m) == services[m].frontend.port
    <2>0. \A m \in DOMAIN services :
             IF services[m].kind = "http" THEN port(m) = 0
                                          ELSE m \in DOMAIN runtimes /\ port(m) = runtimes[m]
      <3> TAKE m \in DOMAIN services
      <3>1. HasItsFrontend(m, services[m])
        BY DEF IInv, ServiceInv
      <3>2. CASE services[m].kind = "http"
        <4>1. services[m].frontend = [port |-> 0, url |-> normalizeHost(services[m].hostname)]
          BY <3>1, <3>2 DEF HasItsFrontend
        <4> QED BY <3>2, <4>1
      <3>3. CASE services[m].kind # "http"
        <4>1. m \in DOMAIN runtimes /\ services[m].frontend = [port |-> runtimes[m], url |-> NoHost]
          BY <3>1, <3>3 DEF HasItsFrontend
        <4> QED BY <3>3, <4>1
      <3> QED BY <3>2, <3>3
    <2>1. n \in DOMAIN runtimes /\ runtimes[n] = port(n)
      BY <2>0
    <2>2. runtimes[n] # 0
      BY <2>1, PortAssumption DEF IInv, TypeOK
    <2>3. ASSUME NEW m \in DOMAIN services, services[m].frontend.port = services[n].frontend.port
          PROVE  m = n
      <3>1. services[m].kind # "http"
        BY <2>0, <2>1, <2>2, <2>3
      <3>2. m \in DOMAIN runtimes /\ runtimes[m] = port(m)
        BY <2>0, <3>1
      <3> QED
        BY <2>1, <2>3, <3>2 DEF IInv, Runtime!PortsDistinct
    <2> QED
      BY <2>1, <2>3
  <1> QED
    BY <1>1, InductiveInvariant, PTL

-----------------------------------------------------------------------------
(* Action properties. *)

\* Only four kinds of step change the registry.
LEMMA RegistryStep ==
    ASSUME IInv, [Next]_vars
    PROVE  \/ services' = services
           \/ \E r \in registering : Publish(r)
           \/ \E name \in Name, producer \in ProducerID : endPublication(name, producer)
           \/ services' = << >>
  BY Zenon DEF Next, Operation, vars, Register, RegisterStep, EnsureTCPRuntime, SetRoute, AddLease, Heartbeat,
         DeleteRegistration, EndDeletion, TakeExpired, EndExpired, ForgetDockerPublication,
         Tick, Restart, IInv, TypeOK, Removal, ProducerID

\* None of them changes the kind, the hostname or the frontend of a service that
\* stays in it.
LEMMA ServicesStep ==
    ASSUME IInv, [Next]_vars, NEW n \in DOMAIN services \cap DOMAIN services'
    PROVE  /\ services'[n].kind = services[n].kind
           /\ services'[n].hostname = services[n].hostname
           /\ services'[n].frontend = services[n].frontend
  <1>1. CASE services' = services
    BY <1>1
  <1>2. ASSUME NEW r \in registering, Publish(r)
        PROVE  /\ services'[n].kind = services[n].kind
               /\ services'[n].hostname = services[n].hostname
               /\ services'[n].frontend = services[n].frontend
    <2>1. UnderWay(r) /\ r.pc = "publish" /\ r.rec \in Record
      BY <1>2 DEF IInv, MutexInv, Publish, TypeOK, Registration
    <2>2. /\ services'[r.name] = r.rec
          /\ n # r.name => services'[n] = services[n]
      BY <1>2, <2>1 DEF Publish, UnderWay, Reg!CreateOrReplaceOwned, Reg!Put
    <2>3. CASE n # r.name
      BY <2>2, <2>3
    <2>4. CASE n = r.name
      <3>1. /\ r.rec.kind = services[n].kind /\ r.rec.hostname = services[n].hostname
        BY <2>1, <2>4 DEF UnderWay
      <3>2. r.rec.frontend = services[n].frontend
        BY <2>1, <2>4, <3>1, Zenon DEF UnderWay, HasItsFrontend, IInv, ServiceInv
      <3> QED
        BY <2>2, <2>4, <3>1, <3>2
    <2> QED BY <2>3, <2>4
  <1>3. ASSUME NEW name \in Name, NEW producer, endPublication(name, producer)
        PROVE  /\ services'[n].kind = services[n].kind
               /\ services'[n].hostname = services[n].hostname
               /\ services'[n].frontend = services[n].frontend
    BY <1>3 DEF endPublication, Reg!ClearBackendIf, Reg!Put, IInv, TypeOK, Record, Reg!ServiceRecord
  <1>4. CASE services' = << >>
    BY <1>4
  <1> QED
    BY <1>1, <1>2, <1>3, <1>4, RegistryStep

\* Consumers can keep what they resolved: kind, hostname and frontend of a
\* service never change while a daemon runs.
THEOREM IdentityStaysStable == Spec => IdentityIsStable
  <1>1. IInv /\ [Next]_vars =>
          [\A n \in DOMAIN services \cap DOMAIN services' :
              /\ services'[n].kind = services[n].kind
              /\ services'[n].hostname = services[n].hostname
              /\ services'[n].frontend = services[n].frontend]_services
    BY ServicesStep
  <1> QED
    BY <1>1, InductiveInvariant, PTL DEF Spec, IdentityIsStable

\* endPublication leaves every publication but the one it names alone.
LEMMA EndPublicationSpares ==
    ASSUME TypeOK, NEW name, NEW producer, endPublication(name, producer),
           NEW n \in DOMAIN services, NEW p, Publishes(n, p)
    PROVE  (n = name /\ p = producer) \/ Publishes(n, p)'
  BY DEF endPublication, Reg!ClearBackendIf, Reg!Put, Publishes, Reg!Ready, TypeOK, Record,
         Reg!ServiceRecord

\* The kinds of step that end a publication.
LEMMA PublicationStep ==
    ASSUME IInv, [Next]_vars, NEW n \in DOMAIN services \cap DOMAIN services',
           NEW p \in ProducerID, Publishes(n, p)
    PROVE  \/ Publishes(n, p)'
           \/ Removing(n, p)
           \/ p \in Container /\ ForgetDockerPublication(n, p)
           \/ \E r \in registering :
                 r.pc = "publish" /\ r.name = n /\ r.rec.owner = services[n].owner
  <1>1. CASE services' = services
    BY <1>1 DEF Publishes, Reg!Ready
  <1>2. ASSUME NEW r \in registering, Publish(r), ~Publishes(n, p)'
        PROVE  r.pc = "publish" /\ r.name = n /\ r.rec.owner = services[n].owner
    <2>1. UnderWay(r) /\ r.pc = "publish"
      BY <1>2 DEF IInv, MutexInv, Publish
    <2>2. n # r.name => services'[n] = services[n]
      BY <1>2, <2>1 DEF Publish, UnderWay, Reg!CreateOrReplaceOwned, Reg!Put
    <2>3. n = r.name
      BY <1>2, <2>2 DEF Publishes, Reg!Ready
    <2> QED
      BY <2>1, <2>3 DEF UnderWay, Reg!NameConflict, Publishes, Reg!Ready
  <1>3. ASSUME NEW e \in deleting \cup sweeping, endPublication(e.name, e.id), ~Publishes(n, p)'
        PROVE  Removing(n, p)
    <2>1. n = e.name /\ p = e.id
      BY <1>3, EndPublicationSpares DEF IInv
    <2>2. e \in Removal
      BY DEF IInv, TypeOK
    <2>3. e = [name |-> n, id |-> p]
      BY <2>1, <2>2 DEF Removal
    <2> QED
      BY <2>3 DEF Removing
  <1>4. ASSUME NEW name \in Name, NEW c \in Container, ForgetDockerPublication(name, c),
               ~Publishes(n, p)'
        PROVE  p \in Container /\ ForgetDockerPublication(n, p)
    <2>1. n = name /\ p = c
      BY <1>4, EndPublicationSpares DEF IInv, ForgetDockerPublication
    <2> QED
      BY <1>4, <2>1
  <1>5. \/ services' = services
        \/ \E r \in registering : Publish(r)
        \/ \E e \in deleting \cup sweeping : endPublication(e.name, e.id)
        \/ \E name \in Name, c \in Container : ForgetDockerPublication(name, c)
        \/ services' = << >>
    BY Zenon DEF Next, Operation, vars, Register, RegisterStep, EnsureTCPRuntime, SetRoute, AddLease,
           Heartbeat, DeleteRegistration, EndDeletion, TakeExpired, EndExpired, Tick, Restart
  <1>6. services' # << >>
    OBVIOUS
  <1> QED
    BY <1>1, <1>2, <1>3, <1>4, <1>5, <1>6

\* A ready publication is ended by its own producer's deletion, expiry or stop,
\* or replaced by its owner, never by a removal meant for an earlier one.
THEOREM PublicationsEndForCause == Spec => PublicationEndsForCause
  <1>1. IInv /\ [Next]_vars =>
          [\A n \in DOMAIN services \cap DOMAIN services', p \in ProducerID :
              Publishes(n, p) =>
                 \/ Publishes(n, p)'
                 \/ Removing(n, p)
                 \/ p \in Container /\ ForgetDockerPublication(n, p)
                 \/ \E r \in registering :
                       r.pc = "publish" /\ r.name = n /\ r.rec.owner = services[n].owner]_services
    BY PublicationStep
  <1> QED
    BY <1>1, InductiveInvariant, PTL DEF Spec, PublicationEndsForCause

-----------------------------------------------------------------------------
(* Registration IDs.  An ID keeps its name through every stage of its      *)
(* life, and one whose lease is gone is never published again.             *)

\* Wherever the daemon keeps id, it keeps it with the name n.
Bound(id, n) ==
    /\ id \in used
    /\ id \in DOMAIN entries => entries[id].name = n
    /\ \A e \in deleting \cup sweeping : e.id = id => e.name = n
    /\ \A r \in registering : r.rec.producer = id => r.name = n

\* No lease of id is held, and none is being made.
Withdrawn(id) ==
    /\ id \in used \ DOMAIN entries
    /\ \A r \in registering : r.rec.producer # id

\* What one step of the daemon does with an ID that is already used: it may
\* move on to the next stage of its life, with its name.
LEMMA IDStep ==
    ASSUME IInv, [Next]_vars
    PROVE  /\ used \subseteq used'
           /\ \A s \in registering' :
                \/ s.rec.producer \notin used
                \/ \E r \in registering : r.rec.producer = s.rec.producer /\ r.name = s.name
           /\ \A id \in DOMAIN entries' :
                \/ id \in DOMAIN entries /\ entries'[id].name = entries[id].name
                \/ \E r \in registering : r.rec.producer = id /\ r.name = entries'[id].name
           /\ \A e \in (deleting \cup sweeping)' :
                \/ e \in deleting \cup sweeping
                \/ e.id \in DOMAIN entries /\ e.name = entries[e.id].name
  <1> DEFINE Moved(s) == \E r \in registering : r.rec.producer = s.rec.producer /\ r.name = s.name
             LeaseKept(id) == id \in DOMAIN entries /\ entries'[id].name = entries[id].name
             Fewer == \A id \in DOMAIN entries' : id \in DOMAIN entries /\ entries'[id] = entries[id]
             Goal == /\ used \subseteq used'
                     /\ \A s \in registering' : s.rec.producer \notin used \/ Moved(s)
                     /\ \A id \in DOMAIN entries' :
                          \/ LeaseKept(id)
                          \/ \E r \in registering : r.rec.producer = id /\ r.name = entries'[id].name
                     /\ \A e \in (deleting \cup sweeping)' :
                          \/ e \in deleting \cup sweeping
                          \/ e.id \in DOMAIN entries /\ e.name = entries[e.id].name
  <1>1. ASSUME NEW p \in Requests, Register(p)
        PROVE  /\ used \subseteq used' /\ Fewer /\ UNCHANGED <<deleting, sweeping>>
               /\ \A s \in registering' : s.rec.producer \notin used
    <2>1. PICK id \in ProducerIDs(p) :
            /\ RetireReplaced(p.name, OwnerOf(p, id), id)
            /\ used' = used \cup ({id} \cap RegistrationID)
            /\ \A s \in registering' : s.rec = NewRecord(p, OwnerOf(p, id), id)
      BY <1>1 DEF Register
    <2>2. id \notin used
      BY NewRecordType, IdentityAssumption, Zenon DEF IInv, TypeOK
    <2>3. NewRecord(p, OwnerOf(p, id), id).producer = id
      BY DEF NewRecord
    <2>4. Fewer
      BY <2>1 DEF RetireReplaced, Lease!Without, Lease!Restrict, Restrict
    <2> QED
      BY <1>1, <2>1, <2>2, <2>3, <2>4, Zenon DEF Register
  <1>2. ASSUME NEW r \in registering, EnsureTCPRuntime(r) \/ Publish(r) \/ SetRoute(r)
        PROVE  UNCHANGED <<used, entries, deleting, sweeping>> /\ \A s \in registering' : Moved(s)
    <2>1. r \in Registration
      BY DEF IInv, TypeOK
    <2>2. ASSUME NEW port PROVE Moved(WithPort(r, port))
      BY <2>1 DEF WithPort, Registration, Record, Reg!ServiceRecord
    <2>3. ASSUME NEW pc PROVE Moved([r EXCEPT !.pc = pc])
      BY <2>1 DEF Registration
    <2>4. CASE EnsureTCPRuntime(r)
      BY <2>2, <2>4 DEF EnsureTCPRuntime
    <2>5. CASE Publish(r) \/ SetRoute(r)
      <3>1. /\ UNCHANGED <<used, entries, deleting, sweeping>>
            /\ registering' \subseteq {[r EXCEPT !.pc = "route"], [r EXCEPT !.pc = "lease"]}
        BY <2>5 DEF Publish, SetRoute, AfterPublish
      <3>2. Moved([r EXCEPT !.pc = "route"]) /\ Moved([r EXCEPT !.pc = "lease"])
        BY <2>3
      <3> HIDE DEF Moved
      <3> QED
        BY <3>1, <3>2
    <2> QED
      BY <1>2, <2>4, <2>5, Zenon
  <1>3. ASSUME NEW r \in registering, AddLease(r)
        PROVE  /\ UNCHANGED <<used, deleting, sweeping>> /\ registering' = {}
               /\ \A id \in DOMAIN entries' :
                    LeaseKept(id) \/ (r.rec.producer = id /\ r.name = entries'[id].name)
    BY <1>3 DEF AddLease, Lease!AddWithTTL
  <1>4. ASSUME NEW id \in RegistrationID, NEW tokenOK \in BOOLEAN, Heartbeat(id, tokenOK)
        PROVE  UNCHANGED <<used, registering, deleting, sweeping>> /\ \A i \in DOMAIN entries' : LeaseKept(i)
    BY <1>4 DEF Heartbeat, Lease!Renew, Lease!Without, Lease!Restrict, Restrict, IInv, TypeOK, Lease!Entry
  <1>5. ASSUME NEW id \in RegistrationID, DeleteRegistration(id)
        PROVE  /\ UNCHANGED <<used, registering, sweeping>> /\ Fewer
               /\ id \in DOMAIN entries
               /\ deleting' = deleting \cup {[name |-> entries[id].name, id |-> id]}
    BY <1>5 DEF DeleteRegistration, Lease!Delete, Lease!Without, Lease!Restrict, Restrict
  <1>6. CASE TakeExpired
    <2>1. UNCHANGED <<used, registering, deleting>> /\ Fewer
      BY <1>6 DEF TakeExpired, Lease!TakeExpired, Lease!Without, Lease!Restrict, Restrict
    <2>2. \A e \in sweeping' : e.id \in DOMAIN entries /\ e.name = entries[e.id].name
      BY <1>6 DEF TakeExpired, Lease!ExpiredIds
    <2> QED
      BY <2>1, <2>2
  <1>7. CASE Tick
    BY <1>7 DEF Tick, Lease!Elapse, IInv, TypeOK, Lease!Entry
  <1>8. CASE Restart
    BY <1>8 DEF Restart
  <1>9. CASE /\ UNCHANGED <<used, registering, entries>>
             /\ deleting' \subseteq deleting /\ sweeping' \subseteq sweeping
    BY <1>9
  <1>10. \/ \E p \in Requests : Register(p)
         \/ RegisterStep
         \/ \E id \in RegistrationID, tokenOK \in BOOLEAN : Heartbeat(id, tokenOK)
         \/ \E id \in RegistrationID : DeleteRegistration(id)
         \/ TakeExpired \/ Tick \/ Restart
         \/ /\ UNCHANGED <<used, registering, entries>>
            /\ deleting' \subseteq deleting /\ sweeping' \subseteq sweeping
    BY DEF Next, Operation, vars, EndDeletion, EndExpired, ForgetDockerPublication
  <1>11. ASSUME NEW p \in Requests, Register(p) PROVE Goal
    BY <1>1, <1>11
  <1>12. CASE RegisterStep
    <2>1. ASSUME NEW r \in registering, AddLease(r) PROVE Goal
      BY <1>3, <2>1
    <2>2. ASSUME NEW r \in registering, EnsureTCPRuntime(r) \/ Publish(r) \/ SetRoute(r) PROVE Goal
      BY <1>2, <2>2
    <2> QED
      BY <1>12, <2>1, <2>2, Zenon DEF RegisterStep
  <1>13. ASSUME NEW id \in RegistrationID, NEW tokenOK \in BOOLEAN, Heartbeat(id, tokenOK) PROVE Goal
    BY <1>4, <1>13
  <1>14. ASSUME NEW id \in RegistrationID, DeleteRegistration(id) PROVE Goal
    BY <1>5, <1>14
  <1> QED
    BY <1>6, <1>7, <1>8, <1>9, <1>10, <1>11, <1>12, <1>13, <1>14, Zenon

\* A record that becomes ready is that of the registration under way.
LEMMA PublishStep ==
    ASSUME IInv, [Next]_vars, NEW n, NEW id, Publishes(n, id)'
    PROVE  Publishes(n, id) \/ \E r \in registering : r.rec.producer = id
  <1>1. ASSUME NEW r \in registering, Publish(r)
        PROVE  Publishes(n, id) \/ r.rec.producer = id
    BY <1>1 DEF Publish, Reg!CreateOrReplaceOwned, Reg!Put, Publishes, Reg!Ready
  <1>2. ASSUME NEW name \in Name, NEW producer, endPublication(name, producer)
        PROVE  Publishes(n, id)
    BY <1>2 DEF endPublication, Reg!ClearBackendIf, Reg!Put, Publishes, Reg!Ready,
                IInv, TypeOK, Record, Reg!ServiceRecord
  <1>3. CASE services' = services
    BY <1>3 DEF Publishes, Reg!Ready
  <1>4. CASE services' = << >>
    BY <1>4 DEF Publishes, Reg!Ready
  <1> QED
    BY <1>1, <1>2, <1>3, <1>4, RegistryStep

\* So these facts about an ID survive every step of the daemon.
LEMMA KnownStays ==
    ASSUME IInv, [Next]_vars
    PROVE  \A id, n :
             /\ Bound(id, n) => Bound(id, n)'
             /\ Withdrawn(id) => Withdrawn(id)'
             /\ Withdrawn(id) /\ ~Publishes(n, id) => ~Publishes(n, id)'
  <1> TAKE id, n
  <1>1. Bound(id, n) => Bound(id, n)'
    BY IDStep DEF Bound
  <1>2. Withdrawn(id) => Withdrawn(id)'
    BY IDStep DEF Withdrawn
  <1>3. Withdrawn(id) /\ ~Publishes(n, id) => ~Publishes(n, id)'
    BY PublishStep DEF Withdrawn
  <1> QED
    BY <1>1, <1>2, <1>3

=============================================================================
