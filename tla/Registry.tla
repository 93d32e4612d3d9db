------------------------------ MODULE Registry ------------------------------
(***************************************************************************)
(* internal/registry: the in-memory map of logical services.  Every method *)
(* runs under Registry.mu, so each one is a single step here.  The map is  *)
(* a function whose domain is the set of names present in it.              *)
(*                                                                         *)
(* A backend address is an opaque value; NoBackend stands for nil.  Left   *)
(* out of the record: AppProtocol, DockerContainerID and UpdatedAt, which  *)
(* no operation reads back.                                                *)
(***************************************************************************)
EXTENDS Functions

CONSTANTS NoBackend

VARIABLES services

-----------------------------------------------------------------------------
(* model.go: the record and its enumerations. *)

Kind == {"tcp", "http"}

Source == {"process", "manual", "docker"}

Status == {"ready", "unavailable"}

\* process and manual publications live as long as their lease; docker ones
\* as long as their container.
LeasedSource == {"process", "manual"}

ServiceRecord(Owner, Producer, Backend, Frontend, Host) ==
    [kind     : Kind,
     owner    : Owner,
     producer : Producer,
     source   : Source,
     backend  : Backend \cup {NoBackend},
     frontend : Frontend,
     hostname : Host,
     status   : Status]

-----------------------------------------------------------------------------
Init == services = << >>

Put(name, rec) ==
    [n \in DOMAIN services \cup {name} |-> IF n = name THEN rec ELSE services[n]]

Ready(name) ==
    /\ name \in DOMAIN services
    /\ services[name].status = "ready"

\* Mutant: ownership is not compared.
NameConflictAnyOwner(name, owner) == FALSE

\* The test shared by CheckOwnership and CreateOrReplaceOwned: another owner
\* holds the name and is not dormant.
NameConflict(name, owner) ==
    /\ name \in DOMAIN services
    /\ services[name].owner # owner
    /\ services[name].status # "unavailable"

CreateOrReplaceOwned(name, rec) ==
    services' = IF NameConflict(name, rec.owner) THEN services ELSE Put(name, rec)

\* Mutant: the producer is not compared.
ClearBackendIfNamed(name, producer) ==
    services' = IF name \in DOMAIN services
                  THEN Put(name, [services[name] EXCEPT !.backend = NoBackend,
                                                        !.status = "unavailable"])
                  ELSE services

ClearBackendIf(name, producer) ==
    services' = IF name \in DOMAIN services /\ services[name].producer = producer
                  THEN Put(name, [services[name] EXCEPT !.backend = NoBackend,
                                                        !.status = "unavailable"])
                  ELSE services

\* The names whose record carries the canonical hostname; the code returns the
\* first one the map iteration meets.
FindByHostname(hostname) == {n \in DOMAIN services : services[n].hostname = hostname}

=============================================================================
