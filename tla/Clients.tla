------------------------------ MODULE Clients -------------------------------
(***************************************************************************)
(* pkg/devmesh composed with the daemon: registration handles that         *)
(* register, heartbeat, re-register after a 404 and delete on Close, over  *)
(* the Unix-socket API.  A call may time out at any point; the request may *)
(* then still be on its way to its handler, or its answer may be lost.     *)
(*                                                                         *)
(* The daemon's own steps are those of Daemon, so every behaviour here is  *)
(* one of Daemon's; what the handles do replaces Daemon's free choice of   *)
(* heartbeats and deletions.                                               *)
(***************************************************************************)
EXTENDS Daemon

CONSTANTS
    Client,      \* registration handles
    Request,     \* the baseReq of each handle
    NoID,        \* no registration ID
    MaxFaults    \* bound on time-outs, lost answers, late beats and restarts

VARIABLES
    client,   \* the state of each handle and of its call
    inbox,    \* requests that no handler has picked up yet
    faults    \* faults so far

clientVars == <<client, inbox, faults>>

ASSUME ClientAssumption ==
    /\ Request \in [Client -> Requests]
    /\ \A c \in Client : Request[c].source \in Reg!LeasedSource
    /\ NoID \notin RegistrationID
    /\ MaxFaults \in Nat

\* waiting, heartbeat and reregister are places of heartbeatLoop; register and
\* close are the calls of Register and Close; once is devmesh register --once.
Running == {"waiting", "heartbeat", "reregister"}

Handle ==
    [pc   : Running \cup {"idle", "register", "once", "close", "closed", "dead"},
     id   : RegistrationID \cup {NoID},
     call : {"none", "sent", "serving", "ok", "notFound", "failed"},
     new  : RegistrationID \cup {NoID}]

\* abandoned is 0 while the caller waits for the answer.
Call ==
    [client : Client, op : {"register", "heartbeat", "delete"},
     id : RegistrationID \cup {NoID}, abandoned : Nat]

NewCall(c, op) == [client |-> c, op |-> op, id |-> client[c].id, abandoned |-> 0]

Fault == faults < MaxFaults /\ faults' = faults + 1

-----------------------------------------------------------------------------
(* The handlers.  Only a caller that still waits sees the answer. *)

Answer(m, result, new) ==
    client' = IF m.abandoned = 0
                THEN [client EXCEPT ![m.client].call = result, ![m.client].new = new]
                ELSE client

ServeRegister(m) ==
    /\ m.op = "register"
    /\ Register(Request[m.client])
    /\ \E id \in used' \ used : Answer(m, "serving", id)
    /\ inbox' = inbox \ {m}
    /\ UNCHANGED faults

\* NoID stands for the ID the daemon would have drawn.
Rejected(p) ==
    \/ ~LeaseInRange(p) \/ ~KeepsIdentity(p) \/ ~OwnsHostname(p)
    \/ Reg!NameConflict(p.name, OwnerOf(p, NoID))

RejectRegister(m) ==
    /\ m.op = "register"
    /\ registering = {}
    /\ Rejected(Request[m.client])
    /\ Answer(m, "failed", NoID)
    /\ inbox' = inbox \ {m}
    /\ UNCHANGED <<vars, faults>>

\* A registration under way takes a step; when it is over, its caller is told
\* whether it got a lease.
ContinueRegister(r) ==
    /\ EnsureTCPRuntime(r) \/ Publish(r) \/ SetRoute(r) \/ AddLease(r)
    /\ IF r.pc = "allocate" /\ registering' = {} THEN Fault ELSE UNCHANGED faults
    /\ client' = [c \in Client |->
                    IF registering' = {} /\ client[c].call = "serving" /\ client[c].new = r.rec.producer
                      THEN [client[c] EXCEPT !.call = IF r.pc = "lease" THEN "ok" ELSE "failed"]
                      ELSE client[c]]
    /\ UNCHANGED inbox

\* 404 for a lease that is unknown, or expired and hereby deleted.
ServeHeartbeat(m) ==
    /\ m.op = "heartbeat"
    /\ \/ /\ m.id \in DOMAIN entries
          /\ Heartbeat(m.id, TRUE)
          /\ Answer(m, IF Lease!Expired(m.id) THEN "notFound" ELSE "ok", NoID)
       \/ /\ m.id \notin DOMAIN entries
          /\ Answer(m, "notFound", NoID)
          /\ UNCHANGED vars
    /\ inbox' = inbox \ {m}
    /\ UNCHANGED faults

\* Mutant: the handler answers before the publication is ended.
ServeDeleteEarlyAnswer(m) ==
    /\ m.op = "delete"
    /\ \/ /\ m.id \in DOMAIN entries
          /\ DeleteRegistration(m.id)
          /\ Answer(m, "ok", NoID)
       \/ /\ m.id \notin DOMAIN entries
          /\ Answer(m, "notFound", NoID)
          /\ UNCHANGED vars
    /\ inbox' = inbox \ {m}
    /\ UNCHANGED faults

\* Mutant: the lease is deleted and the publication forgotten.
ServeDeleteLeaseOnly(m) ==
    /\ m.op = "delete"
    /\ Lease!Delete(m.id, TRUE)
    /\ Answer(m, "ok", NoID)
    /\ inbox' = inbox \ {m}
    /\ UNCHANGED <<services, runtimes, routes, registering, deleting, sweeping, used, dropped, faults>>

ServeDelete(m) ==
    /\ m.op = "delete"
    /\ \/ /\ m.id \in DOMAIN entries
          /\ DeleteRegistration(m.id)
          /\ Answer(m, "serving", NoID)
       \/ /\ m.id \notin DOMAIN entries
          /\ Answer(m, "notFound", NoID)
          /\ UNCHANGED vars
    /\ inbox' = inbox \ {m}
    /\ UNCHANGED faults

FinishDelete(e) ==
    /\ EndDeletion(e)
    /\ client' = [c \in Client |->
                    IF client[c].pc = "close" /\ client[c].call = "serving" /\ client[c].id = e.id
                      THEN [client[c] EXCEPT !.call = "ok"] ELSE client[c]]
    /\ UNCHANGED <<inbox, faults>>

\* A request nobody waits for is lost with its connection.
LoseRequest(m) ==
    /\ m.abandoned # 0
    /\ inbox' = inbox \ {m}
    /\ UNCHANGED <<vars, client, faults>>

-----------------------------------------------------------------------------
(* The handles. *)

\* Give up the current call, if it is still in the inbox.
Abandoned(c) ==
    {IF m.client = c /\ m.abandoned = 0 THEN [m EXCEPT !.abandoned = faults + 1] ELSE m : m \in inbox}

Goes(c, pc, call) ==
    client' = [client EXCEPT ![c].pc = pc, ![c].call = call, ![c].new = NoID]

Send(c, pc, op) ==
    /\ Goes(c, pc, "sent")
    /\ inbox' = inbox \cup {NewCall(c, op)}
    /\ UNCHANGED <<vars, faults>>

\* devmesh.Register is called.
Open(c) == client[c].pc = "idle" /\ Send(c, "register", "register")

\* devmesh register --once: one request, no handle.
OpenOnce(c) == client[c].pc = "idle" /\ Send(c, "once", "register")

\* The command prints the answer and exits; the registration is not renewed.
OnceReturns(c) ==
    /\ client[c].pc = "once"
    /\ client[c].call \in {"ok", "failed"}
    /\ Goes(c, "dead", "none")
    /\ UNCHANGED <<vars, inbox, faults>>

\* The heartbeat timer fires.
Beat(c) == client[c].pc = "waiting" /\ Send(c, "heartbeat", "heartbeat")

\* register returns nil: the handle adopts the new identity and waits.
Adopt(c) ==
    /\ client[c].pc \in {"register", "reregister"}
    /\ client[c].call = "ok"
    /\ client' = [client EXCEPT ![c].pc = "waiting", ![c].call = "none",
                                ![c].id = client[c].new, ![c].new = NoID]
    /\ UNCHANGED <<vars, inbox, faults>>

\* Register returns its error to the application, which may try again.
OpenFails(c) ==
    /\ client[c].pc = "register"
    /\ client[c].call = "failed"
    /\ Goes(c, "idle", "none")
    /\ UNCHANGED <<vars, inbox, faults>>

\* Mutant: a 404 is taken for a transient failure.
BeatReturnsRetryOnly(c) ==
    /\ client[c].pc = "heartbeat"
    /\ client[c].call \in {"ok", "notFound", "failed"}
    /\ Goes(c, "waiting", "none")
    /\ UNCHANGED <<vars, inbox, faults>>

\* The heartbeat was acknowledged, or failed in transit (the loop backs off and
\* beats again); after a 404 the handle registers anew.
BeatReturns(c) ==
    /\ client[c].pc = "heartbeat"
    /\ \/ /\ client[c].call \in {"ok", "failed"}
          /\ Goes(c, "waiting", "none")
          /\ UNCHANGED <<vars, inbox, faults>>
       \/ /\ client[c].call = "notFound"
          /\ Send(c, "reregister", "register")

\* A failed re-registration (conflict, exhaustion, time-out) keeps the old
\* identity; the next heartbeat gets another 404.
ReregisterFails(c) ==
    /\ client[c].pc = "reregister"
    /\ client[c].call = "failed"
    /\ Goes(c, "waiting", "none")
    /\ UNCHANGED <<vars, inbox, faults>>

\* Close cancels the loop, waits for it, and deletes the latest identity.
Close(c) ==
    /\ client[c].pc \in Running
    /\ Goes(c, "close", "sent")
    /\ inbox' = Abandoned(c) \cup {NewCall(c, "delete")}
    /\ UNCHANGED <<vars, faults>>

\* Close ignores the outcome; call keeps it.
CloseReturns(c) ==
    /\ client[c].pc = "close"
    /\ client[c].call \in {"ok", "notFound", "failed"}
    /\ client' = [client EXCEPT ![c].pc = "closed"]
    /\ UNCHANGED <<vars, inbox, faults>>

\* The call times out, or its answer is lost.
GiveUp(c) ==
    /\ client[c].call \in {"sent", "serving", "ok", "notFound"}
    /\ client[c].pc \notin {"closed", "dead"}
    /\ Fault
    /\ Goes(c, client[c].pc, "failed")
    /\ inbox' = Abandoned(c)
    /\ UNCHANGED vars

\* The producer dies, or its context ends without a Close.
Crash(c) ==
    /\ client[c].pc \in Running \cup {"register", "once", "close"}
    /\ Goes(c, "dead", "none")
    /\ inbox' = Abandoned(c)
    /\ UNCHANGED <<vars, faults>>

-----------------------------------------------------------------------------
(* Time and the daemon's life. *)

\* The lease of a live handle expires with the next tick.  Heartbeats are
\* sent every third of the TTL, so this takes a fault.
Late ==
    \E c \in Client, id \in DOMAIN entries :
        /\ client[c].pc \in Running \cup {"register"}
        /\ id \in {client[c].id, client[c].new}
        /\ entries[id].left = 1

TimePasses ==
    /\ Tick
    /\ IF Late THEN Fault ELSE UNCHANGED faults
    /\ UNCHANGED <<client, inbox>>

Sweep ==
    /\ TakeExpired \/ \E e \in sweeping : EndExpired(e)
    /\ UNCHANGED clientVars

\* Calls in flight fail with their connection.
DaemonRestarts ==
    /\ Fault
    /\ Restart
    /\ client' = [c \in Client |->
                    IF client[c].call \in {"sent", "serving"}
                      THEN [client[c] EXCEPT !.call = "failed", !.new = NoID] ELSE client[c]]
    /\ inbox' = {}

-----------------------------------------------------------------------------
ClientsInit ==
    /\ Init
    /\ client = [c \in Client |-> [pc |-> "idle", id |-> NoID, call |-> "none", new |-> NoID]]
    /\ inbox = {}
    /\ faults = 0

Serve(m) == ServeRegister(m) \/ RejectRegister(m) \/ ServeHeartbeat(m) \/ ServeDelete(m)

Loop(c) ==
    \/ Beat(c) \/ Adopt(c) \/ OpenFails(c) \/ BeatReturns(c) \/ ReregisterFails(c)
    \/ CloseReturns(c) \/ OnceReturns(c)

ClientsNext ==
    \/ \E m \in inbox : Serve(m) \/ LoseRequest(m)
    \/ \E r \in registering : ContinueRegister(r)
    \/ \E e \in deleting : FinishDelete(e)
    \/ \E c \in Client : Loop(c) \/ Open(c) \/ OpenOnce(c) \/ Close(c) \/ GiveUp(c) \/ Crash(c)
    \/ TimePasses
    \/ Sweep
    \/ DaemonRestarts

ClientsSpec == ClientsInit /\ [][ClientsNext]_<<vars, clientVars>>

\* Handles and handlers run on, and whoever waits for Daemon.mutate gets it.
ClientsFairness ==
    /\ \A c \in Client : WF_<<vars, clientVars>>(Loop(c))
    /\ \A c \in Client : SF_<<vars, clientVars>>(\E m \in inbox : m.client = c /\ m.abandoned = 0 /\ Serve(m))
    /\ WF_<<vars, clientVars>>(\E r \in registering : ContinueRegister(r))
    /\ SF_<<vars, clientVars>>(\E e \in deleting : FinishDelete(e))
    /\ SF_<<vars, clientVars>>(Sweep)
    /\ WF_<<vars, clientVars>>(TimePasses)
    /\ WF_<<vars, clientVars>>(\E m \in inbox : LoseRequest(m))

ClientsFairSpec == ClientsSpec /\ ClientsFairness

-----------------------------------------------------------------------------
(* Properties. *)

\* The handles and their calls are well formed, and a caller that waits has at
\* most one request out.
ClientsTypeOK ==
    /\ client \in [Client -> Handle]
    /\ inbox \subseteq Call
    /\ faults \in 0 .. MaxFaults
    /\ \A m \in inbox : m.abandoned = 0 => client[m.client].call = "sent"

\* Whatever the handles do and however their calls are delayed or lost, the
\* daemon behaves as Daemon says; so Daemon's theorems hold of the composition.
ImplementsDaemon == Spec

\* Once Close saw its DELETE acknowledged, consumers are not routed to the
\* closed producer any more (DeleteRegistration returns after endPublication).
CloseEndsPublication ==
    \A c \in Client :
        client[c].pc = "closed" /\ client[c].call = "ok"
            => ~Publishes(Request[c].name, client[c].id)

\* A running handle holds the lease of name n (several may compete for it), and
\* consumers are routed to it.
Served(n) ==
    \E c \in Client :
        /\ client[c].pc \in Running
        /\ client[c].id \in DOMAIN entries
        /\ Publishes(n, client[c].id)

\* A late heartbeat deleted the lease of the current publication.
Orphaned(n) == Reg!Ready(n) /\ services[n].producer \in dropped

\* Once faults cease, a producer that keeps running is published again: after
\* a restart, an expired lease, or an answer that was lost.  The exception is
\* a publication whose lease a late heartbeat deleted.
LiveProducersAreServed ==
    <>[](\A c \in Client :
            client[c].pc \in Running => Served(Request[c].name) \/ Orphaned(Request[c].name))

\* Once faults cease, no publication outlives its producer, closed or crashed,
\* not even one made by a request that was still on its way when the producer
\* stopped, or by register --once, which "is not renewed and expires after its
\* TTL" (register.go:56-57).
StoppedProducersAreForgotten ==
    <>[](\A n \in Name : Reg!Ready(n) => Served(n) \/ Orphaned(n)
            \/ \E c \in Client : Request[c].name = n /\ client[c].pc = "register")

\* manager.go:85-87: an expired registration is not renewed, "the client must
\* register anew".  So a producer that keeps running holds a lease again.
ExpiredClientRegistersAnew ==
    <>[](\A c \in Client : client[c].pc \in Running => Served(Request[c].name))

=============================================================================
