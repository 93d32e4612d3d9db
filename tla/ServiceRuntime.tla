--------------------------- MODULE ServiceRuntime ---------------------------
(***************************************************************************)
(* internal/runtime/service.go with Manager.Shutdown: the accept loop of   *)
(* one frontend, its workers, and the daemon's shutdown, while the service *)
(* changes its backend.  Each worker runs proxy.TCP (module TcpProxy); all *)
(* that is said of it here is that it may return at any time, or never.    *)
(*                                                                         *)
(* A connection's stage is where it is in the accept loop or its worker:   *)
(*   queued -> accepted -> checked -> admitted -> proxied -> returned      *)
(*          -> ended -> closed                                             *)
(* The registry's record of the service is a version number, 0 when it is  *)
(* not ready.                                                              *)
(***************************************************************************)
EXTENDS Naturals, FiniteSets

CONSTANTS
    Conn,          \* connections consumers make
    Capacity,      \* cap(rt.sem), 4096 in the code
    MaxVersion     \* bound on the backend changes

VARIABLES
    stage,        \* per connection, or "none" before the consumer dials
    backend,      \* per connection: the backend snapshot of its worker
    asked,        \* ghost, per connection: the newest version when the consumer dialed
    ready,        \* the service has a backend
    version,      \* the newest backend of the service
    sem,          \* len(rt.sem)
    connections,  \* rt.connections
    proxies,      \* the counter of rt.proxies
    closed,       \* rt.closed, set under connMu
    listening,    \* the listener is open
    shut,         \* client sockets closed by CloseActiveConnections
    snapshot,     \* CloseActiveConnections: sockets it has yet to close
    pc            \* Manager.Shutdown

vars == <<stage, backend, asked, ready, version, sem, connections, proxies, closed,
          listening, shut, snapshot, pc>>

ASSUME RuntimeAssumption ==
    IsFiniteSet(Conn) /\ Capacity \in Nat \ {0} /\ MaxVersion \in Nat

Stage == {"none", "queued", "accepted", "checked", "admitted", "proxied", "returned",
          "ended", "closed"}

Moves(c, from, to) == stage[c] = from /\ stage' = [stage EXCEPT ![c] = to]

\* The accept loop handles one connection at a time.
Handling == {c \in Conn : stage[c] \in {"accepted", "checked", "admitted"}}

-----------------------------------------------------------------------------
(* acceptLoop. *)

\* A connection the kernel had completed may be returned while Close is
\* between setting the flag and closing the listener.
Accept(c) ==
    /\ Handling = {}
    /\ listening
    /\ Moves(c, "queued", "accepted")
    /\ UNCHANGED <<backend, asked, ready, version, sem, connections, proxies, closed,
                   listening, shut, snapshot, pc>>

\* Mutant: the snapshot is one change old.
CurrentBackendStale(c) ==
    /\ ready
    /\ Moves(c, "accepted", "checked")
    /\ backend' = [backend EXCEPT ![c] = IF version > 1 THEN version - 1 ELSE version]
    /\ UNCHANGED <<asked, ready, version, sem, connections, proxies, closed, listening,
                   shut, snapshot, pc>>

\* One snapshot of the registry; without a backend the connection is closed.
CurrentBackend(c) ==
    /\ Moves(c, "accepted", IF ready THEN "checked" ELSE "closed")
    /\ backend' = [backend EXCEPT ![c] = IF ready THEN version ELSE 0]
    /\ UNCHANGED <<asked, ready, version, sem, connections, proxies, closed, listening,
                   shut, snapshot, pc>>

\* Mutant: the loop waits for a slot.
AcquireSlotBlocking(c) ==
    /\ sem < Capacity
    /\ Moves(c, "checked", "admitted")
    /\ sem' = sem + 1
    /\ UNCHANGED <<backend, asked, ready, version, connections, proxies, closed, listening,
                   shut, snapshot, pc>>

\* A full semaphore refuses the connection; the loop never blocks on it.
AcquireSlot(c) ==
    /\ Moves(c, "checked", IF sem < Capacity THEN "admitted" ELSE "closed")
    /\ sem' = IF sem < Capacity THEN sem + 1 ELSE sem
    /\ UNCHANGED <<backend, asked, ready, version, connections, proxies, closed, listening,
                   shut, snapshot, pc>>

\* Mutant: the slot of a refused connection is kept.
beginProxyKeepsSlot(c) ==
    /\ Moves(c, "admitted", IF closed THEN "closed" ELSE "proxied")
    /\ IF closed
         THEN UNCHANGED <<sem, connections, proxies>>
         ELSE /\ connections' = connections \cup {c}
              /\ proxies' = proxies + 1
              /\ UNCHANGED sem
    /\ UNCHANGED <<backend, asked, ready, version, closed, listening, shut, snapshot, pc>>

\* Mutant: a closed runtime still admits workers.
beginProxyAlways(c) ==
    /\ Moves(c, "admitted", "proxied")
    /\ connections' = connections \cup {c}
    /\ proxies' = proxies + 1
    /\ UNCHANGED <<backend, asked, ready, version, sem, closed, listening, shut, snapshot, pc>>

\* Under connMu: refuse when closed (the slot is given back), else count the
\* worker in and start it.
beginProxy(c) ==
    /\ Moves(c, "admitted", IF closed THEN "closed" ELSE "proxied")
    /\ IF closed
         THEN sem' = sem - 1 /\ UNCHANGED <<connections, proxies>>
         ELSE /\ connections' = connections \cup {c}
              /\ proxies' = proxies + 1
              /\ UNCHANGED sem
    /\ UNCHANGED <<backend, asked, ready, version, closed, listening, shut, snapshot, pc>>

AcceptLoop == \E c \in Conn : Accept(c) \/ CurrentBackend(c) \/ AcquireSlot(c) \/ beginProxy(c)

-----------------------------------------------------------------------------
(* The workers. *)

ProxyReturns(c) ==
    /\ Moves(c, "proxied", "returned")
    /\ UNCHANGED <<backend, asked, ready, version, sem, connections, proxies, closed,
                   listening, shut, snapshot, pc>>

\* It leaves the map and then the wait group.  A copy of the map taken between
\* the two is one taken after both, so this is one step.
endProxy(c) ==
    /\ Moves(c, "returned", "ended")
    /\ connections' = connections \ {c}
    /\ proxies' = proxies - 1
    /\ UNCHANGED <<backend, asked, ready, version, sem, closed, listening, shut, snapshot, pc>>

ReleaseSlot(c) ==
    /\ Moves(c, "ended", "closed")
    /\ sem' = sem - 1
    /\ UNCHANGED <<backend, asked, ready, version, connections, proxies, closed, listening,
                   shut, snapshot, pc>>

-----------------------------------------------------------------------------
(* Manager.Shutdown. *)

\* Close sets the flag under connMu, then closes the listener.
Close ==
    /\ pc = "running"
    /\ closed' = TRUE
    /\ pc' = "listener"
    /\ UNCHANGED <<stage, backend, asked, ready, version, sem, connections, proxies,
                   listening, shut, snapshot>>

\* Connections that nobody accepted are reset.
CloseListener ==
    /\ pc = "listener"
    /\ listening' = FALSE
    /\ stage' = [c \in Conn |-> IF stage[c] = "queued" THEN "closed" ELSE stage[c]]
    /\ pc' = "connections"
    /\ UNCHANGED <<backend, asked, ready, version, sem, connections, proxies, closed, shut,
                   snapshot>>

\* CloseActiveConnections copies the map under connMu and closes the sockets
\* without it.
SnapshotConnections ==
    /\ pc = "connections"
    /\ snapshot' = connections
    /\ pc' = "sockets"
    /\ UNCHANGED <<stage, backend, asked, ready, version, sem, connections, proxies, closed,
                   listening, shut>>

CloseSocket(c) ==
    /\ pc = "sockets"
    /\ c \in snapshot
    /\ snapshot' = snapshot \ {c}
    /\ shut' = shut \cup {c}
    /\ UNCHANGED <<stage, backend, asked, ready, version, sem, connections, proxies, closed,
                   listening, pc>>

SocketsClosed ==
    /\ pc = "sockets"
    /\ snapshot = {}
    /\ pc' = "wait"
    /\ UNCHANGED <<stage, backend, asked, ready, version, sem, connections, proxies, closed,
                   listening, shut, snapshot>>

WaitForProxies ==
    /\ pc = "wait"
    /\ proxies = 0
    /\ pc' = "drained"
    /\ UNCHANGED <<stage, backend, asked, ready, version, sem, connections, proxies, closed,
                   listening, shut, snapshot>>

\* The shutdown context expires first.
WaitTimesOut ==
    /\ pc = "wait"
    /\ pc' = "timedOut"
    /\ UNCHANGED <<stage, backend, asked, ready, version, sem, connections, proxies, closed,
                   listening, shut, snapshot>>

Shutdown ==
    \/ CloseListener \/ SnapshotConnections \/ (\E c \in Conn : CloseSocket(c))
    \/ SocketsClosed \/ WaitForProxies \/ WaitTimesOut

-----------------------------------------------------------------------------
(* Consumers and producers. *)

Connect(c) ==
    /\ listening
    /\ Moves(c, "none", "queued")
    /\ asked' = [asked EXCEPT ![c] = version]
    /\ UNCHANGED <<backend, ready, version, sem, connections, proxies, closed, listening,
                   shut, snapshot, pc>>

BackendReplaced ==
    /\ version < MaxVersion
    /\ version' = version + 1
    /\ ready' = TRUE
    /\ UNCHANGED <<stage, backend, asked, sem, connections, proxies, closed, listening, shut,
                   snapshot, pc>>

BackendCleared ==
    /\ ready
    /\ ready' = FALSE
    /\ UNCHANGED <<stage, backend, asked, version, sem, connections, proxies, closed,
                   listening, shut, snapshot, pc>>

-----------------------------------------------------------------------------
Init ==
    /\ stage = [c \in Conn |-> "none"]
    /\ backend = [c \in Conn |-> 0] /\ asked = [c \in Conn |-> 0]
    /\ ready = FALSE /\ version = 0
    /\ sem = 0 /\ connections = {} /\ proxies = 0
    /\ closed = FALSE /\ listening = TRUE
    /\ shut = {} /\ snapshot = {} /\ pc = "running"

Next ==
    \/ AcceptLoop
    \/ \E c \in Conn : ProxyReturns(c) \/ endProxy(c) \/ ReleaseSlot(c) \/ Connect(c)
    \/ Close \/ Shutdown
    \/ BackendReplaced \/ BackendCleared

Spec == Init /\ [][Next]_vars

\* The accept loop and the shutdown run on, and deferred calls are made.
\* Nothing makes a proxy return.
Fairness ==
    /\ WF_vars(AcceptLoop)
    /\ WF_vars(Shutdown)
    /\ \A c \in Conn : WF_vars(endProxy(c) \/ ReleaseSlot(c))

FairSpec == Spec /\ Fairness

-----------------------------------------------------------------------------
(* Properties. *)

\* The state is well formed; in particular neither counter goes negative and
\* the semaphore keeps its capacity.
TypeOK ==
    /\ stage \in [Conn -> Stage]
    /\ backend \in [Conn -> 0 .. MaxVersion] /\ asked \in [Conn -> 0 .. MaxVersion]
    /\ ready \in BOOLEAN /\ version \in 0 .. MaxVersion
    /\ sem \in 0 .. Capacity /\ proxies \in Nat
    /\ connections \subseteq Conn
    /\ closed \in BOOLEAN /\ listening \in BOOLEAN
    /\ shut \subseteq Conn /\ snapshot \subseteq Conn
    /\ pc \in {"running", "listener", "connections", "sockets", "wait", "drained", "timedOut"}

\* Slots are neither leaked nor freed twice: each belongs to a connection on
\* its way through the worker, so the frontend does not wear out.
SlotsBelongToConnections ==
    sem = Cardinality({c \in Conn : stage[c] \in {"admitted", "proxied", "returned", "ended"}})

\* Once Shutdown's wait has succeeded no worker forwards anything any more,
\* although the accept loop may still be handling a connection.
DrainedMeansIdle ==
    pc = "drained" => \A c \in Conn : stage[c] \notin {"proxied", "returned"}

\* When Shutdown starts to wait, it has closed the socket of every worker that
\* forwards; none slipped in behind its copy of the map.
NoConnectionSurvivesShutdown ==
    pc \in {"wait", "drained", "timedOut"} =>
        \A c \in Conn : stage[c] = "proxied" => c \in shut

\* A connection made after a backend change is never forwarded to an older
\* backend, however long it sat in the accept queue (service.go:15-17).
NewConnectionsUseNewBackend ==
    \A c \in Conn : stage[c] \in {"checked", "admitted", "proxied"} => backend[c] >= asked[c]

\* Every connection is taken up or closed, also when the workers before it
\* never return and the semaphore is full.
ConnectionIsDecided ==
    \A c \in Conn : stage[c] = "queued" ~> stage[c] \in {"proxied", "closed"}
=============================================================================
