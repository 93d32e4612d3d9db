------------------------------- MODULE Serve --------------------------------
(***************************************************************************)
(* cmd/devmeshd and internal/transport/unix.go: daemon processes that      *)
(* start, serve, stop and crash around one socket path, one state file and *)
(* one pair of proxy addresses.  Start-up is the sequence                  *)
(*    load state -> bind proxies -> lstat -> dial -> remove -> listen      *)
(* and nothing but the file system coordinates two processes, so the steps *)
(* of one interleave with those of another.                                *)
(*                                                                         *)
(* A socket file is named after the process that bound it; it is stale     *)
(* when that process no longer listens.                                    *)
(***************************************************************************)
EXTENDS Integers

CONSTANTS
    Process,       \* daemon processes
    Nobody,        \* no process; no file at the socket path
    Foreign,       \* another program; something at the socket path that is not a socket
    Slow,          \* processes that may be too busy to answer a probe in time
    Contested,     \* proxy addresses that another program may take
    Service,       \* services whose TCP frontend is remembered in the state file
    Configs,       \* the settings processes are started with
    MinLeaseTTL,   \* config.MinLeaseTTL
    MaxLeaseTTL,   \* config.MaxLeaseTTL
    MaxStarts      \* bound on process starts

VARIABLES
    pc,          \* where Run is, in each process; off is no process
    path,        \* what the socket path leads to
    owner,       \* who has bound each proxy address
    wants,       \* the proxy addresses each process is configured to serve
    mem, disk,   \* services with a remembered frontend, in memory and on file
    busy,        \* registrations under way in each process, by their origin
    frontends,   \* services with a TCP runtime in each process
    hasty,       \* the process stopped without waiting for its registrations
    refused,     \* processes that found something in their way, since the last start
    disorder,    \* a process started, stopped or crashed amid another's start or stop,
                 \* or a probe of a live daemon failed
    starts

processVars == <<wants, mem, busy, frontends, hasty>>
vars == <<pc, path, owner, processVars, disk, refused, disorder, starts>>

ASSUME ProcessAssumption == Nobody \notin Process /\ Foreign \notin Process /\ Nobody # Foreign

ASSUME StartsAssumption == MaxStarts \in Nat

-----------------------------------------------------------------------------
(* Configuration. *)

Endpoint == {"http", "https"}

\* How a listener address reads: it does not split into host and port, or its
\* port is a service name, or a number.
Address == {"unsplit", "named", "numbered"}

Config ==
    [min : Int, max : Int, host : BOOLEAN, leaseTTL : Int, shutdownTimeout : Int,
     http : BOOLEAN, cert : BOOLEAN, key : BOOLEAN, httpAddr : Address, httpsAddr : Address]

ASSUME ConfigAssumption == Configs \subseteq Config

Validate(c) ==
    /\ c.min >= 1 /\ c.max <= 65535 /\ c.min <= c.max
    /\ c.host
    /\ c.leaseTTL \in MinLeaseTTL .. MaxLeaseTTL
    /\ c.shutdownTimeout > 0
    /\ c.http => c.httpAddr # "unsplit"
    /\ c.cert \/ c.key => c.httpsAddr # "unsplit"

loadTLS(c) == c.cert <=> c.key

listenerPort(c) == (IF c.cert THEN c.httpsAddr ELSE c.httpAddr) = "numbered"

\* The addresses bindProxyListeners binds.
Wants(c) == {e \in Endpoint : IF e = "http" THEN c.http ELSE c.cert /\ c.key}

-----------------------------------------------------------------------------
\* While it binds a proxy address, Run is at that address.
Starting == {"load", "lstat", "dial", "remove", "listen", "chmod"} \cup Endpoint

Stopping == {"drain", "wait", "waitAll", "close", "save", "unlink"}

\* The process holds a listening Unix socket.
Listens(p) == pc[p] \in {"chmod", "serving"}

\* Nobody else is in the middle of starting or stopping.
Alone(p) == \A q \in Process \ {p} : pc[q] \in {"off", "serving"}

Goes(p, to) == pc' = [pc EXCEPT ![p] = to]

\* The process ends; the kernel closes what it had open.
Exits(p) ==
    /\ Goes(p, "off")
    /\ owner' = [e \in Endpoint |-> IF owner[e] = p THEN Nobody ELSE owner[e]]
    /\ wants' = [wants EXCEPT ![p] = {}]
    /\ mem' = [mem EXCEPT ![p] = {}]
    /\ busy' = [busy EXCEPT ![p] = {}]
    /\ frontends' = [frontends EXCEPT ![p] = {}]
    /\ hasty' = [hasty EXCEPT ![p] = FALSE]

\* Run returns an error before the daemon serves: what it needs is taken, or a
\* file is not as it found it.
Refuses(p) ==
    /\ Exits(p)
    /\ refused' = refused \cup {p}
    /\ UNCHANGED <<path, disk, disorder, starts>>

\* Run returns the error of a system call that fails for reasons of its own.
Fails(p) ==
    /\ Exits(p)
    /\ UNCHANGED <<path, disk, refused, disorder, starts>>

-----------------------------------------------------------------------------
(* Start-up. *)

\* Settings that Validate or New rejects leave no trace.
Start(p, c) ==
    /\ pc[p] = "off"
    /\ starts < MaxStarts
    /\ Validate(c) /\ loadTLS(c) /\ listenerPort(c)
    /\ Goes(p, "load")
    /\ wants' = [wants EXCEPT ![p] = Wants(c)]
    /\ refused' = {}
    /\ disorder' = (disorder \/ ~Alone(p))
    /\ starts' = starts + 1
    /\ UNCHANGED <<path, owner, mem, disk, busy, frontends, hasty>>

\* Mutant: every process starts from an empty state.
LoadNothing(p) ==
    /\ pc[p] = "load"
    /\ Goes(p, "http")
    /\ UNCHANGED <<path, owner, processVars, disk, refused, disorder, starts>>

\* state.Load, which fails if the file cannot be read.
Load(p) ==
    /\ pc[p] = "load"
    /\ \/ /\ Goes(p, "http")
          /\ mem' = [mem EXCEPT ![p] = disk]
          /\ UNCHANGED <<path, owner, wants, disk, busy, frontends, hasty, refused, disorder,
                         starts>>
       \/ Fails(p)

\* Mutant: a taken HTTPS address is passed over.
BindHTTPOnly(p, e) ==
    /\ pc[p] = e
    /\ IF e \in wants[p] \ {"https"} /\ owner[e] # Nobody
         THEN Refuses(p)
         ELSE /\ Goes(p, IF e = "http" THEN "https" ELSE "lstat")
              /\ owner' = IF e \in wants[p] /\ owner[e] = Nobody
                            THEN [owner EXCEPT ![e] = p] ELSE owner
              /\ UNCHANGED <<path, processVars, disk, refused, disorder, starts>>

\* bindProxyListeners, one address at a time; it may be one that this process is
\* not allowed to bind.
Bind(p, e) ==
    /\ pc[p] = e
    /\ \/ IF e \in wants[p] /\ owner[e] # Nobody
            THEN Refuses(p)
            ELSE /\ Goes(p, IF e = "http" THEN "https" ELSE "lstat")
                 /\ owner' = IF e \in wants[p] THEN [owner EXCEPT ![e] = p] ELSE owner
                 /\ UNCHANGED <<path, processVars, disk, refused, disorder, starts>>
       \/ e \in wants[p] /\ Fails(p)

\* MkdirAll, then Lstat.
Lstat(p) ==
    /\ pc[p] = "lstat"
    /\ \/ IF path = Foreign
            THEN Refuses(p)
            ELSE /\ Goes(p, IF path = Nobody THEN "listen" ELSE "dial")
                 /\ UNCHANGED <<path, owner, processVars, disk, refused, disorder, starts>>
       \/ Fails(p)

\* Somebody answers at the path.
Answered == \E q \in Process : path = q /\ Listens(q)

\* Mutant: the socket is taken for stale without probing it.
DialNobody(p) ==
    /\ pc[p] = "dial"
    /\ Goes(p, "remove")
    /\ UNCHANGED <<path, owner, processVars, disk, refused, disorder, starts>>

\* Whatever error the dial returns, the socket is taken for stale: also when a
\* live daemon does not answer within 500 ms.
Dial(p) ==
    /\ pc[p] = "dial"
    /\ \/ /\ Answered
          /\ Refuses(p)
       \/ /\ Answered => path \in Slow
          /\ Goes(p, "remove")
          /\ disorder' = (disorder \/ Answered)
          /\ UNCHANGED <<path, owner, processVars, disk, refused, starts>>

\* Mutant: a stale socket is left where it is.
RemoveNothing(p) ==
    /\ pc[p] = "remove"
    /\ Goes(p, "listen")
    /\ UNCHANGED <<path, owner, processVars, disk, refused, disorder, starts>>

\* os.Remove takes whatever is at the path by now.
Remove(p) ==
    /\ pc[p] = "remove"
    /\ \/ IF path = Nobody
            THEN Refuses(p)
            ELSE /\ Goes(p, "listen")
                 /\ path' = Nobody
                 /\ UNCHANGED <<owner, processVars, disk, refused, disorder, starts>>
       \/ Fails(p)

Listen(p) ==
    /\ pc[p] = "listen"
    /\ \/ IF path # Nobody
            THEN Refuses(p)
            ELSE /\ Goes(p, "chmod")
                 /\ path' = p
                 /\ UNCHANGED <<owner, processVars, disk, refused, disorder, starts>>
       \/ Fails(p)

\* The daemon's goroutines and the API server start when Listen returns.  When
\* Chmod fails, the listener is closed, which removes what is at its path.
Chmod(p) ==
    /\ pc[p] = "chmod"
    /\ \/ IF path = Nobody
            THEN Refuses(p)
            ELSE /\ Goes(p, "serving")
                 /\ UNCHANGED <<path, owner, processVars, disk, refused, disorder, starts>>
       \/ /\ path' = Nobody
          /\ Exits(p)
          /\ UNCHANGED <<disk, refused, disorder, starts>>

-----------------------------------------------------------------------------
(* Serving. *)

\* A registration comes in from the Docker watcher, until its context is
\* canceled, or over the socket; connections outlive the listener until the
\* server is shut down.
Request(p, origin) ==
    /\ \/ pc[p] = "serving"
       \/ origin = "api" /\ pc[p] \in Stopping /\ (hasty[p] \/ pc[p] = "drain")
    /\ busy' = [busy EXCEPT ![p] = @ \cup {origin}]
    /\ UNCHANGED <<pc, path, owner, wants, mem, disk, frontends, hasty, refused, disorder, starts>>

\* A registration ensures its TCP runtime, at any time before the process ends.
\* A new frontend is remembered and all that is remembered written to the file;
\* the remembered one needs no write if its port is still free.  A frontend
\* that cannot be bound, or written to the file, is not kept.
Register(p, origin, s) ==
    /\ origin \in busy[p]
    /\ busy' = [busy EXCEPT ![p] = @ \ {origin}]
    /\ \/ /\ s \in frontends[p]
          /\ UNCHANGED <<mem, disk, frontends>>
       \/ /\ s \notin frontends[p]
          /\ frontends' = [frontends EXCEPT ![p] = @ \cup {s}]
          /\ mem' = [mem EXCEPT ![p] = @ \cup {s}]
          /\ disk' \in {mem[p] \cup {s}} \cup (IF s \in mem[p] THEN {disk} ELSE {})
       \/ /\ s \notin frontends[p]
          /\ mem' \in {mem, [mem EXCEPT ![p] = @ \cup {s}]}
          /\ UNCHANGED <<disk, frontends>>
    /\ UNCHANGED <<pc, path, owner, wants, hasty, refused, disorder, starts>>

-----------------------------------------------------------------------------
(* Stopping. *)

\* The listener is closed, which removes the file at its path.
CloseListener(p, to) ==
    /\ Goes(p, to)
    /\ path' = Nobody
    /\ disorder' = (disorder \/ ~Alone(p))
    /\ UNCHANGED <<owner, wants, mem, disk, busy, frontends, refused, starts>>

\* A signal cancels the context; httpSrv.Shutdown closes the listener first.
Stop(p) ==
    /\ pc[p] = "serving"
    /\ CloseListener(p, "drain")
    /\ UNCHANGED hasty

\* Serve fails: Run calls Shutdown without a deadline, and neither closes the
\* API's connections nor waits for its handlers.
AcceptFails(p) ==
    /\ pc[p] = "serving"
    /\ CloseListener(p, "waitAll")
    /\ hasty' = [hasty EXCEPT ![p] = TRUE]

\* Mutant: only the end of the handlers ends the wait.
DrainUnbounded(p) ==
    /\ pc[p] = "drain"
    /\ "api" \notin busy[p]
    /\ Goes(p, "wait")
    /\ UNCHANGED <<path, owner, processVars, disk, refused, disorder, starts>>

\* httpSrv.Shutdown returns: the handlers have ended, or time is up.
Drain(p) ==
    /\ pc[p] = "drain"
    /\ Goes(p, "wait")
    /\ hasty' = [hasty EXCEPT ![p] = @ \/ "api" \in busy[p]]
    /\ UNCHANGED <<path, owner, wants, mem, disk, busy, frontends, refused, disorder, starts>>

\* serveProxy returns: the context is canceled, or the listener fails, which is
\* logged and no more.
CloseProxy(p, e) ==
    /\ pc[p] \in Stopping \cup {"serving"}
    /\ owner[e] = p
    /\ owner' = [owner EXCEPT ![e] = Nobody]
    /\ UNCHANGED <<pc, path, processVars, disk, refused, disorder, starts>>

\* Daemon.Shutdown waits for the sweeper, the proxies and the Docker watcher,
\* in the normal case only until the deadline.
Quiet(p) == "docker" \notin busy[p] /\ \A e \in Endpoint : owner[e] # p

Wait(p) ==
    /\ \/ pc[p] = "wait"
       \/ pc[p] = "waitAll" /\ Quiet(p)
    /\ Goes(p, "close")
    /\ hasty' = [hasty EXCEPT ![p] = @ \/ "docker" \in busy[p]]
    /\ UNCHANGED <<path, owner, wants, mem, disk, busy, frontends, refused, disorder, starts>>

\* Mutant: the runtimes are left to the end of the process.
CloseNoRuntimes(p) ==
    /\ pc[p] = "close"
    /\ Goes(p, "save")
    /\ UNCHANGED <<path, owner, processVars, disk, refused, disorder, starts>>

\* CloseAll waits for the mutex of the runtimes; whoever holds it lets go of it
\* (Register is one step: a write of the state file returns).
CloseRuntimes(p) ==
    /\ pc[p] = "close"
    /\ Goes(p, "save")
    /\ frontends' = [frontends EXCEPT ![p] = {}]
    /\ UNCHANGED <<path, owner, wants, mem, disk, busy, hasty, refused, disorder, starts>>

\* State.Save writes all that this process knows, or fails.
Save(p) ==
    /\ pc[p] = "save"
    /\ Goes(p, "unlink")
    /\ disk' \in {disk, mem[p]}
    /\ UNCHANGED <<path, owner, processVars, refused, disorder, starts>>

\* The deferred RemoveSocket, and the end of the process.
RemoveSocket(p) ==
    /\ pc[p] = "unlink"
    /\ path' = Nobody
    /\ Exits(p)
    /\ UNCHANGED <<disk, refused, disorder, starts>>

\* Another program takes a proxy address, or gives it back.
OtherProgram(e) ==
    /\ owner[e] \in {Nobody, Foreign}
    /\ owner' = [owner EXCEPT ![e] = IF @ = Nobody THEN Foreign ELSE Nobody]
    /\ UNCHANGED <<pc, path, processVars, disk, refused, disorder, starts>>

Crash(p) ==
    /\ pc[p] # "off"
    /\ Exits(p)
    /\ disorder' = (disorder \/ ~Alone(p))
    /\ UNCHANGED <<path, disk, refused, starts>>

-----------------------------------------------------------------------------
Init ==
    /\ pc = [p \in Process |-> "off"]
    /\ path \in {Nobody, Foreign}
    /\ owner = [e \in Endpoint |-> Nobody]
    /\ wants = [p \in Process |-> {}]
    /\ mem = [p \in Process |-> {}]
    /\ disk = {}
    /\ busy = [p \in Process |-> {}]
    /\ frontends = [p \in Process |-> {}]
    /\ hasty = [p \in Process |-> FALSE]
    /\ refused = {}
    /\ disorder = FALSE
    /\ starts = 0

StartUp(p) ==
    \/ Load(p) \/ Lstat(p) \/ Dial(p) \/ Remove(p) \/ Listen(p) \/ Chmod(p)
    \/ \E e \in Endpoint : Bind(p, e)

Shutdown(p) == Drain(p) \/ Wait(p) \/ CloseRuntimes(p) \/ Save(p) \/ RemoveSocket(p)

Step(p) ==
    \/ \E c \in Configs : Start(p, c)
    \/ StartUp(p)
    \/ \E origin \in {"api", "docker"} :
          Request(p, origin) \/ \E s \in Service : Register(p, origin, s)
    \/ Stop(p) \/ AcceptFails(p)
    \/ Shutdown(p)
    \/ \E e \in Endpoint : CloseProxy(p, e)
    \/ Crash(p)

Next == (\E p \in Process : Step(p)) \/ (\E e \in Contested : OtherProgram(e))

Spec == Init /\ [][Next]_vars

\* Run proceeds; nothing obliges a registration, or anybody outside, to end.
Fairness == \A p \in Process : WF_vars(StartUp(p)) /\ WF_vars(Shutdown(p))

FairSpec == Spec /\ Fairness

-----------------------------------------------------------------------------
(* Properties. *)

\* The state is well formed.
TypeOK ==
    /\ pc \in [Process -> {"off", "serving"} \cup Starting \cup Stopping]
    /\ path \in Process \cup {Nobody, Foreign}
    /\ owner \in [Endpoint -> Process \cup {Nobody, Foreign}]
    /\ wants \in [Process -> SUBSET Endpoint]
    /\ mem \in [Process -> SUBSET Service]
    /\ disk \subseteq Service
    /\ busy \in [Process -> SUBSET {"api", "docker"}]
    /\ frontends \in [Process -> SUBSET Service]
    /\ hasty \in [Process -> BOOLEAN]
    /\ refused \subseteq Process
    /\ disorder \in BOOLEAN
    /\ starts \in 0 .. MaxStarts

\* Successful startup means that every configured public address is owned, as
\* the Daemon's listeners are documented, whoever else starts or stops meanwhile.
StartupOwnsItsEndpoints ==
    [][\A p \in Process :
          pc[p] \in Starting /\ pc'[p] = "serving" => \A e \in wants'[p] : owner'[e] = p]_vars

\* Clients reach the daemon that serves, and so at most one serves: unless two
\* processes start or stop at the same time, or a live daemon fails to answer a
\* probe, a live socket is never removed.
ServingIsReachable ==
    ~disorder => \A p \in Process : pc[p] = "serving" => path = p

\* Under the same proviso no process loses another's port assignments when it
\* writes the state file from its own memory.
AssignmentsAreKept == [][~disorder' => disk \subseteq disk']_vars

\* Under the same proviso, and unless a system call fails, a daemon refuses to
\* start only where another one serves, another program has an address it wants,
\* or something that is not a socket is in the way: the socket of a crashed daemon
\* is always recovered.
RefusalIsJustified ==
    [][~disorder' => \A p \in refused' \ refused :
          \/ path = Foreign
          \/ \E e \in wants[p] : owner[e] = Foreign
          \/ \E q \in Process \ {p} : pc[q] = "serving"]_vars

\* A shutdown that was not cut short leaves no TCP frontend open and no
\* registration that could open one.
ShutdownClosesFrontends ==
    \A p \in Process :
        pc[p] \in {"save", "unlink"} /\ ~hasty[p] => busy[p] = {} /\ frontends[p] = {}

\* A stop comes to its end although registrations may never return.
ShutdownEnds == \A p \in Process : pc[p] = "drain" ~> pc[p] = "off"

\* The design document (9.3) has stale sockets probed so that nobody deletes "a
\* live daemon's socket", after which it "stays alive but becomes unreachable".
LiveSocketIsKept ==
    [][\A p \in Process :
          pc[p] = "serving" /\ path = p /\ pc'[p] = "serving" => path' = p]_vars

=============================================================================
