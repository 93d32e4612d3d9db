----------------------------- MODULE Frontends ------------------------------
(***************************************************************************)
(* runtime.Manager and its Allocator over state.Store: how a TCP service   *)
(* gets its frontend port.  EnsureTCPRuntime holds Manager.mu throughout,  *)
(* so one allocation runs at a time, but every net.Listen in it races with *)
(* the other processes of the machine, every write of state.json may fail, *)
(* and the daemon may be killed between any two steps.                     *)
(***************************************************************************)
EXTENDS Naturals, Functions

CONSTANTS
    Name,
    PortMin, PortMax,   \* cfg.TCPFrontendMin, cfg.TCPFrontendMax
    Preferred,          \* the PreferredPort values producers ask for; 0 is none
    Hash                \* the FNV-1a sum of each name

VARIABLES
    runtimes,    \* Manager.runtimes: the port each live listener is bound to
    ports, dirty, file, readable,
    allocating,  \* the call of Allocate in progress, if any
    taken,       \* ports that listeners of other processes occupy
    told         \* ghost: the frontend consumers were last told, see Try

storeVars == <<ports, dirty, file, readable>>
vars == <<runtimes, storeVars, allocating, taken, told>>

Store == INSTANCE StateStore

ASSUME RangeAssumption ==
    /\ PortMin \in Nat \ {0} /\ PortMax \in Nat /\ PortMin <= PortMax

ASSUME PreferredAssumption == Preferred \subseteq Nat

ASSUME HashAssumption == Hash \in [Name -> Nat]

Port == (PortMin .. PortMax) \cup (Preferred \ {0})

-----------------------------------------------------------------------------
(* Allocate: the candidates, in order: the remembered port, the preferred  *)
(* port, and the whole range from an offset that depends on the name.      *)

Size == PortMax - PortMin + 1

startOffset(name) == Hash[name] % Size

Allocation ==
    [name : Name, remembered : Port \cup {0}, preferred : Preferred,
     attempt : Nat \ {0}, refused : SUBSET Port]

\* Mutant: the scan stops one port early.
ScanEndsEarly == Size + 1

LastAttempt == Size + 2

\* Mutant: the preferred port comes before the remembered one.
CandidatePreferredFirst(a, attempt) ==
    CASE attempt = 1 -> a.preferred
      [] attempt = 2 -> a.remembered
      [] OTHER -> PortMin + ((startOffset(a.name) + (attempt - 3)) % Size)

Candidate(a, attempt) ==
    CASE attempt = 1 -> a.remembered
      [] attempt = 2 -> a.preferred
      [] OTHER -> PortMin + ((startOffset(a.name) + (attempt - 3)) % Size)

Current(a) == Candidate(a, a.attempt)

\* Zero means no such port, and the scan does not repeat the first two.
Skipped(a) ==
    \/ Current(a) = 0
    \/ a.attempt > 2 /\ Current(a) \in {a.remembered, a.preferred}

Busy(port) == port \in taken \cup Range(runtimes)

-----------------------------------------------------------------------------
\* Mutant: a live runtime is not looked up.
EnsureTCPRuntimeAgain(name, preferred) ==
    /\ allocating = {}
    /\ allocating' = {[name |-> name, remembered |-> ports[name], preferred |-> preferred,
                       attempt |-> 1, refused |-> {}]}
    /\ UNCHANGED <<runtimes, storeVars, taken, told>>

\* A name that has a runtime gets it back and nothing changes.
EnsureTCPRuntime(name, preferred) ==
    /\ allocating = {}
    /\ name \notin DOMAIN runtimes
    /\ allocating' = {[name |-> name, remembered |-> ports[name], preferred |-> preferred,
                       attempt |-> 1, refused |-> {}]}
    /\ UNCHANGED <<runtimes, storeVars, taken, told>>

\* net.Listen fails on a port that is in use.  Once the port consumers were
\* told of is refused, the service has to move.
Refuse(a) ==
    /\ allocating' = {[a EXCEPT !.attempt = @ + 1, !.refused = @ \cup {Current(a)}]}
    /\ told' = IF told[a.name] = Current(a) THEN [told EXCEPT ![a.name] = 0] ELSE told
    /\ UNCHANGED <<runtimes, storeVars, taken>>

Bound(name, port) ==
    runtimes' = [n \in DOMAIN runtimes \cup {name} |-> IF n = name THEN port ELSE runtimes[n]]

\* The listener is kept if its assignment is remembered durably, and closed
\* otherwise.
Grant(a) ==
    /\ \E saved \in BOOLEAN :
         /\ Store!SetPort(a.name, Current(a), saved)
         /\ IF saved THEN Bound(a.name, Current(a)) ELSE UNCHANGED runtimes
         /\ told' = IF saved THEN [told EXCEPT ![a.name] = Current(a)] ELSE told
    /\ allocating' = {}
    /\ UNCHANGED taken

\* One iteration of Allocate.
Try(a) ==
    /\ a.attempt <= LastAttempt
    /\ \/ /\ Skipped(a)
          /\ allocating' = {[a EXCEPT !.attempt = @ + 1]}
          /\ UNCHANGED <<runtimes, storeVars, taken, told>>
       \/ ~Skipped(a) /\ Busy(Current(a)) /\ Refuse(a)
       \/ ~Skipped(a) /\ ~Busy(Current(a)) /\ Grant(a)

\* ErrPortExhausted.
Exhaust(a) ==
    /\ a.attempt > LastAttempt
    /\ allocating' = {}
    /\ UNCHANGED <<runtimes, storeVars, taken, told>>

\* Daemon.Shutdown: the listeners are closed, then the state is flushed.  A
\* registration still in the API server may bind a new one afterwards.
Shutdown ==
    /\ allocating = {}
    /\ runtimes' = << >>
    /\ \E saved \in BOOLEAN : Store!Save(saved)
    /\ UNCHANGED <<allocating, taken, told>>

\* The process ends, orderly or not, and a new daemon loads the file.
Restart ==
    /\ runtimes' = << >>
    /\ allocating' = {}
    /\ Store!Load
    /\ told' = IF readable THEN told ELSE Store!NoPorts
    /\ UNCHANGED taken

-----------------------------------------------------------------------------
(* The environment. *)

OtherProcessBinds(port) ==
    /\ ~Busy(port)
    /\ taken' = taken \cup {port}
    /\ UNCHANGED <<runtimes, storeVars, allocating, told>>

OtherProcessCloses(port) ==
    /\ port \in taken
    /\ taken' = taken \ {port}
    /\ UNCHANGED <<runtimes, storeVars, allocating, told>>

\* state.json is damaged by hand or by the file system.
Damage ==
    /\ readable
    /\ readable' = FALSE
    /\ UNCHANGED <<runtimes, ports, dirty, file, allocating, taken, told>>

Init ==
    /\ runtimes = << >>
    /\ Store!Init
    /\ allocating = {}
    /\ taken = {}
    /\ told = Store!NoPorts

Next ==
    \/ \E name \in Name, preferred \in Preferred : EnsureTCPRuntime(name, preferred)
    \/ \E a \in allocating : Try(a) \/ Exhaust(a)
    \/ Shutdown
    \/ Restart
    \/ \E port \in Port : OtherProcessBinds(port) \/ OtherProcessCloses(port)
    \/ Damage

Spec == Init /\ [][Next]_vars

-----------------------------------------------------------------------------
(* Properties. *)

\* The state is well formed; in particular no listener is bound to port 0.
TypeOK ==
    /\ DOMAIN runtimes \subseteq Name
    /\ \A n \in DOMAIN runtimes : runtimes[n] \in Port
    /\ ports \in [Name -> Port \cup {0}]
    /\ dirty \in BOOLEAN
    /\ file \in [Name -> Port \cup {0}]
    /\ readable \in BOOLEAN
    /\ allocating \subseteq Allocation
    /\ taken \subseteq Port
    /\ told \in [Name -> Port \cup {0}]

Abstract == INSTANCE StableFrontends

\* The promise the daemon builds on: a name keeps one port, no two names share
\* one, and listeners disappear only all together.
ImplementsStableFrontends == Abstract!Spec

\* allocator.go: a frontend "is not successful until its remembered assignment
\* is durable".  Whatever writes failed before, a daemon that dies now and
\* restarts remembers the port of every running service.
AssignmentIsDurable ==
    \A n \in DOMAIN runtimes : readable => file[n] = runtimes[n]

\* A service that comes back after any number of crashes, restarts and failed
\* writes gets the port consumers were last told, unless a bind of that port
\* was refused since, or the state file was unreadable.
FrontendSurvivesRestart ==
    [][\A n \in DOMAIN runtimes' \ DOMAIN runtimes :
          told[n] # 0 => runtimes'[n] = told[n]]_runtimes

\* Exhaustion is reported only after every port of the range was refused.
ExhaustedMeansFull ==
    \A a \in allocating : a.attempt > LastAttempt => PortMin .. PortMax \subseteq a.refused

=============================================================================
