-------------------------- MODULE StableFrontends ---------------------------
(***************************************************************************)
(* What runtime.Manager promises the daemon about TCP frontends, without   *)
(* saying how a port is found: a name gets a port no other name holds,     *)
(* keeps it for the rest of the daemon's run, and loses it only when the   *)
(* whole daemon stops.  A request may also fail and change nothing.        *)
(***************************************************************************)
EXTENDS Functions

CONSTANTS Name, Port

VARIABLES runtimes

-----------------------------------------------------------------------------
Init == runtimes = << >>

Bind(name, port) ==
    /\ name \notin DOMAIN runtimes
    /\ port \notin Range(runtimes)
    /\ runtimes' = [n \in DOMAIN runtimes \cup {name} |->
                      IF n = name THEN port ELSE runtimes[n]]

Stop == runtimes' = << >>

Next ==
    \/ \E name \in Name, port \in Port : Bind(name, port)
    \/ Stop

Spec == Init /\ [][Next]_runtimes

\* Two services never share a frontend port.
PortsDistinct ==
    \A m, n \in DOMAIN runtimes : runtimes[m] = runtimes[n] => m = n

=============================================================================
