------------------------------ MODULE MCDaemon ------------------------------
(* TLC instances of Daemon. *)
EXTENDS Daemon

MCOwnerKey == {<<"manual", "stable">>}

Http(n, host) ==
    [name |-> n, kind |-> "http", host |-> host, source |-> "process", ownerKey |-> NoKey,
     container |-> NoContainer, backend |-> CHOOSE b \in Backend : TRUE, ttl |-> 0]

\* Two hostnames that the registration keeps apart.
MCRequestsTwoHosts ==
    {Http("api", [NoHost EXCEPT !.label = "a"]),
     Http("web", [NoHost EXCEPT !.label = "a", !.dots = 2])}
=============================================================================
