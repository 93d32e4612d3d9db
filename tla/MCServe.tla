------------------------------ MODULE MCServe -------------------------------
(* TLC instances of Serve. *)
EXTENDS Serve

\* The compiled defaults, with TTLs in seconds.
Default ==
    [min |-> 15000, max |-> 19999, host |-> TRUE, leaseTTL |-> 15, shutdownTimeout |-> 5,
     http |-> FALSE, cert |-> FALSE, key |-> FALSE,
     httpAddr |-> "numbered", httpsAddr |-> "numbered"]

Proxying == [Default EXCEPT !.http = TRUE, !.cert = TRUE, !.key = TRUE]

\* A second value of every field, at its limit.
MCConfigs ==
    {Default, Proxying,
     [Default EXCEPT !.min = 0], [Default EXCEPT !.max = 65536], [Default EXCEPT !.min = 20000],
     [Default EXCEPT !.host = FALSE], [Default EXCEPT !.leaseTTL = 2],
     [Default EXCEPT !.shutdownTimeout = 0], [Proxying EXCEPT !.key = FALSE],
     [Proxying EXCEPT !.httpAddr = "unsplit"], [Proxying EXCEPT !.httpsAddr = "named"]}
=============================================================================
