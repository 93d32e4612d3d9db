---------------------------- MODULE MCConsumers -----------------------------
(* TLC instances of Consumers. *)
EXTENDS Consumers

Stable == <<"manual", "stable">>

MCOwnerKey == {Stable}

Plain(l) == [NoHost EXCEPT !.label = l]

Dotted(l) == [Plain(l) EXCEPT !.dots = 1]

Bracketed(l) == [Plain(l) EXCEPT !.open = TRUE, !.close = TRUE]

WithPort80(l) == [Plain(l) EXCEPT !.port = TRUE]

Req(n, k, h, s, o, c, b, t) ==
    [name |-> n, kind |-> k, host |-> h, source |-> s, ownerKey |-> o,
     container |-> c, backend |-> b, ttl |-> t]

\* One name that a process, a registration with an owner key and two containers
\* of the same owner contend for; another that is now HTTP, now TCP, and whose
\* hostname is the first one's, to everybody or to the router only; no hostname,
\* and one with a port.
\* The TTL 9 overflows and is rejected; 17 wraps around to 1, which is permitted.
MCRequests ==
    {Req("api", "http", Plain("a"), "manual", Stable, NoContainer, "b1", 17),
     Req("api", "http", Dotted("a"), "docker", Stable, "c1", "b2", 0),
     Req("api", "http", Dotted("a"), "docker", Stable, "c2", "b2", 0),
     Req("api", "http", Plain("a"), "process", NoKey, NoContainer, "b1", 0),
     Req("api", "http", Dotted(""), "process", NoKey, NoContainer, "b1", 0),
     Req("api", "http", WithPort80("a"), "process", NoKey, NoContainer, "b1", 0),
     Req("web", "http", Plain("a"), "process", NoKey, NoContainer, "b3", 0),
     Req("web", "http", Bracketed("a"), "process", NoKey, NoContainer, "b3", 0),
     Req("web", "tcp", NoHost, "process", NoKey, NoContainer, "b3", 0),
     Req("web", "tcp", NoHost, "process", NoKey, NoContainer, "b3", 9)}

MCHostHeader == {[Dotted("a") EXCEPT !.port = TRUE]}

MCCommandLines == [name : {"web"}, raw : BOOLEAN, wait : {TRUE}]

\* Registration IDs are handed out in order; their values do not matter.
IDsInOrder == "r2" \in used => "r1" \in used

\* Consumers change nothing that others read, so one at a time is enough.
OneConsumer ==
    \/ \A x \in Request : requests[x] = NoRequest
    \/ \A c \in Command : commands[c] = NoCommand

=============================================================================
