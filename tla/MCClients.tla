----------------------------- MODULE MCClients ------------------------------
(* TLC instances of Clients. *)
EXTENDS Clients, FiniteSets

\* Producers register the same TCP name, without an owner key.
MCRequest ==
    [c \in Client |->
        [name |-> "db", kind |-> "tcp", host |-> NoHost, source |-> "process",
         ownerKey |-> NoKey, container |-> NoContainer, backend |-> "b1", ttl |-> 0]]

MCRequests == {MCRequest[c] : c \in Client}

\* Registration IDs are opaque: draw them in order.
IDsInOrder == used = 1 .. Cardinality(used)
=============================================================================
