-------------------------- MODULE MCDockerWatcher ---------------------------
(* TLC instances of DockerWatcher. *)
EXTENDS DockerWatcher, TLC

Labeled(service) ==
    [enable |-> TRUE, name |-> "db", containerPort |-> 5432, kind |-> "", preferredPort |-> {},
     project |-> "shop", service |-> service]

Scaled == [name |-> "", labels |-> Labeled("db"), addresses |-> <<"127.0.0.1">>]

DualStack == [Scaled EXCEPT !.addresses = <<"::1", "127.0.0.1">>]

Mixed == [Scaled EXCEPT !.addresses = <<"127.0.0.1", "0.0.0.0">>]

Disabled == [Scaled EXCEPT !.labels.enable = FALSE]

\* Not managed by Compose, so an owner of its own; the preferred port is no port.
Mislabeled == [name |-> "other", labels |-> [Labeled("") EXCEPT !.preferredPort = {0}],
               addresses |-> <<"127.0.0.1">>]

\* c1 and c2 are containers of one Compose service, or c2 is not fit to be
\* published; a process may take the name, too.
MCCreations == ("c1" :> {DualStack}) @@ ("c2" :> {Scaled, Mixed, Disabled, Mislabeled})

MCCreationsScaled == ("c1" :> {DualStack}) @@ ("c2" :> {Scaled})
=============================================================================
