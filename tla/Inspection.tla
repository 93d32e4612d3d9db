----------------------------- MODULE Inspection -----------------------------
(***************************************************************************)
(* internal/dockerwatch/labels.go and inspect.go: what a container's       *)
(* labels and published ports make of it.                                  *)
(*                                                                         *)
(* Labels are a record.  A containerPort that is absent or not a number is *)
(* 0, which is refused like it; preferredPort is a set with at most one    *)
(* element.  The bindings of the managed port are a sequence of addresses  *)
(* with host ports; NoPort is a host port Docker has not filled in.        *)
(***************************************************************************)
EXTENDS Integers, Sequences, FiniteSetsExt

NoPort == 0

Port == 1 .. 65535

Kind(labels) == IF labels.kind = "" THEN "tcp" ELSE labels.kind

WellFormed(labels) ==
    /\ labels.name # ""
    /\ labels.containerPort \in Port
    /\ Kind(labels) \in {"tcp", "http"}
    /\ labels.preferredPort \subseteq Port

\* ParseLabels: "disabled" is no error, "invalid" is one.
ParseLabels(labels) ==
    CASE ~labels.enable -> "disabled"
      [] labels.enable /\ ~WellFormed(labels) -> "invalid"
      [] OTHER -> "managed"

\* The identity that survives the container: the Compose service, or else the
\* container's name, and the port.
OwnerKey(name, labels) ==
    IF labels.project # "" /\ labels.service # ""
      THEN <<labels.project, labels.service, labels.containerPort>>
      ELSE <<IF name = "" THEN "unknown" ELSE name, labels.containerPort>>

\* net.IP.IsLoopback, of one loopback address of each family and any others.
isLoopbackIP(host) == host \in {"127.0.0.1", "::1"}

IsLoopback(binding) == isLoopbackIP(binding.ip)

\* The first loopback binding, or else the first.
Chosen(bindings) ==
    LET local == {i \in DOMAIN bindings : IsLoopback(bindings[i])}
    IN  bindings[IF local # {} THEN Min(local) ELSE 1]

\* An allowed binding elsewhere is reached through loopback all the same.
Backend(binding) ==
    [host |-> IF IsLoopback(binding) THEN binding.ip ELSE "127.0.0.1", port |-> binding.port]

\* Mutant: the chosen binding is looked at, the others are not.
RefusedChosen(bindings, allowNonLoopback) ==
    ~allowNonLoopback /\ ~IsLoopback(Chosen(bindings))

\* ErrNonLoopback: one binding the LAN can reach is enough.
Refused(bindings, allowNonLoopback) ==
    ~allowNonLoopback /\ \E i \in DOMAIN bindings : ~IsLoopback(bindings[i])

\* RegistrationFromInspect: the errors, in the order they are found, or "ok".
RegistrationFromInspect(labels, bindings, allowNonLoopback) ==
    IF ParseLabels(labels) # "managed" THEN "notManaged"
    ELSE IF bindings = << >> THEN "notPublished"
    ELSE IF Refused(bindings, allowNonLoopback) THEN "nonLoopback"
    ELSE IF Chosen(bindings).port = NoPort THEN "notPublished"
    ELSE "ok"
=============================================================================
