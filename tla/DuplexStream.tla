---------------------------- MODULE DuplexStream ----------------------------
(***************************************************************************)
(* What a consumer and a backend may expect of the connection that         *)
(* internal/proxy/tcp.go makes of two: in each direction a reliable stream *)
(* that ends, after all of the data, when its source ends it, whatever     *)
(* happens to the other direction.  Once the connection is cut (a peer     *)
(* vanished, the dial failed, the daemon stops) data may be missing at the *)
(* end of a stream, but nothing is altered, repeated or reordered, and     *)
(* nothing follows an end.                                                 *)
(***************************************************************************)
EXTENDS Naturals, Sequences

CONSTANTS
    Direction,    \* the two ways data flows
    MaxBytes      \* bound on what each side sends

VARIABLES
    sent,         \* per direction: how much of 1, 2, 3, ... was sent
    fin,          \* per direction: the source has ended the stream
    delivered,    \* per direction: what has arrived
    ended,        \* per direction: the end has arrived
    stalled,      \* directions whose receiver has stopped reading
    cut           \* the connection was disturbed

vars == <<sent, fin, delivered, ended, stalled, cut>>

Send(d) ==
    /\ ~fin[d]
    /\ sent[d] < MaxBytes
    /\ sent' = [sent EXCEPT ![d] = @ + 1]
    /\ UNCHANGED <<fin, delivered, ended, stalled, cut>>

Finish(d) ==
    /\ fin' = [fin EXCEPT ![d] = TRUE]
    /\ UNCHANGED <<sent, delivered, ended, stalled, cut>>

Deliver(d) ==
    /\ ~ended[d] /\ d \notin stalled
    /\ Len(delivered[d]) < sent[d]
    /\ delivered' = [delivered EXCEPT ![d] = Append(@, Len(@) + 1)]
    /\ UNCHANGED <<sent, fin, ended, stalled, cut>>

End(d) ==
    /\ ~ended[d]
    /\ cut \/ (fin[d] /\ Len(delivered[d]) = sent[d])
    /\ ended' = [ended EXCEPT ![d] = TRUE]
    /\ UNCHANGED <<sent, fin, delivered, stalled, cut>>

Stall(d) ==
    /\ stalled' = stalled \cup {d}
    /\ UNCHANGED <<sent, fin, delivered, ended, cut>>

Cut ==
    /\ cut' = TRUE
    /\ UNCHANGED <<sent, fin, delivered, ended, stalled>>

Init ==
    /\ sent = [d \in Direction |-> 0]
    /\ fin = [d \in Direction |-> FALSE]
    /\ delivered = [d \in Direction |-> << >>]
    /\ ended = [d \in Direction |-> FALSE]
    /\ stalled = {}
    /\ cut = FALSE

Next ==
    \/ Cut
    \/ \E d \in Direction : Send(d) \/ Finish(d) \/ Deliver(d) \/ End(d) \/ Stall(d)

Spec == Init /\ [][Next]_vars

\* As long as nothing disturbs the connection and its receiver reads, each
\* direction makes progress on its own.
Progress(d) == ~cut /\ (Deliver(d) \/ End(d))

FairSpec == Spec /\ \A d \in Direction : WF_vars(Progress(d))
=============================================================================
