------------------------------ MODULE TcpProxy ------------------------------
(***************************************************************************)
(* internal/proxy/tcp.go: one call of TCP, which joins a consumer's        *)
(* connection to a backend.  Two goroutines copy, one per direction; each  *)
(* half-closes its destination when its source ends; TCP returns, and      *)
(* closes both sockets, when both are done.  Meanwhile the peers send,     *)
(* half-close or vanish, and a shutdown of the daemon may close the        *)
(* client's socket (ServiceRuntime.CloseActiveConnections).                *)
(*                                                                         *)
(* Direction "up" runs from the consumer to the backend, "down" back.      *)
(* The payload of a direction is the sequence 1, 2, 3, ...                 *)
(***************************************************************************)
EXTENDS Naturals, Sequences

CONSTANTS MaxBytes    \* bound on what each peer sends

VARIABLES
    pc,       \* TCP: dialing, copying, returned
    sent,     \* per direction: how much its source has sent
    fin,      \* per direction: the source has half-closed
    buf,      \* per direction: what io.Copy has read and not written
    got,      \* per direction: what arrived at the other end
    copy,     \* per direction: the goroutine copies, is past io.Copy, or is done
    eof,      \* per direction: the other end has seen the end of the stream
    stalled,  \* directions whose receiving peer has stopped reading, for good
    gone,     \* peers that closed or reset their connection altogether
    closed,   \* sockets this process has closed
    shutdown  \* CloseActiveConnections has closed the client's socket

vars == <<pc, sent, fin, buf, got, copy, eof, stalled, gone, closed, shutdown>>

Direction == {"up", "down"}

\* The sockets a direction reads and writes, and who is at their other end.
From(d) == IF d = "up" THEN "client" ELSE "upstream"

To(d) == IF d = "up" THEN "upstream" ELSE "client"

Peer(socket) == IF socket = "client" THEN "consumer" ELSE "backend"

Broken(socket) == socket \in closed \/ Peer(socket) \in gone

ASSUME BytesAssumption == MaxBytes \in Nat

-----------------------------------------------------------------------------
(* The worker. *)

Dial ==
    /\ pc = "dial"
    /\ pc' = "copy"
    /\ UNCHANGED <<sent, fin, buf, got, copy, eof, stalled, gone, closed, shutdown>>

\* The backend refuses, or does not answer within dialTimeout.
DialFails ==
    /\ pc = "dial"
    /\ pc' = "returned"
    /\ closed' = closed \cup {"client"}
    /\ UNCHANGED <<sent, fin, buf, got, copy, eof, stalled, gone, shutdown>>

Unread(d) == sent[d] > Len(got[d]) + Len(buf[d])

EndCopy(d) == copy' = [copy EXCEPT ![d] = "halfClose"]

\* Mutant: an error on the source is not the end.
ReadIgnoringErrors(d) ==
    /\ pc = "copy"
    /\ copy[d] = "copy"
    /\ buf[d] = << >>
    /\ \/ /\ Unread(d) /\ From(d) \notin closed
          /\ buf' = [buf EXCEPT ![d] = <<Len(got[d]) + 1>>]
          /\ UNCHANGED copy
       \/ /\ ~Unread(d) /\ fin[d]
          /\ EndCopy(d)
          /\ UNCHANGED buf
    /\ UNCHANGED <<pc, sent, fin, got, eof, stalled, gone, closed, shutdown>>

\* io.Copy reads: the next data, or the end of the stream, or an error.
Read(d) ==
    /\ pc = "copy"
    /\ copy[d] = "copy"
    /\ buf[d] = << >>
    /\ \/ /\ Unread(d) /\ From(d) \notin closed
          /\ buf' = [buf EXCEPT ![d] = <<Len(got[d]) + 1>>]
          /\ UNCHANGED copy
       \/ /\ ~Unread(d) /\ fin[d]
          /\ EndCopy(d)
          /\ UNCHANGED buf
       \/ /\ Broken(From(d))
          /\ EndCopy(d)
          /\ UNCHANGED buf
    /\ UNCHANGED <<pc, sent, fin, got, eof, stalled, gone, closed, shutdown>>

\* io.Copy writes.  A write blocks when the receiver does not read; a failed one
\* ends the copying and loses what it had read.
Write(d) ==
    /\ copy[d] = "copy"
    /\ buf[d] # << >>
    /\ d \notin stalled \/ Broken(To(d))
    /\ buf' = [buf EXCEPT ![d] = << >>]
    /\ IF Broken(To(d))
         THEN EndCopy(d) /\ UNCHANGED got
         ELSE got' = [got EXCEPT ![d] = Append(@, Head(buf[d]))] /\ UNCHANGED copy
    /\ UNCHANGED <<pc, sent, fin, eof, stalled, gone, closed, shutdown>>

\* Mutant: the destination is not half-closed.
HalfCloseForgotten(d) ==
    /\ copy[d] = "halfClose"
    /\ copy' = [copy EXCEPT ![d] = "done"]
    /\ UNCHANGED <<pc, sent, fin, buf, got, eof, stalled, gone, closed, shutdown>>

\* CloseWrite on the destination.
HalfClose(d) ==
    /\ copy[d] = "halfClose"
    /\ copy' = [copy EXCEPT ![d] = "done"]
    /\ eof' = [eof EXCEPT ![d] = @ \/ ~Broken(To(d))]
    /\ UNCHANGED <<pc, sent, fin, buf, got, stalled, gone, closed, shutdown>>

\* Mutant: TCP returns when one direction is done.
ReturnAfterOne ==
    /\ pc = "copy"
    /\ \E d \in Direction : copy[d] = "done"
    /\ pc' = "returned"
    /\ closed' = {"client", "upstream"}
    /\ copy' = [d \in Direction |-> "done"]
    /\ eof' = [d \in Direction |-> TRUE]
    /\ UNCHANGED <<sent, fin, buf, got, stalled, gone, shutdown>>

\* Both goroutines have reported; the deferred calls close both sockets.
Return ==
    /\ pc = "copy"
    /\ \A d \in Direction : copy[d] = "done"
    /\ pc' = "returned"
    /\ closed' = {"client", "upstream"}
    /\ UNCHANGED <<sent, fin, buf, got, copy, eof, stalled, gone, shutdown>>

-----------------------------------------------------------------------------
(* The rest of the daemon, and the peers. *)

CloseActiveConnection ==
    /\ ~shutdown
    /\ shutdown' = TRUE
    /\ closed' = closed \cup {"client"}
    /\ UNCHANGED <<pc, sent, fin, buf, got, copy, eof, stalled, gone>>

\* A peer can send once its connection exists.
Connected(d) == d = "up" \/ pc = "copy"

PeerSends(d) ==
    /\ Connected(d)
    /\ ~fin[d] /\ Peer(From(d)) \notin gone
    /\ sent[d] < MaxBytes
    /\ sent' = [sent EXCEPT ![d] = @ + 1]
    /\ UNCHANGED <<pc, fin, buf, got, copy, eof, stalled, gone, closed, shutdown>>

PeerHalfCloses(d) ==
    /\ Connected(d)
    /\ ~fin[d] /\ Peer(From(d)) \notin gone
    /\ fin' = [fin EXCEPT ![d] = TRUE]
    /\ UNCHANGED <<pc, sent, buf, got, copy, eof, stalled, gone, closed, shutdown>>

\* The receiver of d reads no more, and its buffers and the daemon's are full.
PeerStalls(d) ==
    /\ stalled' = stalled \cup {d}
    /\ UNCHANGED <<pc, sent, fin, buf, got, copy, eof, gone, closed, shutdown>>

PeerVanishes(d) ==
    /\ Connected(d)
    /\ gone' = gone \cup {Peer(From(d))}
    /\ UNCHANGED <<pc, sent, fin, buf, got, copy, eof, stalled, closed, shutdown>>

-----------------------------------------------------------------------------
Init ==
    /\ pc = "dial"
    /\ sent = [d \in Direction |-> 0]
    /\ fin = [d \in Direction |-> FALSE]
    /\ buf = [d \in Direction |-> << >>]
    /\ got = [d \in Direction |-> << >>]
    /\ copy = [d \in Direction |-> "copy"]
    /\ eof = [d \in Direction |-> FALSE]
    /\ stalled = {} /\ gone = {} /\ closed = {} /\ shutdown = FALSE

Pump(d) == Read(d) \/ Write(d) \/ HalfClose(d)

Next ==
    \/ Dial \/ DialFails \/ Return \/ CloseActiveConnection
    \/ \E d \in Direction : Pump(d) \/ PeerSends(d) \/ PeerHalfCloses(d) \/ PeerStalls(d) \/ PeerVanishes(d)

Spec == Init /\ [][Next]_vars

\* The worker's goroutines run on, unless a write blocks.  Nothing obliges a
\* peer to do anything, reading included.
Fairness ==
    /\ WF_vars(Dial \/ DialFails)
    /\ \A d \in Direction : WF_vars(Pump(d))
    /\ WF_vars(Return)

FairSpec == Spec /\ Fairness

-----------------------------------------------------------------------------
(* Properties. *)

\* The state is well formed.
TypeOK ==
    /\ pc \in {"dial", "copy", "returned"}
    /\ sent \in [Direction -> 0 .. MaxBytes]
    /\ fin \in [Direction -> BOOLEAN] /\ eof \in [Direction -> BOOLEAN]
    /\ buf \in [Direction -> Seq(1 .. MaxBytes)] /\ got \in [Direction -> Seq(1 .. MaxBytes)]
    /\ copy \in [Direction -> {"copy", "halfClose", "done"}]
    /\ stalled \subseteq Direction
    /\ gone \subseteq {"consumer", "backend"}
    /\ closed \subseteq {"client", "upstream"}
    /\ shutdown \in BOOLEAN

\* What arrives is what was sent, in order and without gaps, whichever side
\* fails when.
StreamIsFaithful ==
    \A d \in Direction :
        /\ Len(got[d]) <= sent[d]
        /\ \A i \in 1 .. Len(got[d]) : got[d][i] = i

\* Nobody interfered: both peers are there and the daemon is not stopping.
Undisturbed == gone = {} /\ ~shutdown

\* A peer that sees the end of the stream has received all that was sent: a
\* half-close overtakes no data, and the end of one direction does not cut off
\* the other (PostgreSQL, Redis and SMTP rely on it, tcp.go:14-15).
EndMeansComplete ==
    \A d \in Direction :
        eof[d] /\ Undisturbed => fin[d] /\ Len(got[d]) = sent[d]

\* The connection was disturbed: a peer vanished, the daemon is stopping, or
\* the backend could not be reached.
Disturbed ==
    gone # {} \/ shutdown \/ (pc = "returned" /\ "upstream" \notin closed)

Stream == INSTANCE DuplexStream
            WITH delivered <- got, ended <- eof, cut <- Disturbed

\* The two goroutines, their buffers and their sockets together are one
\* two-way stream: data and half-closes get through in both directions, as long
\* as the receiver reads, also when the other direction has ended or is stuck,
\* and nothing follows an end.
ImplementsDuplexStream == Stream!FairSpec

\* Once the client's socket is closed and the backend has hung up, the worker
\* ends and closes the backend connection; unless the backend only ended its
\* own stream and does not read, so that the other goroutine is stuck in a write
\* that closing the client's socket does not interrupt.
WorkerEndsWithBackend ==
    (shutdown /\ pc = "copy" /\ (fin["down"] \/ "backend" \in gone))
        ~> (pc = "returned" \/ ("up" \in stalled /\ "backend" \notin gone))

\* service.go:153-154: CloseActiveConnections closes the client's socket,
\* "proxy.TCP then closes its upstream connection through its existing defer
\* path".
ShutdownClosesUpstream == (shutdown /\ pc = "copy") ~> "upstream" \in closed
=============================================================================
