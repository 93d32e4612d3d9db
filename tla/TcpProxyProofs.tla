--------------------------- MODULE TcpProxyProofs ---------------------------
(***************************************************************************)
(* Proofs about TcpProxy, for any amount of data: what arrives is what was *)
(* sent, an end means that all of it arrived, and one call of TCP          *)
(* implements the safety part of DuplexStream.                             *)
(***************************************************************************)
EXTENDS TcpProxy, TLAPS

-----------------------------------------------------------------------------
(* The inductive invariant. *)

\* What io.Copy holds is the next datum, and there is such a datum.
BufferIsNext(d) ==
    \/ buf[d] = << >>
    \/ /\ buf[d] = <<Len(got[d]) + 1>>
       /\ Len(got[d]) < sent[d]
       /\ copy[d] = "copy"
       /\ pc = "copy"

\* What has arrived is a prefix of what was sent.
GotIsPrefix(d) ==
    /\ Len(got[d]) <= sent[d]
    /\ \A i \in 1 .. Len(got[d]) : got[d][i] = i

\* A goroutine that left io.Copy undisturbed has copied everything.
CopiedAll(d) ==
    copy[d] # "copy" /\ ~Disturbed => fin[d] /\ Len(got[d]) = sent[d]

\* The end is passed on by the goroutine's last step.
EndIsLast(d) == eof[d] => copy[d] = "done"

\* This process closes a socket early only when disturbed, and returns
\* undisturbed only when both goroutines are done.
ClosesLate ==
    ~Disturbed =>
        /\ pc # "returned" => closed = {}
        /\ pc = "returned" => \A d \in Direction : copy[d] = "done"

\* The backend's socket is closed by the return that follows the copying, and
\* without a backend connection nothing is copied.
CopiesWhenDialed ==
    /\ "upstream" \in closed => pc = "returned"
    /\ pc = "dial" \/ (pc = "returned" /\ "upstream" \notin closed)
         => \A d \in Direction : copy[d] = "copy"

IInv ==
    /\ TypeOK
    /\ \A d \in Direction :
          BufferIsNext(d) /\ GotIsPrefix(d) /\ CopiedAll(d) /\ EndIsLast(d)
    /\ ClosesLate
    /\ CopiesWhenDialed

-----------------------------------------------------------------------------
\* At the start nothing was sent, so nothing is missing.
LEMMA InitInv == Init => IInv
  <1> SUFFICES ASSUME Init PROVE IInv
    OBVIOUS
  <1>1. TypeOK
    <2>1. 0 \in 0 .. MaxBytes /\ << >> \in Seq(1 .. MaxBytes)
      BY BytesAssumption
    <2> QED
      BY <2>1, Zenon DEF Init, TypeOK
  <1>2. \A d \in Direction :
           BufferIsNext(d) /\ GotIsPrefix(d) /\ CopiedAll(d) /\ EndIsLast(d)
    BY DEF Init, BufferIsNext, GotIsPrefix, CopiedAll, EndIsLast
  <1> QED
    BY <1>1, <1>2 DEF Init, IInv, ClosesLate, CopiesWhenDialed

\* The goroutine of direction d reads: the datum it gets is the next one.
LEMMA ReadInv ==
  ASSUME IInv, NEW d \in Direction, Read(d)
  PROVE  IInv'
  <1> USE DEF IInv
  <1>1. TypeOK'
    <2>1. Unread(d) => <<Len(got[d]) + 1>> \in Seq(1 .. MaxBytes)
      <3>1. Unread(d) /\ buf[d] = << >> => Len(got[d]) + 1 \in 1 .. MaxBytes
        BY BytesAssumption DEF TypeOK, Unread
      <3> QED
        BY <3>1 DEF Read
    <2> QED
      BY <2>1, Zenon DEF Read, TypeOK, EndCopy
  <1>2. ClosesLate' /\ (Disturbed' <=> Disturbed)
    BY DEF Read, IInv, TypeOK, EndCopy, ClosesLate, Disturbed
  <1>4. CopiesWhenDialed'
    BY DEF Read, TypeOK, EndCopy, CopiesWhenDialed
  <1>3. ASSUME NEW e \in Direction
        PROVE  (BufferIsNext(e) /\ GotIsPrefix(e) /\ CopiedAll(e) /\ EndIsLast(e))'
    <2>1. BufferIsNext(e)'
      BY DEF Read, TypeOK, EndCopy, BufferIsNext, Unread
    <2>2. GotIsPrefix(e)'
      BY DEF Read, GotIsPrefix
    <2>3. ASSUME Broken(From(d)) PROVE Disturbed
      BY <2>3 DEF Read, Broken, Disturbed, ClosesLate
    <2>4. CopiedAll(e)'
      BY <1>2, <2>3 DEF Read, TypeOK, EndCopy, CopiedAll, Unread, GotIsPrefix
    <2>5. EndIsLast(e)'
      BY DEF Read, TypeOK, EndCopy, EndIsLast
    <2> QED
      BY <2>1, <2>2, <2>4, <2>5
  <1> QED
    BY <1>1, <1>2, <1>3, <1>4 DEF IInv

\* The goroutine writes what it holds: the prefix grows by the next datum.
LEMMA WriteInv ==
  ASSUME IInv, NEW d \in Direction, Write(d)
  PROVE  IInv'
  <1> USE DEF IInv
  <1>a. /\ buf[d] = <<Len(got[d]) + 1>>
        /\ Head(buf[d]) = Len(got[d]) + 1
        /\ Len(got[d]) < sent[d]
    BY DEF Write, BufferIsNext
  <1>1. TypeOK'
    <2>1. Head(buf[d]) \in 1 .. MaxBytes
      BY <1>a, BytesAssumption DEF TypeOK
    <2>2. Append(got[d], Head(buf[d])) \in Seq(1 .. MaxBytes)
      BY <2>1 DEF TypeOK
    <2>3. << >> \in Seq(1 .. MaxBytes)
      OBVIOUS
    <2>4. buf' \in [Direction -> Seq(1 .. MaxBytes)]
      BY <2>3 DEF Write, TypeOK
    <2>5. got' \in [Direction -> Seq(1 .. MaxBytes)]
      BY <2>2, Zenon DEF Write, TypeOK
    <2> QED
      BY <2>4, <2>5, Zenon DEF Write, TypeOK, EndCopy
  <1>2. ClosesLate' /\ (Disturbed' <=> Disturbed)
    BY DEF Write, IInv, TypeOK, EndCopy, ClosesLate, Disturbed
  <1>4. CopiesWhenDialed'
    BY DEF Write, TypeOK, EndCopy, CopiesWhenDialed, BufferIsNext
  <1>3. ASSUME NEW e \in Direction
        PROVE  (BufferIsNext(e) /\ GotIsPrefix(e) /\ CopiedAll(e) /\ EndIsLast(e))'
    <2>1. BufferIsNext(e)'
      BY DEF Write, TypeOK, EndCopy, BufferIsNext
    <2>2. GotIsPrefix(e)'
      <3> DEFINE longer == Append(got[d], Len(got[d]) + 1)
      <3>1. Len(got[d]) \in Nat /\ got[d] \in Seq(1 .. MaxBytes)
        BY DEF TypeOK
      <3>2. Len(longer) = Len(got[d]) + 1 /\ \A i \in 1 .. Len(longer) : longer[i] = i
        BY <3>1 DEF GotIsPrefix
      <3>3. got'[e] = got[e] \/ (e = d /\ got'[e] = longer)
        BY <1>a DEF Write, TypeOK
      <3>4. sent' = sent
        BY DEF Write
      <3>5. CASE got'[e] = got[e]
        BY <3>4, <3>5 DEF GotIsPrefix
      <3>6. CASE e = d /\ got'[e] = longer
        <4>1. Len(got'[e]) <= sent'[e]
          BY <1>a, <3>1, <3>2, <3>4, <3>6 DEF TypeOK
        <4> QED
          BY <3>2, <3>6, <4>1 DEF GotIsPrefix
      <3> QED
        BY <3>3, <3>5, <3>6
    <2>3. ASSUME Broken(To(d)) PROVE Disturbed
      BY <2>3 DEF Write, BufferIsNext, Broken, Disturbed, ClosesLate
    <2>4. CopiedAll(e)'
      BY <1>2, <2>3, Zenon DEF Write, TypeOK, EndCopy, CopiedAll
    <2>5. EndIsLast(e)'
      BY DEF Write, TypeOK, EndCopy, EndIsLast
    <2> QED
      BY <2>1, <2>2, <2>4, <2>5
  <1> QED
    BY <1>1, <1>2, <1>3, <1>4 DEF IInv

\* A half-close, a dial, a return or a shutdown moves no data.
LEMMA QuietInv ==
  ASSUME IInv,
         \/ \E d \in Direction : HalfClose(d)
         \/ Dial \/ DialFails \/ Return \/ CloseActiveConnection
  PROVE  IInv'
  <1>1. TypeOK'
    BY Zenon DEF HalfClose, Dial, DialFails, Return, CloseActiveConnection, IInv, TypeOK
  <1>2. ClosesLate' /\ (Disturbed => Disturbed')
    BY Zenon DEF HalfClose, Dial, DialFails, Return, CloseActiveConnection, IInv, TypeOK, ClosesLate,
           Disturbed, Direction
  <1>4. CopiesWhenDialed'
    BY DEF HalfClose, Dial, DialFails, Return, CloseActiveConnection, IInv, TypeOK,
           CopiesWhenDialed
  <1>3. ASSUME NEW e \in Direction
        PROVE  (BufferIsNext(e) /\ GotIsPrefix(e) /\ CopiedAll(e) /\ EndIsLast(e))'
    BY <1>2, <1>3, Zenon
    DEF HalfClose, Dial, DialFails, Return, CloseActiveConnection, IInv, TypeOK,
        BufferIsNext, GotIsPrefix, CopiedAll, EndIsLast
  <1> QED
    BY <1>1, <1>2, <1>3, <1>4 DEF IInv

\* A peer sends only before it ends its stream.
LEMMA PeerInv ==
  ASSUME IInv, NEW d \in Direction,
         PeerSends(d) \/ PeerHalfCloses(d) \/ PeerStalls(d) \/ PeerVanishes(d)
  PROVE  IInv'
  <1>1. TypeOK'
    <2>1. CASE PeerSends(d)
      BY <2>1, BytesAssumption DEF PeerSends, IInv, TypeOK
    <2>2. CASE PeerHalfCloses(d)
      BY <2>2 DEF PeerHalfCloses, IInv, TypeOK
    <2>3. CASE PeerVanishes(d)
      BY <2>3 DEF PeerVanishes, IInv, TypeOK, Peer, From
    <2>4. CASE PeerStalls(d)
      BY <2>4 DEF PeerStalls, IInv, TypeOK
    <2> QED
      BY <2>1, <2>2, <2>3, <2>4
  <1>2. ClosesLate' /\ (Disturbed => Disturbed')
    BY Zenon DEF PeerSends, PeerHalfCloses, PeerStalls, PeerVanishes, IInv, TypeOK, ClosesLate, Disturbed
  <1>4. CopiesWhenDialed'
    BY DEF PeerSends, PeerHalfCloses, PeerStalls, PeerVanishes, IInv, CopiesWhenDialed
  <1>3. ASSUME NEW e \in Direction
        PROVE  (BufferIsNext(e) /\ GotIsPrefix(e) /\ CopiedAll(e) /\ EndIsLast(e))'
    <2> USE DEF IInv, TypeOK, BufferIsNext, GotIsPrefix, CopiedAll, EndIsLast
    <2>1. CASE PeerSends(d)
      BY <1>2, <2>1 DEF PeerSends
    <2>2. CASE PeerHalfCloses(d)
      BY <1>2, <2>2 DEF PeerHalfCloses
    <2>3. CASE PeerStalls(d) \/ PeerVanishes(d)
      BY <1>2, <2>3 DEF PeerStalls, PeerVanishes
    <2> QED
      BY <2>1, <2>2, <2>3
  <1> QED
    BY <1>1, <1>2, <1>3, <1>4 DEF IInv

\* Every step preserves the invariant.
LEMMA NextInv ==
  ASSUME IInv, [Next]_vars
  PROVE  IInv'
  <1>1. CASE UNCHANGED vars
    BY <1>1 DEF vars, IInv, TypeOK, BufferIsNext, GotIsPrefix, CopiedAll, EndIsLast, ClosesLate,
                CopiesWhenDialed, Disturbed
  <1>2. CASE Dial \/ DialFails \/ Return \/ CloseActiveConnection
    BY <1>2, QuietInv
  <1>3. ASSUME NEW d \in Direction,
               Pump(d) \/ PeerSends(d) \/ PeerHalfCloses(d) \/ PeerStalls(d) \/ PeerVanishes(d)
        PROVE  IInv'
    BY <1>3, ReadInv, WriteInv, QuietInv, PeerInv DEF Pump
  <1> QED
    BY <1>1, <1>2, <1>3 DEF Next

\* The invariant holds in every reachable state.
THEOREM InductiveInvariant == Spec => []IInv
  BY InitInv, NextInv, PTL DEF Spec

-----------------------------------------------------------------------------
(* The theorems. *)

\* The state stays well formed.
THEOREM TypeCorrect == Spec => []TypeOK
  <1>1. IInv => TypeOK
    BY DEF IInv
  <1> QED
    BY <1>1, InductiveInvariant, PTL

\* What arrives is what was sent, in order and without gaps, whichever side
\* fails when.
THEOREM Faithful == Spec => []StreamIsFaithful
  <1>1. IInv => StreamIsFaithful
    BY DEF IInv, StreamIsFaithful, GotIsPrefix
  <1> QED
    BY <1>1, InductiveInvariant, PTL

\* A peer that sees the end of an undisturbed stream has received all of it:
\* the half-close of TCP's goroutines overtakes no data.
THEOREM EndIsComplete == Spec => []EndMeansComplete
  <1>1. IInv => EndMeansComplete
    BY DEF IInv, EndMeansComplete, Undisturbed, EndIsLast, CopiedAll, CopiesWhenDialed, Disturbed
  <1> QED
    BY <1>1, InductiveInvariant, PTL

\* A write hands the next datum to the abstract stream, or is a stutter.
LEMMA WriteImplements ==
  ASSUME IInv, NEW d \in Direction, Write(d)
  PROVE  [Stream!Next]_Stream!vars
  <1> USE DEF IInv, Write
  <1>1. CASE Broken(To(d))
    BY <1>1 DEF Stream!vars, Disturbed
  <1>2. CASE ~Broken(To(d))
    <2>1. Head(buf[d]) = Len(got[d]) + 1 /\ Len(got[d]) < sent[d]
      BY DEF BufferIsNext
    <2>2. got' = [got EXCEPT ![d] = Append(got[d], Len(got[d]) + 1)]
      BY <1>2, <2>1
    <2>3. ~eof[d]
      BY DEF EndIsLast
    <2>4. Disturbed' = Disturbed
      BY DEF Disturbed
    <2>5. Stream!Deliver(d)
      BY <1>2, <2>1, <2>2, <2>3, <2>4 DEF Stream!Deliver
    <2> QED
      BY <2>5 DEF Stream!Next
  <1> QED
    BY <1>1, <1>2

\* A half-close ends the abstract stream, or is a stutter when there is nobody
\* to tell.
LEMMA HalfCloseImplements ==
  ASSUME IInv, NEW d \in Direction, HalfClose(d)
  PROVE  [Stream!Next]_Stream!vars
  <1> USE DEF IInv, HalfClose
  <1>0. Disturbed' = Disturbed
    BY DEF Disturbed
  <1>1. CASE Broken(To(d))
    <2>1. eof' = eof
      BY <1>1 DEF TypeOK
    <2> QED
      BY <1>0, <2>1 DEF Stream!vars
  <1>2. CASE ~Broken(To(d))
    <2>1. ~eof[d]
      BY DEF EndIsLast
    <2>2. eof' = [eof EXCEPT ![d] = TRUE]
      BY <1>2, Zenon DEF TypeOK
    <2>3. Disturbed \/ (fin[d] /\ Len(got[d]) = sent[d])
      BY DEF CopiedAll
    <2>4. Stream!End(d)
      BY <1>0, <2>1, <2>2, <2>3, Zenon DEF Stream!End
    <2> QED
      BY <2>4 DEF Stream!Next
  <1> QED
    BY <1>1, <1>2

\* The safety part of the refinement: one call of TCP, with its goroutines,
\* buffers, sockets and failures, is one two-way stream.
THEOREM Refinement == Spec => Stream!Spec
  <1>1. Init => Stream!Init
    BY DEF Init, Stream!Init, Disturbed
  <1>2. ASSUME IInv, [Next]_vars
        PROVE  [Stream!Next]_Stream!vars
    <2>1. CASE UNCHANGED vars
      BY <2>1 DEF vars, Stream!vars, Disturbed
    <2>2. CASE Dial
      BY <2>2 DEF Dial, Stream!vars, Disturbed
    <2>3. CASE DialFails \/ CloseActiveConnection
      <3>1. Disturbed' = TRUE
        BY <1>2, <2>3 DEF DialFails, CloseActiveConnection, Disturbed, IInv, CopiesWhenDialed
      <3>2. Stream!Cut
        BY <2>3, <3>1 DEF DialFails, CloseActiveConnection, Stream!Cut
      <3> QED
        BY <3>2 DEF Stream!Next
    <2>4. CASE Return
      BY <2>4 DEF Return, Stream!vars, Disturbed
    <2>5. ASSUME NEW d \in Direction,
                 Pump(d) \/ PeerSends(d) \/ PeerHalfCloses(d) \/ PeerStalls(d) \/ PeerVanishes(d)
          PROVE  [Stream!Next]_Stream!vars
      <3>1. CASE Read(d)
        BY <3>1 DEF Read, Stream!vars, Disturbed
      <3>2. CASE Write(d) \/ HalfClose(d)
        BY <1>2, <3>2, WriteImplements, HalfCloseImplements
      <3>3. CASE PeerSends(d)
        BY <3>3, Zenon DEF PeerSends, Disturbed, Stream!Send, Stream!Next
      <3>4. CASE PeerHalfCloses(d)
        BY <3>4, Zenon DEF PeerHalfCloses, Disturbed, Stream!Finish, Stream!Next
      <3>5. CASE PeerVanishes(d)
        <4>1. Disturbed' = TRUE
          BY <3>5 DEF PeerVanishes, Disturbed
        <4> QED
          BY <3>5, <4>1 DEF PeerVanishes, Stream!Cut, Stream!Next
      <3>6. CASE PeerStalls(d)
        BY <3>6 DEF PeerStalls, Disturbed, Stream!Stall, Stream!Next
      <3> QED
        BY <2>5, <3>1, <3>2, <3>3, <3>4, <3>5, <3>6 DEF Pump
    <2> QED
      BY <1>2, <2>1, <2>2, <2>3, <2>4, <2>5 DEF Next
  <1> QED
    BY <1>1, <1>2, InductiveInvariant, PTL DEF Spec, Stream!Spec
=============================================================================
