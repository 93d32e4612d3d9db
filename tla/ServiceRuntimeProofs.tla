------------------------ MODULE ServiceRuntimeProofs ------------------------
(***************************************************************************)
(* Proofs about ServiceRuntime, for any number of connections and any      *)
(* capacity of the semaphore.                                              *)
(***************************************************************************)
EXTENDS ServiceRuntime, FiniteSetTheorems, TLAPS

-----------------------------------------------------------------------------
(* The inductive invariant. *)

Holding == {"admitted", "proxied", "returned", "ended"}

Slots == {c \in Conn : stage[c] \in Holding}

Worker == {"proxied", "returned"}

Working == {c \in Conn : stage[c] \in Worker}

\* The map and the wait group know exactly the workers.
WorkerInv == connections = Working /\ proxies = Cardinality(Working)

\* How far Shutdown has come: no worker is admitted once it has begun, and
\* every one there is has been or is about to be closed.
ShutdownInv ==
    /\ closed <=> pc # "running"
    /\ pc = "sockets" => connections \subseteq snapshot \cup shut
    /\ pc \in {"wait", "drained", "timedOut"} => connections \subseteq shut
    /\ pc = "drained" => connections = {}

\* Versions only grow.
VersionInv ==
    /\ \A c \in Conn : asked[c] <= version
    /\ NewConnectionsUseNewBackend

IInv == TypeOK /\ SlotsBelongToConnections /\ WorkerInv /\ ShutdownInv /\ VersionInv

\* A set of connections gains or loses one.
LEMMA CountConn ==
    ASSUME NEW S \in SUBSET Conn, NEW c \in Conn
    PROVE  /\ IsFiniteSet(S) /\ Cardinality(S) \in Nat
           /\ Cardinality(S) = 0 <=> S = {}
           /\ c \notin S => Cardinality(S \cup {c}) = Cardinality(S) + 1
           /\ c \in S => Cardinality(S \ {c}) = Cardinality(S) - 1
  <1>1. IsFiniteSet(S)
    BY RuntimeAssumption, FS_Subset
  <1> QED
    BY <1>1, FS_CardinalityType, FS_EmptySet, FS_AddElement, FS_RemoveElement, Zenon

\* A connection that moves on changes Slots and Working only by itself.
LEMMA MoveCounts ==
    ASSUME stage \in [Conn -> Stage], NEW c \in Conn, NEW to \in Stage,
           stage' = [stage EXCEPT ![c] = to]
    PROVE  /\ stage' \in [Conn -> Stage]
           /\ to \in Holding /\ stage[c] \in Holding => Slots' = Slots
           /\ to \in Holding /\ stage[c] \notin Holding => Slots' = Slots \cup {c} /\ c \notin Slots
           /\ to \notin Holding /\ stage[c] \in Holding => Slots' = Slots \ {c} /\ c \in Slots
           /\ to \notin Holding /\ stage[c] \notin Holding => Slots' = Slots
           /\ to \in Worker /\ stage[c] \in Worker => Working' = Working
           /\ to \in Worker /\ stage[c] \notin Worker => Working' = Working \cup {c} /\ c \notin Working
           /\ to \notin Worker /\ stage[c] \in Worker => Working' = Working \ {c} /\ c \in Working
           /\ to \notin Worker /\ stage[c] \notin Worker => Working' = Working
  <1>1. stage' \in [Conn -> Stage] /\ \A d \in Conn : stage'[d] = IF d = c THEN to ELSE stage[d]
    OBVIOUS
  <1>2. /\ to \in Holding /\ stage[c] \in Holding => Slots' = Slots
        /\ to \in Holding /\ stage[c] \notin Holding => Slots' = Slots \cup {c} /\ c \notin Slots
        /\ to \notin Holding /\ stage[c] \in Holding => Slots' = Slots \ {c} /\ c \in Slots
        /\ to \notin Holding /\ stage[c] \notin Holding => Slots' = Slots
    BY <1>1 DEF Slots
  <1>3. /\ to \in Worker /\ stage[c] \in Worker => Working' = Working
        /\ to \in Worker /\ stage[c] \notin Worker => Working' = Working \cup {c} /\ c \notin Working
        /\ to \notin Worker /\ stage[c] \in Worker => Working' = Working \ {c} /\ c \in Working
        /\ to \notin Worker /\ stage[c] \notin Worker => Working' = Working
    BY <1>1 DEF Working
  <1> QED
    BY <1>1, <1>2, <1>3

\* A move that neither takes nor frees a slot and is no worker's.
LEMMA NeutralMove ==
    ASSUME IInv, NEW c \in Conn, NEW to \in Stage, stage' = [stage EXCEPT ![c] = to],
           to \in Holding <=> stage[c] \in Holding,
           to \in Worker <=> stage[c] \in Worker,
           UNCHANGED <<sem, connections, proxies>>
    PROVE  stage' \in [Conn -> Stage] /\ SlotsBelongToConnections' /\ WorkerInv'
  <1>1. stage' \in [Conn -> Stage] /\ Slots' = Slots /\ Working' = Working
    BY MoveCounts, Zenon DEF IInv, TypeOK
  <1> QED
    BY <1>1 DEF IInv, WorkerInv, SlotsBelongToConnections, Slots, Holding

\* Steps of the accept loop, the workers and the consumers.
LEMMA ConnectionStep ==
    ASSUME IInv, NEW c \in Conn,
           \/ Accept(c) \/ CurrentBackend(c) \/ AcquireSlot(c) \/ beginProxy(c)
           \/ ProxyReturns(c) \/ endProxy(c) \/ ReleaseSlot(c) \/ Connect(c)
    PROVE  IInv'
  <1> USE DEF Moves, Holding, Worker, Stage
  <1>0. /\ TypeOK /\ SlotsBelongToConnections /\ WorkerInv /\ ShutdownInv /\ VersionInv
        /\ sem = Cardinality(Slots) /\ Slots \in SUBSET Conn /\ Working \in SUBSET Conn
        /\ stage \in [Conn -> Stage]
    BY DEF IInv, TypeOK, SlotsBelongToConnections, Slots, Working
  <1>1. CASE Accept(c) \/ ProxyReturns(c)
    <2>1. stage' \in [Conn -> Stage] /\ SlotsBelongToConnections' /\ WorkerInv'
      BY <1>1, NeutralMove DEF Accept, ProxyReturns
    <2>2. TypeOK' /\ ShutdownInv'
      BY <1>0, <1>1, <2>1 DEF Accept, ProxyReturns, TypeOK, ShutdownInv
    <2>3. VersionInv'
      BY <1>0, <1>1 DEF Accept, ProxyReturns, TypeOK, VersionInv, NewConnectionsUseNewBackend
    <2> QED
      BY <2>1, <2>2, <2>3 DEF IInv
  <1>2. CASE CurrentBackend(c)
    <2>0. /\ stage[c] = "accepted" /\ UNCHANGED <<sem, connections, proxies>>
          /\ \E to \in {"checked", "closed"} : stage' = [stage EXCEPT ![c] = to]
      BY <1>2, Zenon DEF CurrentBackend
    <2>1. stage' \in [Conn -> Stage] /\ SlotsBelongToConnections' /\ WorkerInv'
      BY <2>0, NeutralMove, Zenon
    <2>2. TypeOK' /\ ShutdownInv'
      <3>1. \E v \in 0 .. MaxVersion : backend' = [backend EXCEPT ![c] = v]
        <4>1. version \in 0 .. MaxVersion /\ 0 \in 0 .. MaxVersion
          BY <1>0, RuntimeAssumption DEF TypeOK
        <4>2. \/ backend' = [backend EXCEPT ![c] = version]
              \/ backend' = [backend EXCEPT ![c] = 0]
          BY <1>2, Zenon DEF CurrentBackend
        <4> QED
          BY <4>1, <4>2
      <3>2. UNCHANGED <<asked, ready, version, sem, connections, proxies, closed, listening,
                        shut, snapshot, pc>>
        BY <1>2 DEF CurrentBackend
      <3> QED
        BY <1>0, <2>1, <3>1, <3>2 DEF TypeOK, ShutdownInv
    <2>3. VersionInv'
      BY <1>0, <1>2 DEF CurrentBackend, TypeOK, VersionInv, NewConnectionsUseNewBackend
    <2> QED
      BY <2>1, <2>2, <2>3 DEF IInv
  <1>3. CASE Connect(c)
    <2>1. stage' \in [Conn -> Stage] /\ SlotsBelongToConnections' /\ WorkerInv'
      BY <1>3, NeutralMove, Zenon DEF Connect
    <2>2. TypeOK' /\ ShutdownInv'
      BY <1>0, <1>3, <2>1 DEF Connect, TypeOK, ShutdownInv
    <2>3. VersionInv'
      BY <1>0, <1>3 DEF Connect, TypeOK, VersionInv, NewConnectionsUseNewBackend
    <2> QED
      BY <2>1, <2>2, <2>3 DEF IInv
  <1>4. CASE AcquireSlot(c)
    <2>1. /\ stage[c] = "checked"
          /\ UNCHANGED <<backend, asked, ready, version, connections, proxies, closed, listening,
                         shut, snapshot, pc>>
      BY <1>4 DEF AcquireSlot
    <2>2. /\ stage' \in [Conn -> Stage] /\ Working' = Working
          /\ sem' = Cardinality(Slots') /\ sem' \in 0 .. Capacity
      <3>1. CASE sem < Capacity
        <4>1. sem' = sem + 1 /\ stage' = [stage EXCEPT ![c] = "admitted"]
          BY <1>4, <3>1 DEF AcquireSlot
        <4>2. /\ stage' \in [Conn -> Stage] /\ Working' = Working
              /\ Slots' = Slots \cup {c} /\ c \notin Slots
          BY <1>0, <2>1, <4>1, MoveCounts, Zenon
        <4> QED
          BY <1>0, <3>1, <4>1, <4>2, CountConn, RuntimeAssumption DEF TypeOK
      <3>2. CASE ~(sem < Capacity)
        <4>1. sem' = sem /\ stage' = [stage EXCEPT ![c] = "closed"]
          BY <1>4, <3>2 DEF AcquireSlot
        <4>2. stage' \in [Conn -> Stage] /\ Working' = Working /\ Slots' = Slots
          BY <1>0, <2>1, <4>1, MoveCounts, Zenon
        <4> QED
          BY <1>0, <4>1, <4>2 DEF TypeOK
      <3> QED
        BY <3>1, <3>2
    <2>3. TypeOK' /\ ShutdownInv' /\ WorkerInv'
      BY <1>0, <2>1, <2>2 DEF TypeOK, ShutdownInv, WorkerInv
    <2>4. VersionInv'
      BY <1>0, <1>4, <2>1 DEF AcquireSlot, TypeOK, VersionInv, NewConnectionsUseNewBackend
    <2> QED
      BY <2>2, <2>3, <2>4 DEF IInv, SlotsBelongToConnections, Slots
  <1>5. CASE beginProxy(c)
    <2>1. /\ stage[c] = "admitted"
          /\ UNCHANGED <<backend, asked, ready, version, closed, listening, shut, snapshot, pc>>
      BY <1>5 DEF beginProxy
    <2>2. VersionInv'
      BY <1>0, <1>5, <2>1 DEF beginProxy, TypeOK, VersionInv, NewConnectionsUseNewBackend
    <2>3. CASE closed
      <3>1. sem' = sem - 1 /\ UNCHANGED <<connections, proxies>> /\ stage' = [stage EXCEPT ![c] = "closed"]
        BY <1>5, <2>3 DEF beginProxy
      <3>2. stage' \in [Conn -> Stage] /\ Working' = Working /\ Slots' = Slots \ {c} /\ c \in Slots
        BY <1>0, <2>1, <3>1, MoveCounts, Zenon
      <3>3. sem' = Cardinality(Slots') /\ sem' \in 0 .. Capacity
        BY <1>0, <3>1, <3>2, CountConn, RuntimeAssumption DEF TypeOK
      <3>4. TypeOK' /\ ShutdownInv' /\ WorkerInv'
        BY <1>0, <2>1, <3>1, <3>2, <3>3 DEF TypeOK, ShutdownInv, WorkerInv
      <3> QED
        BY <2>2, <3>3, <3>4 DEF IInv, SlotsBelongToConnections, Slots
    <2>4. CASE ~closed
      <3>1. /\ sem' = sem /\ connections' = connections \cup {c} /\ proxies' = proxies + 1
            /\ stage' = [stage EXCEPT ![c] = "proxied"]
        BY <1>5, <2>4 DEF beginProxy
      <3>2. /\ stage' \in [Conn -> Stage] /\ Slots' = Slots
            /\ Working' = Working \cup {c} /\ c \notin Working
        BY <1>0, <2>1, <3>1, MoveCounts, Zenon
      <3>3. WorkerInv' /\ proxies' \in Nat
        <4>1. Cardinality(Working \cup {c}) = Cardinality(Working) + 1 /\ Cardinality(Working) \in Nat
          BY <1>0, <3>2, CountConn
        <4>2. connections = Working /\ proxies = Cardinality(Working)
          BY <1>0 DEF WorkerInv
        <4> QED
          BY <3>1, <3>2, <4>1, <4>2 DEF WorkerInv
      <3>4. pc = "running"
        BY <1>0, <2>4, Zenon DEF ShutdownInv
      <3>5. ShutdownInv'
        BY <1>0, <2>1, <3>4 DEF ShutdownInv
      <3>6. TypeOK'
        BY <1>0, <2>1, <3>1, <3>2, <3>3 DEF TypeOK
      <3> QED
        BY <1>0, <2>2, <3>1, <3>2, <3>3, <3>5, <3>6 DEF IInv, SlotsBelongToConnections, Slots
    <2> QED
      BY <2>3, <2>4
  <1>6. CASE endProxy(c)
    <2>1. /\ stage[c] = "returned" /\ stage' = [stage EXCEPT ![c] = "ended"]
          /\ connections' = connections \ {c} /\ proxies' = proxies - 1
          /\ UNCHANGED <<backend, asked, ready, version, sem, closed, listening, shut, snapshot, pc>>
      BY <1>6 DEF endProxy
    <2>2. /\ stage' \in [Conn -> Stage] /\ Slots' = Slots
          /\ Working' = Working \ {c} /\ c \in Working
      BY <1>0, <2>1, MoveCounts, Zenon
    <2>3. WorkerInv' /\ proxies' \in Nat
      BY <1>0, <2>1, <2>2, CountConn DEF WorkerInv
    <2>4. TypeOK' /\ ShutdownInv'
      BY <1>0, <2>1, <2>2, <2>3 DEF TypeOK, ShutdownInv
    <2>5. VersionInv'
      BY <1>0, <2>1 DEF TypeOK, VersionInv, NewConnectionsUseNewBackend
    <2> QED
      BY <1>0, <2>1, <2>2, <2>3, <2>4, <2>5, Zenon DEF IInv, SlotsBelongToConnections, Slots
  <1>7. CASE ReleaseSlot(c)
    <2>1. /\ stage[c] = "ended" /\ stage' = [stage EXCEPT ![c] = "closed"] /\ sem' = sem - 1
          /\ UNCHANGED <<backend, asked, ready, version, connections, proxies, closed, listening,
                         shut, snapshot, pc>>
      BY <1>7 DEF ReleaseSlot
    <2>2. stage' \in [Conn -> Stage] /\ Working' = Working /\ Slots' = Slots \ {c} /\ c \in Slots
      BY <1>0, <2>1, MoveCounts, Zenon
    <2>3. sem' = Cardinality(Slots') /\ sem' \in 0 .. Capacity
      BY <1>0, <2>1, <2>2, CountConn, RuntimeAssumption DEF TypeOK
    <2>4. TypeOK' /\ ShutdownInv' /\ WorkerInv'
      BY <1>0, <2>1, <2>2, <2>3 DEF TypeOK, ShutdownInv, WorkerInv
    <2>5. VersionInv'
      BY <1>0, <2>1 DEF TypeOK, VersionInv, NewConnectionsUseNewBackend
    <2> QED
      BY <2>3, <2>4, <2>5 DEF IInv, SlotsBelongToConnections, Slots
  <1> QED
    BY <1>1, <1>2, <1>3, <1>4, <1>5, <1>6, <1>7

\* Steps of Shutdown: connections only move when the listener closes.
LEMMA ShutdownStep ==
    ASSUME IInv, Close \/ Shutdown
    PROVE  IInv'
  <1>0. TypeOK /\ SlotsBelongToConnections /\ WorkerInv /\ ShutdownInv /\ VersionInv
    BY DEF IInv
  <1>1. /\ stage' \in [Conn -> Stage] /\ Slots' = Slots /\ Working' = Working
        /\ UNCHANGED <<sem, connections, proxies>>
    BY <1>0 DEF Close, Shutdown, CloseListener, SnapshotConnections, CloseSocket, SocketsClosed,
       WaitForProxies, WaitTimesOut, TypeOK, Slots, Working, Holding, Worker, Stage
  <1>2. SlotsBelongToConnections' /\ WorkerInv'
    BY <1>0, <1>1 DEF SlotsBelongToConnections, Slots, Holding, WorkerInv
  <1>3. VersionInv'
    BY <1>0 DEF Close, Shutdown, CloseListener, SnapshotConnections, CloseSocket, SocketsClosed,
       WaitForProxies, WaitTimesOut, TypeOK, VersionInv, NewConnectionsUseNewBackend
  <1>4. /\ closed' \in BOOLEAN /\ listening' \in BOOLEAN /\ ready' \in BOOLEAN
        /\ closed' <=> pc' # "running"
    BY <1>0, Zenon DEF Close, Shutdown, CloseListener, SnapshotConnections, CloseSocket, SocketsClosed,
       WaitForProxies, WaitTimesOut, TypeOK, ShutdownInv
  <1>5. TypeOK'
    BY <1>0, <1>1, <1>4 DEF Close, Shutdown, CloseListener, SnapshotConnections, CloseSocket,
       SocketsClosed, WaitForProxies, WaitTimesOut, TypeOK
  <1>6. proxies = 0 => connections = {}
    BY <1>0, RuntimeAssumption, FS_Subset, FS_EmptySet, Zenon DEF WorkerInv, Working
  <1>7. ShutdownInv'
    BY <1>0, <1>4, <1>6 DEF Close, Shutdown, CloseListener, SnapshotConnections, CloseSocket,
       SocketsClosed, WaitForProxies, WaitTimesOut, ShutdownInv
  <1> QED
    BY <1>2, <1>3, <1>5, <1>7 DEF IInv

\* Every step keeps the invariant.
LEMMA NextIInv == IInv /\ [Next]_vars => IInv'
  <1> SUFFICES ASSUME IInv, [Next]_vars PROVE IInv'
    OBVIOUS
  <1>1. CASE BackendReplaced \/ BackendCleared
    <2>1. /\ UNCHANGED <<stage, backend, asked, sem, connections, proxies, closed, listening, shut,
                         snapshot, pc>>
          /\ version' \in 0 .. MaxVersion /\ version' >= version
      BY <1>1, RuntimeAssumption DEF BackendReplaced, BackendCleared, IInv, TypeOK
    <2>2. ready' \in BOOLEAN
      BY <1>1, Zenon DEF BackendReplaced, BackendCleared
    <2> QED
      BY <2>1, <2>2 DEF IInv, TypeOK, SlotsBelongToConnections, WorkerInv, Working, ShutdownInv,
         VersionInv, NewConnectionsUseNewBackend
  <1>2. CASE UNCHANGED vars
    BY <1>2 DEF vars, IInv, TypeOK, SlotsBelongToConnections, WorkerInv, Working, ShutdownInv,
       VersionInv, NewConnectionsUseNewBackend
  <1> QED
    BY <1>1, <1>2, ConnectionStep, ShutdownStep DEF Next, AcceptLoop

\* The invariant holds initially.
LEMMA InitIInv == Init => IInv
  <1> SUFFICES ASSUME Init PROVE IInv
    OBVIOUS
  <1>1. /\ {c \in Conn : stage[c] \in Holding} = {} /\ Working = {}
        /\ Cardinality({}) = 0
    BY FS_EmptySet DEF Init, Working, Worker, Holding
  <1>2. closed \in BOOLEAN /\ listening \in BOOLEAN /\ ready \in BOOLEAN /\ (closed <=> pc # "running")
    BY Zenon DEF Init
  <1>3. TypeOK
    BY <1>2, RuntimeAssumption DEF Init, TypeOK, Stage
  <1>4. SlotsBelongToConnections /\ WorkerInv
    BY <1>1 DEF Init, SlotsBelongToConnections, WorkerInv, Holding
  <1>5. ShutdownInv /\ VersionInv
    BY <1>2 DEF Init, ShutdownInv, VersionInv, NewConnectionsUseNewBackend
  <1> QED
    BY <1>3, <1>4, <1>5 DEF IInv

\* The inductive invariant.
THEOREM InductiveInvariant == Spec => []IInv
  BY InitIInv, NextIInv, PTL DEF Spec

\* The state stays well formed: never more workers than slots, and no counter
\* below zero.
THEOREM TypeCorrect == Spec => []TypeOK
  <1>1. IInv => TypeOK
    BY DEF IInv
  <1> QED
    BY <1>1, InductiveInvariant, PTL

\* The accept loop and its workers leak no slot, whichever way a connection is
\* refused or ends.
THEOREM SlotsAreNotLeaked == Spec => []SlotsBelongToConnections
  <1>1. IInv => SlotsBelongToConnections
    BY DEF IInv
  <1> QED
    BY <1>1, InductiveInvariant, PTL

\* WaitForProxies never misses a worker: Close fenced them off before.
THEOREM DrainingIsComplete == Spec => []DrainedMeansIdle
  <1>1. IInv => DrainedMeansIdle
    BY DEF IInv, ShutdownInv, WorkerInv, Working, Worker, DrainedMeansIdle
  <1> QED
    BY <1>1, InductiveInvariant, PTL

\* CloseActiveConnections closes the socket of every worker there is.
THEOREM ShutdownReachesEveryConnection == Spec => []NoConnectionSurvivesShutdown
  <1>1. IInv => NoConnectionSurvivesShutdown
    BY DEF IInv, ShutdownInv, WorkerInv, Working, Worker, NoConnectionSurvivesShutdown
  <1> QED
    BY <1>1, InductiveInvariant, PTL

\* A connection never reaches a backend replaced before it was made.
THEOREM BackendIsNeverOlder == Spec => []NewConnectionsUseNewBackend
  <1>1. IInv => NewConnectionsUseNewBackend
    BY DEF IInv, VersionInv
  <1> QED
    BY <1>1, InductiveInvariant, PTL
=============================================================================
