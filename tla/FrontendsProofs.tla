-------------------------- MODULE FrontendsProofs ---------------------------
(***************************************************************************)
(* Proofs about Frontends, for every set of names, port range, preference  *)
(* and hash: type correctness, durability of the assignments, stability    *)
(* across restarts, completeness of the scan, and that the allocator       *)
(* implements StableFrontends.                                             *)
(***************************************************************************)
EXTENDS Frontends, TLAPS

-----------------------------------------------------------------------------
(* The scan. *)

\* Every attempt of the scan stays within the configured range.
LEMMA ScanInRange ==
    ASSUME NEW x \in Nat
    PROVE  PortMin + (x % Size) \in PortMin .. PortMax
  <1>1. Size \in Nat /\ Size > 0
    BY RangeAssumption DEF Size
  <1>2. x % Size \in 0 .. (Size - 1)
    BY <1>1
  <1> QED
    BY <1>1, <1>2, RangeAssumption DEF Size

\* Wherever the scan starts, it comes past every port of the range.
LEMMA ScanCovers ==
    ASSUME NEW off \in 0 .. (Size - 1), NEW port \in PortMin .. PortMax
    PROVE  \E i \in 0 .. (Size - 1) : PortMin + ((off + i) % Size) = port
  <1>1. Size \in Nat /\ Size > 0
    BY RangeAssumption DEF Size
  <1> DEFINE d == port - PortMin
  <1>2. d \in 0 .. (Size - 1) /\ port = PortMin + d
    BY RangeAssumption DEF Size
  <1> HIDE DEF d
  <1>3. d % Size = d /\ (Size + d) % Size = d
    BY <1>1, <1>2
  <1>4. CASE d >= off
    <2>1. d - off \in 0 .. (Size - 1) /\ off + (d - off) = d
      BY <1>1, <1>2, <1>4
    <2> QED
      BY <1>2, <1>3, <2>1
  <1>5. CASE d < off
    <2>1. Size + d - off \in 0 .. (Size - 1) /\ off + (Size + d - off) = Size + d
      BY <1>1, <1>2, <1>5
    <2> QED
      BY <1>2, <1>3, <2>1
  <1> QED
    BY <1>1, <1>2, <1>4, <1>5

\* Every candidate is a port, or zero.
LEMMA CandidateType ==
    ASSUME NEW a \in Allocation, NEW k \in Nat \ {0}
    PROVE  Candidate(a, k) \in Port \cup {0}
  <1>1. CASE k = 1
    BY <1>1 DEF Candidate, Allocation
  <1>2. CASE k = 2
    BY <1>2 DEF Candidate, Allocation, Port
  <1>3. CASE k # 1 /\ k # 2
    <2>1. startOffset(a.name) \in Nat
      BY HashAssumption, RangeAssumption DEF startOffset, Size, Allocation
    <2>2. startOffset(a.name) + (k - 3) \in Nat
      BY <1>3, <2>1
    <2> QED
      BY <1>3, <2>2, ScanInRange DEF Candidate, Port
  <1> QED
    BY <1>1, <1>2, <1>3

-----------------------------------------------------------------------------
(* The inductive invariant. *)

\* What the allocation in progress knows: it works on the port in memory, the
\* name has no runtime, and the attempts made so far were refused.
AllocatingInv ==
    /\ \A a, b \in allocating : a = b
    /\ \A a \in allocating :
         /\ a.name \notin DOMAIN runtimes
         /\ a.remembered = ports[a.name]
         /\ a.attempt > 1 => told[a.name] = 0
         /\ \A k \in 1 .. (a.attempt - 1) : Candidate(a, k) \in a.refused \cup {0}

\* Memory and file agree unless a write has failed, and even then on every
\* port that consumers still rely on.
StoreInv ==
    /\ ~dirty /\ readable => file = ports
    /\ \A n \in DOMAIN runtimes : told[n] = runtimes[n]
    /\ \A n \in Name : told[n] # 0 => ports[n] = told[n] /\ (readable => file[n] = told[n])

IInv == TypeOK /\ AllocatingInv /\ StoreInv

\* The invariant holds initially.
LEMMA InitIInv == Init => IInv
  <1> SUFFICES ASSUME Init PROVE IInv
    OBVIOUS
  <1>1. Store!NoPorts \in [Name -> Port \cup {0}] /\ \A n \in Name : Store!NoPorts[n] = 0
    BY DEF Store!NoPorts
  <1>2. TypeOK
    <2>1. dirty \in BOOLEAN /\ readable \in BOOLEAN
      BY Zenon DEF Init, Store!Init
    <2> QED
      BY <1>1, <2>1 DEF Init, Store!Init, TypeOK
  <1>3. AllocatingInv
    BY DEF Init, AllocatingInv
  <1>4. StoreInv
    BY <1>1 DEF Init, Store!Init, StoreInv
  <1> QED
    BY <1>2, <1>3, <1>4 DEF IInv

\* A new allocation starts with the remembered port and no refusals.
LEMMA EnsureTCPRuntimeInv ==
    ASSUME IInv, NEW name \in Name, NEW preferred \in Preferred,
           EnsureTCPRuntime(name, preferred)
    PROVE  IInv'
  <1> USE DEF IInv
  <1>1. UNCHANGED <<runtimes, ports, dirty, file, readable, taken, told>>
    BY DEF EnsureTCPRuntime, storeVars
  <1> DEFINE a == [name |-> name, remembered |-> ports[name], preferred |-> preferred,
                   attempt |-> 1, refused |-> {}]
  <1>2. allocating' = {a} /\ name \notin DOMAIN runtimes
    BY DEF EnsureTCPRuntime
  <1>3. a \in Allocation
    BY DEF TypeOK, Allocation
  <1>4. TypeOK'
    BY <1>1, <1>2, <1>3 DEF TypeOK
  <1>5. AllocatingInv'
    BY <1>1, <1>2 DEF AllocatingInv
  <1>6. StoreInv'
    BY <1>1 DEF StoreInv
  <1> QED
    BY <1>4, <1>5, <1>6

\* The record of the next attempt.
LEMMA NextAttempt ==
    ASSUME NEW a \in Allocation, NEW refused \in SUBSET Port
    PROVE  LET b == [a EXCEPT !.attempt = @ + 1, !.refused = refused] IN
           /\ b \in Allocation /\ b.name = a.name /\ b.remembered = a.remembered
           /\ b.preferred = a.preferred /\ b.attempt = a.attempt + 1 /\ b.refused = refused
  <1> DEFINE b == [a EXCEPT !.attempt = @ + 1, !.refused = refused]
             c == [a EXCEPT !.attempt = @ + 1]
  <1>1. c \in Allocation
    BY DEF Allocation
  <1>2. b = [c EXCEPT !.refused = refused]
    BY DEF Allocation
  <1>3. /\ b.name = a.name /\ b.remembered = a.remembered /\ b.preferred = a.preferred
        /\ b.attempt = a.attempt + 1 /\ b.refused = refused
    BY DEF Allocation
  <1> HIDE DEF c
  <1>4. [c EXCEPT !.refused = refused] \in Allocation
    BY <1>1 DEF Allocation
  <1> QED
    BY <1>2, <1>3, <1>4

\* Going on to the next attempt, after a port that was skipped or refused.
LEMMA AdvanceInv ==
    ASSUME IInv, NEW a \in allocating, NEW refused \in SUBSET Port,
           a.refused \subseteq refused,
           Current(a) \in refused \cup {0},
           allocating' = {[a EXCEPT !.attempt = @ + 1, !.refused = refused]},
           told' \in [Name -> Port \cup {0}], told'[a.name] = 0,
           \A n \in Name \ {a.name} : told'[n] = told[n],
           UNCHANGED <<runtimes, ports, dirty, file, readable, taken>>
    PROVE  IInv'
  <1> USE DEF IInv
  <1>1. a \in Allocation /\ a.name \in Name /\ a.attempt \in Nat \ {0}
    BY DEF TypeOK, Allocation
  <1> DEFINE b == [a EXCEPT !.attempt = @ + 1, !.refused = refused]
  <1>2. /\ b \in Allocation /\ b.name = a.name /\ b.remembered = a.remembered
        /\ b.preferred = a.preferred /\ b.attempt = a.attempt + 1 /\ b.refused = refused
    BY <1>1, NextAttempt, Zenon
  <1>3. \A k \in Nat : Candidate(b, k) = Candidate(a, k)
    BY <1>2 DEF Candidate
  <1> HIDE DEF b
  <1>4. allocating' = {b}
    BY DEF b
  <1>5. TypeOK'
    BY <1>2, <1>4 DEF TypeOK
  <1>6. \A k \in 1 .. (b.attempt - 1) : Candidate(b, k) \in b.refused \cup {0}
    <2> TAKE k \in 1 .. (b.attempt - 1)
    <2>1. CASE k = a.attempt
      BY <1>2, <1>3, <2>1 DEF Current
    <2>2. CASE k # a.attempt
      <3>1. k \in 1 .. (a.attempt - 1)
        BY <1>1, <1>2, <2>2
      <3> QED
        BY <1>2, <1>3, <3>1 DEF AllocatingInv
    <2> QED BY <2>1, <2>2
  <1>7. AllocatingInv'
    <2>1. a.name \notin DOMAIN runtimes' /\ b.remembered = ports'[a.name]
      BY <1>2 DEF AllocatingInv
    <2> QED
      BY <1>2, <1>4, <1>6, <2>1 DEF AllocatingInv, Candidate, startOffset
  <1>8. StoreInv'
    <2>1. \A n \in DOMAIN runtimes : n # a.name
      BY DEF AllocatingInv
    <2>2. \A n \in DOMAIN runtimes : told'[n] = told[n]
      BY <1>1, <2>1 DEF TypeOK
    <2> QED
      BY <1>1, <2>2 DEF StoreInv
  <1> QED
    BY <1>5, <1>7, <1>8

\* Consumers rely on the remembered port only up to the first attempt.
LEMMA ToldIsRemembered ==
    ASSUME IInv, NEW a \in allocating, told[a.name] # 0
    PROVE  a.attempt = 1 /\ Current(a) = told[a.name]
  <1>1. a \in Allocation
    BY DEF IInv, TypeOK
  <1>2. a.attempt = 1
    BY <1>1 DEF IInv, AllocatingInv, Allocation
  <1>3. Current(a) = ports[a.name]
    BY <1>2 DEF Current, Candidate, IInv, AllocatingInv
  <1> QED
    BY <1>1, <1>2, <1>3 DEF IInv, StoreInv, Allocation

\* Skipping a candidate loses none: it is zero or has been refused before.
LEMMA SkipInv ==
    ASSUME IInv, NEW a \in allocating, Skipped(a),
           allocating' = {[a EXCEPT !.attempt = @ + 1]},
           UNCHANGED <<runtimes, storeVars, taken, told>>
    PROVE  IInv'
  <1>1. a \in Allocation /\ a.name \in Name /\ a.attempt \in Nat \ {0} /\ a.refused \in SUBSET Port
    BY DEF IInv, TypeOK, Allocation
  <1>2. [a EXCEPT !.attempt = @ + 1] = [a EXCEPT !.attempt = @ + 1, !.refused = a.refused]
    BY <1>1, Zenon DEF Allocation
  <1>3. Current(a) \in a.refused \cup {0}
    <2>1. CASE a.attempt > 2 /\ Current(a) \in {a.remembered, a.preferred}
      <3>1. 1 \in 1 .. (a.attempt - 1) /\ 2 \in 1 .. (a.attempt - 1)
        BY <1>1, <2>1
      <3>2. a.remembered \in a.refused \cup {0} /\ a.preferred \in a.refused \cup {0}
        BY <3>1 DEF IInv, AllocatingInv, Candidate
      <3> QED
        BY <2>1, <3>2
    <2> QED
      BY <2>1 DEF Skipped
  <1>4. told[a.name] = 0
    <2>1. ASSUME told[a.name] # 0 PROVE FALSE
      BY <1>1, <2>1, ToldIsRemembered DEF Skipped
    <2> QED BY <2>1
  <1> QED
    BY <1>1, <1>2, <1>3, <1>4, AdvanceInv, Zenon DEF storeVars, IInv, TypeOK

\* A refusal adds the candidate to the refused ports.
LEMMA RefuseInv ==
    ASSUME IInv, NEW a \in allocating, ~Skipped(a), Refuse(a)
    PROVE  IInv'
  <1>1. a \in Allocation /\ a.name \in Name /\ a.attempt \in Nat \ {0} /\ a.refused \in SUBSET Port
    BY DEF IInv, TypeOK, Allocation
  <1>2. Current(a) \in Port
    BY <1>1, CandidateType DEF Current, Skipped
  <1>3. a.refused \cup {Current(a)} \in SUBSET Port
    BY <1>1, <1>2
  <1>4. /\ told' \in [Name -> Port \cup {0}]
        /\ told'[a.name] = 0
        /\ \A n \in Name \ {a.name} : told'[n] = told[n]
    BY <1>1, ToldIsRemembered DEF Refuse, IInv, TypeOK
  <1> QED
    BY <1>3, <1>4, AdvanceInv, Zenon DEF Refuse, storeVars

\* A granted port is free, durable and the one consumers are told.
LEMMA GrantInv ==
    ASSUME IInv, NEW a \in allocating, ~Skipped(a), Grant(a)
    PROVE  IInv'
  <1> USE DEF IInv
  <1> DEFINE port == Current(a)
  <1>1. a \in Allocation /\ a.name \in Name /\ a.name \notin DOMAIN runtimes
    BY DEF TypeOK, Allocation, AllocatingInv
  <1>2. port \in Port /\ port # 0
    BY <1>1, CandidateType DEF Current, Skipped, Allocation
  <1>3. told[a.name] # 0 => told[a.name] = port
    BY ToldIsRemembered
  <1>4. allocating' = {} /\ UNCHANGED taken
    BY DEF Grant
  <1> HIDE DEF port
  <1>5. PICK saved \in BOOLEAN :
          /\ Store!SetPort(a.name, port, saved)
          /\ IF saved THEN Bound(a.name, port) ELSE UNCHANGED runtimes
          /\ told' = IF saved THEN [told EXCEPT ![a.name] = port] ELSE told
    BY DEF Grant, port
  <1>6. AllocatingInv'
    BY <1>4 DEF AllocatingInv
  <1>7. ports' = [ports EXCEPT ![a.name] = port]
    BY <1>5 DEF Store!SetPort, TypeOK
  <1>8. CASE saved
    <2>1. Bound(a.name, port) /\ told' = [told EXCEPT ![a.name] = port]
      BY <1>5, <1>8
    <2>2. \/ file' = ports' /\ readable' = TRUE /\ dirty' = FALSE
          \/ ports[a.name] = port /\ ~dirty /\ UNCHANGED <<ports, dirty, file, readable>>
      BY <1>5, <1>8, Zenon DEF Store!SetPort, Store!saveLocked
    <2>3. /\ file' \in [Name -> Port \cup {0}]
          /\ readable' => file' = ports'
          /\ dirty' \in BOOLEAN /\ readable' \in BOOLEAN
      <3>1. CASE file' = ports' /\ readable' = TRUE /\ dirty' = FALSE
        <4>1. ports' \in [Name -> Port \cup {0}]
          BY <1>1, <1>2, <1>7 DEF TypeOK
        <4> QED
          BY <3>1, <4>1, Zenon
      <3>2. CASE ports[a.name] = port /\ ~dirty /\ UNCHANGED <<ports, dirty, file, readable>>
        BY <3>2, Zenon DEF TypeOK, StoreInv
      <3> QED
        BY <2>2, <3>1, <3>2, Zenon
    <2>4. TypeOK'
      BY <1>1, <1>2, <1>4, <1>7, <2>1, <2>3, Zenon DEF TypeOK, Bound
    <2>5. StoreInv'
      BY <1>1, <1>2, <1>7, <2>1, <2>3 DEF TypeOK, StoreInv, Bound
    <2> QED
      BY <1>6, <2>4, <2>5
  <1>9. CASE ~saved
    <2>1. UNCHANGED <<runtimes, told, file, readable>> /\ dirty' = TRUE
      <3>1. UNCHANGED runtimes /\ UNCHANGED told
        BY <1>5, <1>9
      <3>2. dirty' = ~saved /\ Store!saveLocked(saved)
        BY <1>5, <1>9, Zenon DEF Store!SetPort
      <3>3. dirty' = TRUE
        BY <1>9, <3>2, Zenon
      <3>4. UNCHANGED <<file, readable>>
        BY <1>9, <3>2, Zenon DEF Store!saveLocked
      <3> QED
        BY <3>1, <3>3, <3>4
    <2>2. TypeOK'
      BY <1>1, <1>2, <1>4, <1>7, <2>1 DEF TypeOK
    <2>3. StoreInv'
      BY <1>1, <1>3, <1>7, <2>1 DEF TypeOK, StoreInv
    <2> QED
      BY <1>6, <2>2, <2>3
  <1> QED
    BY <1>8, <1>9

\* Shutdown flushes what memory holds, or leaves the file as it is.
LEMMA ShutdownInv ==
    ASSUME IInv, Shutdown
    PROVE  IInv'
  <1> USE DEF IInv
  <1>1. runtimes' = << >> /\ allocating = {} /\ UNCHANGED <<allocating, taken, told, ports>>
    BY DEF Shutdown, Store!Save
  <1>2. PICK saved \in BOOLEAN : Store!Save(saved)
    BY DEF Shutdown
  <1>3. /\ dirty' \in BOOLEAN /\ readable' \in BOOLEAN
        /\ file' = ports \/ (file' = file /\ readable' = readable /\ dirty' = dirty)
    <2>1. CASE saved
      BY <2>1, <1>2, Zenon DEF Store!Save, Store!saveLocked
    <2>2. CASE ~saved
      <3>1. UNCHANGED <<file, readable>>
        BY <1>2, <2>2, Zenon DEF Store!Save, Store!saveLocked
      <3>2. dirty' = dirty
        BY <1>2, <2>2, Zenon DEF Store!Save, TypeOK
      <3> QED
        BY <3>1, <3>2, Zenon DEF TypeOK
    <2> QED
      BY <2>1, <2>2
  <1>4. TypeOK'
    BY <1>1, <1>3 DEF TypeOK
  <1>5. AllocatingInv'
    BY <1>1 DEF AllocatingInv
  <1>6. StoreInv'
    BY <1>1, <1>3 DEF StoreInv, TypeOK
  <1> QED
    BY <1>4, <1>5, <1>6

\* A restarted daemon remembers what the file holds.
LEMMA RestartInv ==
    ASSUME IInv, Restart
    PROVE  IInv'
  <1> USE DEF IInv
  <1>1. /\ runtimes' = << >> /\ allocating' = {} /\ UNCHANGED <<file, readable, taken>>
        /\ dirty' = FALSE
    BY DEF Restart, Store!Load
  <1>2. Store!NoPorts \in [Name -> Port \cup {0}] /\ \A n \in Name : Store!NoPorts[n] = 0
    BY DEF Store!NoPorts
  <1>3. /\ readable => ports' = file /\ told' = told
        /\ ~readable => ports' = Store!NoPorts /\ told' = Store!NoPorts
    BY Zenon DEF Restart, Store!Load
  <1>4. TypeOK'
    <2>1. dirty' \in BOOLEAN /\ readable' \in BOOLEAN
      BY <1>1, Zenon DEF TypeOK
    <2> QED
      BY <1>1, <1>2, <1>3, <2>1 DEF TypeOK
  <1>5. AllocatingInv'
    BY <1>1 DEF AllocatingInv
  <1>6. StoreInv'
    BY <1>1, <1>2, <1>3 DEF StoreInv
  <1> QED
    BY <1>4, <1>5, <1>6

\* Other processes and a damaged file disturb nothing the invariant relates.
LEMMA EnvironmentInv ==
    ASSUME IInv, taken' \subseteq Port, readable' \in BOOLEAN, readable' => readable,
           UNCHANGED <<runtimes, ports, dirty, file, allocating, told>>
    PROVE  IInv'
  <1>1. TypeOK'
    BY DEF IInv, TypeOK
  <1>2. AllocatingInv'
    BY DEF IInv, AllocatingInv, Candidate, startOffset
  <1>3. StoreInv'
    BY DEF IInv, StoreInv
  <1> QED
    BY <1>1, <1>2, <1>3 DEF IInv

\* Every step keeps the invariant.
LEMMA NextIInv == IInv /\ [Next]_vars => IInv'
  <1> SUFFICES ASSUME IInv, [Next]_vars PROVE IInv'
    OBVIOUS
  <1>1. ASSUME NEW name \in Name, NEW preferred \in Preferred, EnsureTCPRuntime(name, preferred)
        PROVE  IInv'
    BY <1>1, EnsureTCPRuntimeInv
  <1>2. ASSUME NEW a \in allocating, Try(a) PROVE IInv'
    BY <1>2, SkipInv, RefuseInv, GrantInv DEF Try
  <1>3. ASSUME NEW a \in allocating, Exhaust(a) PROVE IInv'
    BY <1>3 DEF Exhaust, storeVars, IInv, TypeOK, AllocatingInv, StoreInv
  <1>4. CASE Shutdown
    BY <1>4, ShutdownInv
  <1>5. CASE Restart
    BY <1>5, RestartInv
  <1>6. ASSUME NEW port \in Port, OtherProcessBinds(port) \/ OtherProcessCloses(port)
        PROVE  IInv'
    BY <1>6, EnvironmentInv
       DEF OtherProcessBinds, OtherProcessCloses, storeVars, IInv, TypeOK
  <1>7. CASE Damage
    <2>1. readable' \in BOOLEAN /\ (readable' => readable)
      BY <1>7, Zenon DEF Damage
    <2> QED
      BY <1>7, <2>1, EnvironmentInv DEF Damage, IInv, TypeOK
  <1>8. CASE UNCHANGED vars
    BY <1>8, EnvironmentInv DEF vars, storeVars, IInv, TypeOK
  <1> QED
    BY <1>1, <1>2, <1>3, <1>4, <1>5, <1>6, <1>7, <1>8 DEF Next

\* The inductive invariant holds in every reachable state.
THEOREM InductiveInvariant == Spec => []IInv
  BY InitIInv, NextIInv, PTL DEF Spec

\* Every variable keeps its type, so every frontend is a port of the range or
\* a preferred one.
THEOREM TypeCorrect == Spec => []TypeOK
  <1>1. IInv => TypeOK
    BY DEF IInv
  <1> QED
    BY <1>1, InductiveInvariant, PTL

\* A running frontend is on disk, whatever writes failed before.
THEOREM AssignmentStaysDurable == Spec => []AssignmentIsDurable
  <1>1. IInv => AssignmentIsDurable
    <2> SUFFICES ASSUME IInv, NEW n \in DOMAIN runtimes, readable
                 PROVE  file[n] = runtimes[n]
      BY DEF AssignmentIsDurable
    <2>1. n \in Name /\ runtimes[n] # 0 /\ told[n] = runtimes[n]
      BY RangeAssumption DEF IInv, TypeOK, StoreInv, Port
    <2> QED
      BY <2>1 DEF IInv, StoreInv
  <1> QED
    BY <1>1, InductiveInvariant, PTL

\* The scan tries every port of the range before it gives up.
THEOREM ExhaustionIsReal == Spec => []ExhaustedMeansFull
  <1>1. IInv => ExhaustedMeansFull
    <2> SUFFICES ASSUME IInv, NEW a \in allocating, a.attempt > LastAttempt,
                        NEW port \in PortMin .. PortMax
                 PROVE  port \in a.refused
      BY DEF ExhaustedMeansFull
    <2>1. a \in Allocation /\ a.attempt \in Nat /\ a.name \in Name
      BY DEF IInv, TypeOK, Allocation
    <2>2. Size \in Nat /\ Size > 0
      BY RangeAssumption DEF Size
    <2>3. startOffset(a.name) \in 0 .. (Size - 1)
      BY <2>1, <2>2, HashAssumption DEF startOffset
    <2>4. PICK i \in 0 .. (Size - 1) : PortMin + ((startOffset(a.name) + i) % Size) = port
      BY <2>3, ScanCovers
    <2>5. i + 3 \in 1 .. (a.attempt - 1) /\ i + 3 - 3 = i /\ i + 3 # 1 /\ i + 3 # 2
      BY <2>1, <2>2 DEF LastAttempt
    <2>6. Candidate(a, i + 3) = port
      BY <2>4, <2>5 DEF Candidate
    <2> QED
      BY <2>5, <2>6, RangeAssumption DEF IInv, AllocatingInv
  <1> QED
    BY <1>1, InductiveInvariant, PTL

-----------------------------------------------------------------------------
(* Steps of the listeners. *)

\* A step leaves the listeners alone, closes all of them, or adds one for a
\* name that had none, on a port nobody else holds and, if consumers still
\* rely on a port, on that one.
LEMMA RuntimesStep ==
    ASSUME IInv, [Next]_vars
    PROVE  \/ runtimes' = runtimes
           \/ runtimes' = << >>
           \/ \E name \in Name, port \in Port :
                /\ Abstract!Bind(name, port)
                /\ told[name] # 0 => port = told[name]
  <1>1. ASSUME NEW a \in allocating, ~Skipped(a), ~Busy(Current(a)), Grant(a)
        PROVE  \/ runtimes' = runtimes
               \/ \E name \in Name, port \in Port :
                    /\ Abstract!Bind(name, port)
                    /\ told[name] # 0 => port = told[name]
    <2>1. a \in Allocation /\ a.name \in Name /\ a.name \notin DOMAIN runtimes
      BY DEF IInv, TypeOK, Allocation, AllocatingInv
    <2>2. Current(a) \in Port
      BY <1>1, <2>1, CandidateType DEF Current, Skipped, Allocation
    <2>3. told[a.name] # 0 => Current(a) = told[a.name]
      BY ToldIsRemembered
    <2>4. runtimes' = runtimes \/ Bound(a.name, Current(a))
      BY <1>1 DEF Grant
    <2>5. Current(a) \notin Abstract!Range(runtimes)
      BY <1>1 DEF Busy, Range, Abstract!Range
    <2> QED
      BY <2>1, <2>2, <2>3, <2>4, <2>5 DEF Bound, Abstract!Bind
  <1>2. \/ runtimes' = runtimes
        \/ runtimes' = << >>
        \/ \E a \in allocating : ~Skipped(a) /\ ~Busy(Current(a)) /\ Grant(a)
    BY Zenon DEF Next, vars, EnsureTCPRuntime, Try, Refuse, Exhaust, Shutdown, Restart,
           OtherProcessBinds, OtherProcessCloses, Damage
  <1> QED
    BY <1>1, <1>2

\* A restarted service keeps its frontend unless the port was refused.
THEOREM FrontendIsKept == Spec => FrontendSurvivesRestart
  <1>1. IInv /\ [Next]_vars =>
          [\A n \in DOMAIN runtimes' \ DOMAIN runtimes :
              told[n] # 0 => runtimes'[n] = told[n]]_runtimes
    <2> SUFFICES ASSUME IInv, [Next]_vars,
                        NEW n \in DOMAIN runtimes' \ DOMAIN runtimes, told[n] # 0
                 PROVE  runtimes'[n] = told[n]
      OBVIOUS
    <2>1. PICK name \in Name, port \in Port :
             Abstract!Bind(name, port) /\ (told[name] # 0 => port = told[name])
      BY RuntimesStep
    <2> QED
      BY <2>1 DEF Abstract!Bind
  <1> QED
    BY <1>1, InductiveInvariant, PTL DEF Spec, FrontendSurvivesRestart

\* The allocator implements the abstract frontends the daemon is built on.
THEOREM Refinement == Spec => ImplementsStableFrontends
  <1>1. Init => Abstract!Init
    BY DEF Init, Abstract!Init
  <1>2. IInv /\ [Next]_vars => [Abstract!Next]_runtimes
    BY RuntimesStep DEF Abstract!Next, Abstract!Stop
  <1> QED
    BY <1>1, <1>2, InductiveInvariant, PTL DEF Spec, Abstract!Spec, ImplementsStableFrontends

=============================================================================
