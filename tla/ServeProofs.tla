----------------------------- MODULE ServeProofs ----------------------------
(***************************************************************************)
(* Proofs about Serve, for every set of processes, services and settings   *)
(* and any number of starts.                                               *)
(***************************************************************************)
EXTENDS Serve, TLAPS

-----------------------------------------------------------------------------
(* The inductive invariant. *)

\* A proxy address belongs to a process that has come past binding it; a
\* process that has, and does not serve yet, owns the ones it wants.
Ownership ==
    /\ \A e \in Endpoint, p \in Process :
          owner[e] = p => pc[p] \notin {"off", "load", "http", e}
    /\ \A p \in Process :
          /\ pc[p] \in Starting \ {"load", "http"} /\ "http" \in wants[p] => owner["http"] = p
          /\ pc[p] \in Starting \ {"load", "http", "https"} /\ "https" \in wants[p]
                => owner["https"] = p

\* Registrations are made by processes that serve or stop; what a stop that
\* was not cut short has waited for, and closed, is gone.
Registrations ==
    \A p \in Process :
        /\ busy[p] # {} => pc[p] \in Stopping \cup {"serving"}
        /\ pc[p] = "waitAll" => hasty[p]
        /\ ~hasty[p] =>
              /\ pc[p] \in Stopping \ {"drain"} => "api" \notin busy[p]
              /\ pc[p] \in {"close", "save", "unlink"} => "docker" \notin busy[p]
              /\ pc[p] \in {"save", "unlink"} => frontends[p] = {}

\* While no two processes have started or stopped at the same time, and no probe
\* of a live daemon has failed: one that has decided that the path is free is the
\* only one, it knows what is on file, and the path is as it found it.
Coordination ==
    \A p \in Process :
        /\ pc[p] \in Starting \cup Stopping => Alone(p)
        /\ Listens(p) => path = p
        /\ pc[p] \in {"remove", "listen", "chmod"} \cup Stopping
              => \A q \in Process \ {p} : pc[q] # "serving"
        /\ pc[p] \notin {"off", "load"} /\ (\A q \in Process \ {p} : pc[q] # "serving")
              => disk \subseteq mem[p]
        /\ pc[p] \in {"dial", "remove"} => path \notin {Nobody, Foreign}
        /\ pc[p] = "listen" => path = Nobody

IInv ==
    /\ TypeOK
    /\ Ownership
    /\ Registrations
    /\ ~disorder => Coordination

-----------------------------------------------------------------------------
(* Steps. *)

\* A start is given up: the process ends, and only a failed Chmod touches the
\* path.
GivesUp(p) ==
    /\ Exits(p)
    /\ path' # path => path' = Nobody /\ pc[p] = "chmod"
    /\ refused' \in {refused, refused \cup {p}}
    /\ UNCHANGED <<disk, disorder, starts>>

\* The two ways of giving up that most steps of a start have.
LEMMA GivingUp ==
    ASSUME NEW p \in Process, Refuses(p) \/ Fails(p)
    PROVE  GivesUp(p)
  BY DEF Refuses, Fails, GivesUp

-----------------------------------------------------------------------------
(* Type correctness. *)

\* A process ends in a well-formed state.
LEMMA ExitsType ==
    ASSUME TypeOK, NEW p \in Process, Exits(p)
    PROVE  /\ pc' \in [Process -> {"off", "serving"} \cup Starting \cup Stopping]
           /\ owner' \in [Endpoint -> Process \cup {Nobody, Foreign}]
           /\ wants' \in [Process -> SUBSET Endpoint]
           /\ mem' \in [Process -> SUBSET Service]
           /\ busy' \in [Process -> SUBSET {"api", "docker"}]
           /\ frontends' \in [Process -> SUBSET Service]
           /\ hasty' \in [Process -> BOOLEAN]
  BY DEF TypeOK, Exits, Goes

\* Giving up a start keeps the state well formed.
LEMMA GivesUpType ==
    ASSUME TypeOK, NEW p \in Process, GivesUp(p)
    PROVE  TypeOK'
  <1>1. refused' \subseteq Process
    BY DEF TypeOK, GivesUp
  <1> QED
    BY ExitsType, <1>1 DEF TypeOK, GivesUp

\* Every step keeps the state well formed.
LEMMA TypeStep ==
    ASSUME TypeOK, [Next]_vars
    PROVE  TypeOK'
  <1>1. CASE UNCHANGED vars
    BY <1>1 DEF TypeOK, vars, processVars
  <1>2. ASSUME NEW p \in Process, NEW c \in Configs, Start(p, c)
        PROVE  TypeOK'
    BY <1>2, StartsAssumption DEF TypeOK, Start, Goes, Wants, Starting
  <1>3. ASSUME NEW p \in Process, Load(p) PROVE TypeOK'
    BY <1>3, GivesUpType, GivingUp DEF TypeOK, Load, Goes, Starting, Endpoint
  <1>4. ASSUME NEW p \in Process, NEW e \in Endpoint, Bind(p, e) PROVE TypeOK'
    BY <1>4, GivesUpType, GivingUp DEF TypeOK, Bind, Goes, Starting, Endpoint, processVars
  <1>5. ASSUME NEW p \in Process, Lstat(p) PROVE TypeOK'
    BY <1>5, GivesUpType, GivingUp DEF TypeOK, Lstat, Goes, Starting, processVars
  <1>6. ASSUME NEW p \in Process, Dial(p) PROVE TypeOK'
    <2>1. disorder' \in BOOLEAN
      BY <1>6, Zenon DEF TypeOK, Dial, Refuses
    <2> QED
      BY <1>6, <2>1, GivesUpType, GivingUp DEF TypeOK, Dial, Goes, Starting, processVars
  <1>7. ASSUME NEW p \in Process, Remove(p) PROVE TypeOK'
    BY <1>7, GivesUpType, GivingUp DEF TypeOK, Remove, Goes, Starting, processVars
  <1>8. ASSUME NEW p \in Process, Listen(p) PROVE TypeOK'
    BY <1>8, GivesUpType, GivingUp DEF TypeOK, Listen, Goes, Starting, processVars
  <1>9. ASSUME NEW p \in Process, Chmod(p) PROVE TypeOK'
    BY <1>9, GivesUpType, GivingUp DEF TypeOK, Chmod, GivesUp, Goes, Starting, processVars
  <1>10. ASSUME NEW p \in Process, NEW o \in {"api", "docker"}, Request(p, o) PROVE TypeOK'
    BY <1>10 DEF TypeOK, Request
  <1>11. ASSUME NEW p \in Process, NEW o \in {"api", "docker"}, NEW s \in Service,
                Register(p, o, s)
         PROVE  TypeOK'
    <2>1. mem' \in [Process -> SUBSET Service] /\ disk' \subseteq Service
      BY <1>11 DEF TypeOK, Register
    <2>2. busy' \in [Process -> SUBSET {"api", "docker"}]
      BY <1>11 DEF TypeOK, Register
    <2>3. frontends' \in [Process -> SUBSET Service]
      BY <1>11 DEF TypeOK, Register
    <2> QED
      BY <1>11, <2>1, <2>2, <2>3, Zenon DEF TypeOK, Register
  <1>12. ASSUME NEW p \in Process, Stop(p) \/ AcceptFails(p) PROVE TypeOK'
    <2>1. hasty' \in [Process -> BOOLEAN] /\ disorder' \in BOOLEAN
      BY <1>12, Zenon DEF TypeOK, Stop, AcceptFails, CloseListener
    <2> QED
      BY <1>12, <2>1 DEF TypeOK, Stop, AcceptFails, CloseListener, Goes, Stopping
  <1>13. ASSUME NEW p \in Process, Drain(p) \/ Wait(p) PROVE TypeOK'
    <2>1. hasty' \in [Process -> BOOLEAN]
      BY <1>13, Zenon DEF TypeOK, Drain, Wait
    <2> QED
      BY <1>13, <2>1 DEF TypeOK, Drain, Wait, Goes, Stopping
  <1>14. ASSUME NEW p \in Process, NEW e \in Endpoint, CloseProxy(p, e) PROVE TypeOK'
    BY <1>14 DEF TypeOK, CloseProxy, processVars
  <1>15. ASSUME NEW p \in Process, CloseRuntimes(p) \/ Save(p) PROVE TypeOK'
    BY <1>15 DEF TypeOK, CloseRuntimes, Save, Goes, Stopping, processVars
  <1>16. ASSUME NEW p \in Process, RemoveSocket(p) \/ Crash(p) PROVE TypeOK'
    <2>1. disorder' \in BOOLEAN
      BY <1>16, Zenon DEF TypeOK, RemoveSocket, Crash
    <2> QED
      BY <1>16, <2>1, ExitsType DEF TypeOK, RemoveSocket, Crash
  <1>17. ASSUME NEW e \in Contested, OtherProgram(e) PROVE TypeOK'
    BY <1>17, Zenon DEF TypeOK, OtherProgram, processVars
  <1> QED
    BY <1>1, <1>2, <1>3, <1>4, <1>5, <1>6, <1>7, <1>8, <1>9, <1>10, <1>11, <1>12, <1>13,
       <1>14, <1>15, <1>16, <1>17
    DEF Next, Step, StartUp, Shutdown

-----------------------------------------------------------------------------
(* The addresses. *)

\* The end of a process frees its addresses and nobody else's.
LEMMA ExitsOwnership ==
    ASSUME TypeOK, Ownership, NEW p \in Process, Exits(p)
    PROVE  Ownership'
  <1> USE ProcessAssumption DEF TypeOK, Exits, Goes, Endpoint
  <1>1. ASSUME NEW e \in Endpoint, NEW q \in Process, owner'[e] = q
        PROVE  pc'[q] \notin {"off", "load", "http", e}
    BY <1>1 DEF Ownership
  <1>2. ASSUME NEW q \in Process, NEW e \in Endpoint, q # p
        PROVE  pc'[q] = pc[q] /\ wants'[q] = wants[q] /\ (owner[e] = q => owner'[e] = q)
    BY <1>2
  <1>3. pc'[p] = "off"
    OBVIOUS
  <1> QED
    BY <1>1, <1>2, <1>3 DEF Ownership, Starting

\* Every step keeps the bookkeeping of the addresses.
LEMMA OwnershipStep ==
    ASSUME TypeOK, Ownership, [Next]_vars
    PROVE  Ownership'
  <1> USE ProcessAssumption
  <1>1. CASE UNCHANGED vars
    BY <1>1 DEF Ownership, vars, processVars
  <1>2. ASSUME NEW p \in Process, NEW c \in Configs, Start(p, c)
        PROVE  Ownership'
    BY <1>2 DEF TypeOK, Ownership, Start, Goes, Starting, Endpoint
  <1>3. ASSUME NEW p \in Process, GivesUp(p) \/ RemoveSocket(p) \/ Crash(p) PROVE Ownership'
    BY <1>3, ExitsOwnership DEF GivesUp, RemoveSocket, Crash
  <1>4. ASSUME NEW p \in Process, Load(p) PROVE Ownership'
    <2>1. CASE GivesUp(p)
      BY <1>3, <2>1
    <2> QED
      BY <1>4, <2>1, GivingUp DEF TypeOK, Ownership, Load, Goes, Starting, Endpoint
  <1>5. ASSUME NEW p \in Process, NEW e \in Endpoint, Bind(p, e) PROVE Ownership'
    <2>1. CASE GivesUp(p)
      BY <1>3, <2>1
    <2>2. CASE ~GivesUp(p) /\ e = "http"
      BY <1>5, <2>2, GivingUp
      DEF TypeOK, Ownership, Bind, Goes, Starting, Endpoint, processVars
    <2>3. CASE ~GivesUp(p) /\ e = "https"
      BY <1>5, <2>3, GivingUp
      DEF TypeOK, Ownership, Bind, Goes, Starting, Endpoint, processVars
    <2> QED
      BY <2>1, <2>2, <2>3 DEF Endpoint
  <1>6. ASSUME NEW p \in Process, UNCHANGED <<owner, wants>>, NEW to, Goes(p, to),
               \/ /\ pc[p] \in Starting \ {"load", "http", "https"}
                  /\ to \in (Starting \ {"load", "http", "https"}) \cup {"serving"}
               \/ pc[p] \in Stopping \cup {"serving"} /\ to \in Stopping
        PROVE  Ownership'
    BY <1>6 DEF TypeOK, Ownership, Goes, Starting, Stopping, Endpoint
  <1>7. ASSUME NEW p \in Process, Lstat(p) \/ Dial(p) \/ Remove(p) PROVE Ownership'
    <2>1. \/ GivesUp(p)
          \/ /\ pc[p] \in {"lstat", "dial", "remove"} /\ UNCHANGED <<owner, wants>>
             /\ Goes(p, "listen") \/ Goes(p, "dial") \/ Goes(p, "remove")
      BY <1>7, GivingUp DEF Lstat, Dial, Remove, processVars
    <2> QED
      BY <1>3, <1>6, <2>1 DEF Starting, Endpoint
  <1>8. ASSUME NEW p \in Process, Listen(p) \/ Chmod(p) PROVE Ownership'
    <2>1. \/ GivesUp(p)
          \/ /\ pc[p] \in {"listen", "chmod"} /\ UNCHANGED <<owner, wants>>
             /\ Goes(p, "chmod") \/ Goes(p, "serving")
      BY <1>8, GivingUp DEF Listen, Chmod, GivesUp, processVars
    <2> QED
      BY <1>3, <1>6, <2>1 DEF Starting, Endpoint
  <1>9. ASSUME NEW p \in Process, Stop(p) \/ AcceptFails(p) PROVE Ownership'
    BY <1>6, <1>9 DEF Stop, AcceptFails, CloseListener, Stopping
  <1>10. ASSUME NEW p \in Process, Drain(p) \/ Wait(p) \/ CloseRuntimes(p) \/ Save(p)
         PROVE  Ownership'
    BY <1>6, <1>10 DEF Drain, Wait, CloseRuntimes, Save, Stopping, processVars
  <1>11. ASSUME UNCHANGED <<pc, owner, wants>> PROVE Ownership'
    BY <1>11 DEF Ownership
  <1>12. ASSUME NEW p \in Process, NEW o \in {"api", "docker"},
                Request(p, o) \/ \E s \in Service : Register(p, o, s)
         PROVE  Ownership'
    BY <1>11, <1>12 DEF Request, Register
  <1>13. ASSUME NEW p \in Process, NEW e \in Endpoint, CloseProxy(p, e) PROVE Ownership'
    BY <1>13 DEF TypeOK, Ownership, CloseProxy, Starting, Stopping, Endpoint, processVars
  <1>14. ASSUME NEW e \in Contested, OtherProgram(e) PROVE Ownership'
    BY <1>14 DEF TypeOK, Ownership, OtherProgram, Starting, Endpoint, processVars
  <1> QED
    BY <1>1, <1>2, <1>3, <1>4, <1>5, <1>7, <1>8, <1>9, <1>10, <1>12, <1>13, <1>14
    DEF Next, Step, StartUp, Shutdown

-----------------------------------------------------------------------------
(* The registrations. *)

\* Every step keeps the bookkeeping of the registrations.
LEMMA RegistrationsStep ==
    ASSUME TypeOK, Registrations, [Next]_vars
    PROVE  Registrations'
  <1>1. CASE UNCHANGED vars
    BY <1>1 DEF Registrations, vars, processVars
  <1>2. ASSUME NEW p \in Process, Exits(p) PROVE Registrations'
    BY <1>2 DEF TypeOK, Registrations, Exits, Goes, Stopping
  <1>3. ASSUME NEW p \in Process, NEW to \in Starting \cup {"serving"},
               pc[p] \in Starting \cup {"off"}, Goes(p, to), UNCHANGED <<busy, frontends, hasty>>
        PROVE  Registrations'
    BY <1>3 DEF TypeOK, Registrations, Goes, Starting, Stopping, Endpoint
  <1>4. ASSUME NEW p \in Process, NEW c \in Configs, Start(p, c) PROVE Registrations'
    BY <1>3, <1>4 DEF Start, Starting
  <1>5. ASSUME NEW p \in Process, StartUp(p) PROVE Registrations'
    <2>1. CASE GivesUp(p)
      BY <1>2, <2>1 DEF GivesUp
    <2>2. CASE ~GivesUp(p) /\ Load(p)
      BY <1>3, <2>2, GivingUp DEF Load, Starting, Endpoint
    <2>3. CASE ~GivesUp(p) /\ \E e \in Endpoint : Bind(p, e)
      BY <1>3, <2>3, GivingUp DEF Bind, Starting, Endpoint, processVars
    <2>4. CASE ~GivesUp(p) /\ (Lstat(p) \/ Dial(p) \/ Remove(p))
      BY <1>3, <2>4, GivingUp DEF Lstat, Dial, Remove, Starting, processVars
    <2>5. CASE ~GivesUp(p) /\ (Listen(p) \/ Chmod(p))
      BY <1>3, <2>5, GivingUp DEF Listen, Chmod, GivesUp, Starting, processVars
    <2> QED
      BY <1>5, <2>1, <2>2, <2>3, <2>4, <2>5 DEF StartUp
  <1>6. ASSUME NEW p \in Process, NEW o \in {"api", "docker"}, Request(p, o)
        PROVE  Registrations'
    BY <1>6 DEF TypeOK, Registrations, Request, Stopping
  <1>7. ASSUME NEW p \in Process, NEW o \in {"api", "docker"}, NEW s \in Service,
               Register(p, o, s)
        PROVE  Registrations'
    BY <1>7 DEF TypeOK, Registrations, Register, Stopping
  <1>8. ASSUME NEW p \in Process, Stop(p) PROVE Registrations'
    BY <1>8 DEF TypeOK, Registrations, Stop, CloseListener, Goes, Stopping
  <1>9. ASSUME NEW p \in Process, AcceptFails(p) PROVE Registrations'
    BY <1>9 DEF TypeOK, Registrations, AcceptFails, CloseListener, Goes, Stopping
  <1>10. ASSUME NEW p \in Process, Drain(p) PROVE Registrations'
    BY <1>10, Zenon DEF TypeOK, Registrations, Drain, Goes, Stopping
  <1>11. ASSUME NEW p \in Process, Wait(p) PROVE Registrations'
    BY <1>11, Zenon DEF TypeOK, Registrations, Wait, Goes, Stopping
  <1>12. ASSUME NEW p \in Process, CloseRuntimes(p) \/ Save(p) PROVE Registrations'
    BY <1>12 DEF TypeOK, Registrations, CloseRuntimes, Save, Goes, Stopping, processVars
  <1>13. ASSUME NEW p \in Process, NEW e \in Endpoint, CloseProxy(p, e) PROVE Registrations'
    BY <1>13 DEF Registrations, CloseProxy, processVars
  <1>14. ASSUME NEW e \in Contested, OtherProgram(e) PROVE Registrations'
    BY <1>14 DEF Registrations, OtherProgram, processVars
  <1> QED
    BY <1>1, <1>2, <1>4, <1>5, <1>6, <1>7, <1>8, <1>9, <1>10, <1>11, <1>12, <1>13, <1>14
    DEF Next, Step, Shutdown, RemoveSocket, Crash

-----------------------------------------------------------------------------
(* The socket and the state file. *)

\* A process that ends where nobody else starts or stops leaves the others what
\* they rely on: the path, the file and their memory.
LEMMA ExitsCoordination ==
    ASSUME TypeOK, Coordination, NEW p \in Process, Exits(p), Alone(p),
           path' \in {path, Nobody}, disk' = disk,
           path' # path => pc[p] \in Stopping \cup {"chmod"}
    PROVE  Coordination'
  <1> USE ProcessAssumption DEF TypeOK, Exits, Goes, Alone, Listens
  <1> SUFFICES ASSUME NEW q \in Process, q # p
               PROVE  /\ pc'[q] \in {"off", "serving"}
                      /\ Listens(q)' => path' = q
                      /\ pc'[q] # "off" => disk' \subseteq mem'[q]
    BY DEF Coordination, Starting, Stopping
  <1>1. pc'[q] \in {"off", "serving"} /\ pc'[q] = pc[q] /\ mem'[q] = mem[q]
    OBVIOUS
  <1>2. ASSUME pc[q] = "serving" PROVE path' = q /\ disk \subseteq mem[q]
    BY <1>2 DEF Coordination
  <1> QED
    BY <1>1, <1>2

\* Every step that is not amid another's start or stop keeps the coordination.
LEMMA CoordinationStep ==
    ASSUME TypeOK, Registrations, ~disorder => Coordination, [Next]_vars, ~disorder'
    PROVE  Coordination'
  <1> USE ProcessAssumption
  <1>1. CASE UNCHANGED vars
    BY <1>1 DEF Coordination, Alone, Listens, vars, processVars
  <1>2. ASSUME NEW p \in Process, NEW c \in Configs, Start(p, c) PROVE Coordination'
    <2>1. ~disorder /\ Alone(p)
      BY <1>2, Zenon DEF Start
    <2> QED
      BY <1>2, <2>1 DEF TypeOK, Coordination, Start, Goes, Alone, Listens, Starting, Stopping,
                        Endpoint
  <1>3. ASSUME NEW p \in Process, GivesUp(p), pc[p] \in Starting PROVE Coordination'
    <2>1. Coordination /\ Alone(p)
      BY <1>3 DEF GivesUp, Coordination
    <2> QED
      BY <1>3, <2>1, ExitsCoordination DEF GivesUp
  <1>4. ASSUME NEW p \in Process, Load(p) PROVE Coordination'
    <2>1. CASE GivesUp(p)
      BY <1>3, <1>4, <2>1 DEF Load, Starting
    <2> QED
      BY <1>4, <2>1, GivingUp
      DEF TypeOK, Coordination, Load, Goes, Alone, Listens, Starting, Stopping, Endpoint
  <1>5. ASSUME NEW p \in Process, NEW e \in Endpoint, Bind(p, e) PROVE Coordination'
    <2>1. CASE GivesUp(p)
      BY <1>3, <1>5, <2>1, Zenon DEF Bind, Starting
    <2> QED
      BY <1>5, <2>1, GivingUp
      DEF TypeOK, Coordination, Bind, Goes, Alone, Listens, Starting, Stopping,
          Endpoint, processVars
  <1>6. ASSUME NEW p \in Process, Lstat(p) PROVE Coordination'
    <2>1. CASE GivesUp(p)
      BY <1>3, <1>6, <2>1 DEF Lstat, Starting
    <2> QED
      BY <1>6, <2>1, GivingUp
      DEF TypeOK, Coordination, Lstat, Goes, Alone, Listens, Starting, Stopping,
          processVars
  <1>7. ASSUME NEW p \in Process, Dial(p) PROVE Coordination'
    <2>1. CASE GivesUp(p)
      BY <1>3, <1>7, <2>1 DEF Dial, Starting
    <2>2. CASE ~GivesUp(p)
      <3>1. /\ ~Answered /\ Coordination
            /\ pc[p] = "dial" /\ Goes(p, "remove") /\ UNCHANGED <<path, mem, disk>>
        BY <1>7, <2>2, GivingUp, Zenon DEF Dial, processVars
      <3>2. \A q \in Process \ {p} : pc[q] = "off"
        BY <3>1 DEF Coordination, Answered, Alone, Listens, Starting
      <3> QED
        BY <3>1, <3>2 DEF TypeOK, Coordination, Goes, Alone, Listens, Starting, Stopping
    <2> QED
      BY <2>1, <2>2
  <1>8. ASSUME NEW p \in Process, Remove(p) PROVE Coordination'
    <2>1. CASE GivesUp(p)
      BY <1>3, <1>8, <2>1 DEF Remove, Starting
    <2> QED
      BY <1>8, <2>1, GivingUp
      DEF TypeOK, Coordination, Remove, Goes, Alone, Listens, Starting, Stopping,
          processVars
  <1>9. ASSUME NEW p \in Process, Listen(p) PROVE Coordination'
    <2>1. CASE GivesUp(p)
      BY <1>3, <1>9, <2>1 DEF Listen, Starting
    <2> QED
      BY <1>9, <2>1, GivingUp
      DEF TypeOK, Coordination, Listen, Goes, Alone, Listens, Starting, Stopping,
          processVars
  <1>10. ASSUME NEW p \in Process, Chmod(p) PROVE Coordination'
    <2>1. CASE GivesUp(p)
      BY <1>3, <1>10, <2>1 DEF Chmod, Starting
    <2> QED
      BY <1>10, <2>1, GivingUp
      DEF TypeOK, Coordination, Chmod, GivesUp, Goes, Alone, Listens, Starting, Stopping,
          processVars
  <1>11. ASSUME NEW p \in Process, NEW o \in {"api", "docker"}, Request(p, o)
         PROVE  Coordination'
    BY <1>11, Zenon DEF Coordination, Request, Alone, Listens
  <1>12. ASSUME NEW p \in Process, NEW o \in {"api", "docker"}, NEW s \in Service,
                Register(p, o, s)
         PROVE  Coordination'
    <2>1. pc[p] \in Stopping \cup {"serving"} /\ Coordination /\ UNCHANGED <<pc, path>>
      BY <1>12 DEF Registrations, Register
    <2>2. \A q \in Process \ {p} : pc[q] # "serving"
      BY <2>1 DEF Coordination, Listens
    <2>3. disk \subseteq mem[p]
      BY <2>1, <2>2 DEF Coordination, Stopping
    <2>4. disk' \subseteq mem'[p] /\ \A q \in Process \ {p} : mem'[q] = mem[q]
      BY <1>12, <2>3 DEF TypeOK, Register
    <2>5. ASSUME NEW q \in Process \ {p}, pc[q] \notin {"off", "load"},
                 \A r \in Process \ {q} : pc[r] # "serving"
          PROVE  FALSE
      BY <2>1, <2>2, <2>5 DEF TypeOK, Coordination, Alone
    <2> QED
      BY <2>1, <2>4, <2>5, Zenon DEF Coordination, Alone, Listens
  <1>13. ASSUME NEW p \in Process, Stop(p) \/ AcceptFails(p) PROVE Coordination'
    <2>1. ~disorder /\ Alone(p) /\ pc[p] = "serving"
      BY <1>13, Zenon DEF Stop, AcceptFails, CloseListener
    <2>2. \A q \in Process \ {p} : pc[q] = "off"
      BY <2>1 DEF Coordination, Alone, Listens
    <2>3. /\ path' = Nobody /\ UNCHANGED <<mem, disk>>
          /\ Goes(p, "drain") \/ Goes(p, "waitAll")
      BY <1>13 DEF Stop, AcceptFails, CloseListener
    <2> QED
      BY <2>1, <2>2, <2>3 DEF TypeOK, Coordination, Goes, Alone, Listens, Starting, Stopping,
                              Endpoint
  <1>14. ASSUME NEW p \in Process, Drain(p) \/ Wait(p) \/ CloseRuntimes(p) \/ Save(p)
         PROVE  Coordination'
    <2>1. /\ pc[p] \in Stopping /\ Coordination
          /\ UNCHANGED <<path, mem>> /\ disk' \in {disk, mem[p]}
          /\ Goes(p, "wait") \/ Goes(p, "close") \/ Goes(p, "save") \/ Goes(p, "unlink")
      BY <1>14, Zenon DEF Drain, Wait, CloseRuntimes, Save, Stopping, processVars
    <2>2. \A q \in Process \ {p} : pc[q] = "off"
      BY <2>1 DEF Coordination, Alone
    <2> QED
      BY <2>1, <2>2 DEF TypeOK, Coordination, Goes, Alone, Listens, Starting, Stopping, Endpoint
  <1>15. ASSUME NEW p \in Process, NEW e \in Endpoint, CloseProxy(p, e) PROVE Coordination'
    BY <1>15 DEF Coordination, CloseProxy, Alone, Listens, processVars
  <1>16. ASSUME NEW p \in Process, RemoveSocket(p) PROVE Coordination'
    <2>1. Coordination /\ Alone(p) /\ pc[p] = "unlink"
      BY <1>16 DEF RemoveSocket, Coordination, Stopping
    <2> QED
      BY <1>16, <2>1, ExitsCoordination DEF RemoveSocket, Stopping
  <1>17. ASSUME NEW p \in Process, Crash(p) PROVE Coordination'
    <2>1. ~disorder /\ Alone(p)
      BY <1>17, Zenon DEF Crash
    <2> QED
      BY <1>17, <2>1, ExitsCoordination DEF Crash
  <1>18. ASSUME NEW e \in Contested, OtherProgram(e) PROVE Coordination'
    BY <1>18 DEF Coordination, OtherProgram, Alone, Listens, processVars
  <1> QED
    BY <1>1, <1>2, <1>4, <1>5, <1>6, <1>7, <1>8, <1>9, <1>10, <1>11, <1>12, <1>13, <1>14,
       <1>15, <1>16, <1>17, <1>18
    DEF Next, Step, StartUp, Shutdown

-----------------------------------------------------------------------------
(* Theorems. *)

\* The inductive invariant holds in every reachable state.
THEOREM Invariance == Spec => []IInv
  <1>1. Init => IInv
    <2> SUFFICES ASSUME Init PROVE IInv
      OBVIOUS
    <2>1. TypeOK
      <3>1. hasty \in [Process -> BOOLEAN] /\ disorder \in BOOLEAN
        BY Zenon DEF Init
      <3>2. starts \in 0 .. MaxStarts
        BY StartsAssumption DEF Init
      <3> QED
        BY <3>1, <3>2 DEF Init, TypeOK
    <2>2. Ownership
      BY ProcessAssumption DEF Init, Ownership, Starting, Endpoint
    <2>3. Registrations
      BY Zenon DEF Init, Registrations, Stopping
    <2>4. Coordination
      BY Zenon DEF Init, Coordination, Listens, Starting, Stopping, Endpoint
    <2> QED
      BY <2>1, <2>2, <2>3, <2>4, Zenon DEF IInv
  <1>2. IInv /\ [Next]_vars => IInv'
    <2> SUFFICES ASSUME IInv, [Next]_vars PROVE IInv'
      OBVIOUS
    <2>1. TypeOK /\ Ownership /\ Registrations /\ (~disorder => Coordination)
      BY Zenon DEF IInv
    <2>2. TypeOK'
      BY <2>1, TypeStep
    <2>3. Ownership'
      BY <2>1, OwnershipStep
    <2>4. Registrations'
      BY <2>1, RegistrationsStep
    <2>5. ASSUME ~disorder' PROVE Coordination'
      BY <2>1, <2>5, CoordinationStep
    <2> QED
      BY <2>2, <2>3, <2>4, <2>5, Zenon DEF IInv
  <1> QED
    BY <1>1, <1>2, PTL DEF Spec

\* Type correctness of the daemon's lifecycle.
THEOREM ServeTypeCorrect == Spec => []TypeOK
  <1>1. IInv => TypeOK
    BY Zenon DEF IInv
  <1> QED
    BY <1>1, Invariance, PTL

\* Unless processes start or stop at the same time, the daemon that serves is
\* the one clients reach (transport.Listen removes no live socket).
THEOREM Reachable == Spec => []ServingIsReachable
  <1>1. IInv => ServingIsReachable
    <2> SUFFICES ASSUME IInv, ~disorder, NEW p \in Process, pc[p] = "serving"
                 PROVE  path = p
      BY Zenon DEF ServingIsReachable
    <2> QED
      BY DEF IInv, Coordination, Listens
  <1> QED
    BY <1>1, Invariance, PTL

\* A shutdown that waited for the registrations leaves no frontend open
\* (Daemon.Shutdown).
THEOREM FrontendsAreClosed == Spec => []ShutdownClosesFrontends
  <1>1. IInv => ShutdownClosesFrontends
    BY DEF IInv, TypeOK, Registrations, ShutdownClosesFrontends, Stopping
  <1> QED
    BY <1>1, Invariance, PTL

\* Successful startup means every configured address is owned (New binds them
\* before Run takes the socket).
THEOREM EndpointsAreOwned == Spec => StartupOwnsItsEndpoints
  <1> DEFINE Owns == \A p \in Process :
                        pc[p] \in Starting /\ pc'[p] = "serving"
                           => \A e \in wants'[p] : owner'[e] = p
  <1>1. IInv /\ [Next]_vars => [Owns]_vars
    <2> SUFFICES ASSUME IInv, [Next]_vars, ~(UNCHANGED vars), NEW q \in Process,
                        pc[q] \in Starting, pc'[q] = "serving"
                 PROVE  \A e \in wants'[q] : owner'[e] = q
      BY Zenon
    <2>1. TypeOK /\ Ownership
      BY Zenon DEF IInv
    <2>2. pc[q] # "serving" /\ pc[q] \notin Stopping
      BY DEF Starting, Stopping, Endpoint
    <2>3. Chmod(q) /\ UNCHANGED <<owner, wants>>
      <3>1. ASSUME NEW p \in Process, NEW to, Goes(p, to), to # "serving" PROVE FALSE
        BY <2>1, <2>2, <3>1 DEF TypeOK, Goes
      <3>2. ASSUME UNCHANGED pc PROVE FALSE
        BY <2>2, <3>2
      <3>3. PICK p \in Process : Step(p)
        BY <3>2, Zenon DEF Next, OtherProgram
      <3>4. ASSUME Exits(p) PROVE FALSE
        BY <3>1, <3>4 DEF Exits
      <3>5. CASE StartUp(p)
        <4>1. ~Refuses(p) /\ ~Fails(p)
          BY <3>4 DEF Refuses, Fails
        <4>2. Chmod(p)
          BY <3>1, <3>5, <4>1 DEF StartUp, Load, Bind, Lstat, Dial, Remove, Listen
        <4>3. p = q
          BY <2>1, <2>2, <3>4, <4>1, <4>2 DEF TypeOK, Chmod, Goes
        <4> QED
          BY <3>4, <4>1, <4>2, <4>3 DEF Chmod, processVars
      <3>6. CASE \/ \E c \in Configs : Start(p, c)
                 \/ Stop(p) \/ AcceptFails(p) \/ Crash(p)
        BY <3>1, <3>4, <3>6, Zenon DEF Start, Stop, AcceptFails, CloseListener, Crash
      <3>7. CASE Shutdown(p)
        BY <3>1, <3>4, <3>7, Zenon DEF Shutdown, Drain, Wait, CloseRuntimes, Save, RemoveSocket
      <3>8. CASE \/ \E origin \in {"api", "docker"} :
                       Request(p, origin) \/ \E s \in Service : Register(p, origin, s)
                 \/ \E e \in Endpoint : CloseProxy(p, e)
        BY <3>2, <3>8 DEF Request, Register, CloseProxy
      <3> QED
        BY <3>3, <3>5, <3>6, <3>7, <3>8, Zenon DEF Step
    <2> QED
      BY <2>1, <2>3 DEF TypeOK, Ownership, Chmod, Starting, Endpoint
  <1> QED
    BY <1>1, Invariance, PTL DEF Spec, StartupOwnsItsEndpoints

\* Unless processes start or stop at the same time, nothing written to the state
\* file loses an assignment (SetPort and Shutdown write what Load has read).
THEOREM AssignmentsSurvive == Spec => AssignmentsAreKept
  <1>1. IInv /\ [Next]_vars => [~disorder' => disk \subseteq disk']_vars
    <2> SUFFICES ASSUME IInv, [Next]_vars, ~disorder' PROVE disk \subseteq disk'
      BY Zenon
    <2>1. TypeOK /\ Registrations /\ (~disorder => Coordination)
      BY Zenon DEF IInv
    <2>2. ASSUME NEW p \in Process, NEW o \in {"api", "docker"}, NEW s \in Service,
                 Register(p, o, s)
          PROVE  disk \subseteq disk'
      <3>1. pc[p] \in Stopping \cup {"serving"} /\ Coordination
        BY <2>1, <2>2 DEF Registrations, Register
      <3>2. \A q \in Process \ {p} : pc[q] # "serving"
        BY <3>1 DEF Coordination, Listens
      <3>3. disk \subseteq mem[p]
        BY <3>1, <3>2 DEF Coordination, Stopping
      <3> QED
        BY <2>2, <3>3 DEF Register
    <2>3. ASSUME NEW p \in Process, Save(p) PROVE disk \subseteq disk'
      <3>1. pc[p] = "save" /\ Coordination
        BY <2>1, <2>3 DEF Save
      <3>2. disk \subseteq mem[p]
        BY <3>1 DEF Coordination, Stopping
      <3> QED
        BY <2>3, <3>2 DEF Save
    <2>4. ASSUME UNCHANGED disk PROVE disk \subseteq disk'
      BY <2>4
    <2>5. ASSUME NEW p \in Process, StartUp(p) PROVE UNCHANGED disk
      BY <2>5, Zenon DEF StartUp, Load, Bind, Lstat, Dial, Remove, Listen, Chmod, Refuses, Fails
    <2> QED
      BY <2>2, <2>3, <2>4, <2>5, Zenon
      DEF Next, Step, Start, Request, Stop, AcceptFails, CloseListener, Shutdown, Drain, Wait,
          CloseRuntimes, RemoveSocket, CloseProxy, Crash, OtherProgram, vars
  <1> QED
    BY <1>1, Invariance, PTL DEF Spec, AssignmentsAreKept

\* Unless processes start or stop at the same time or a probe of a live daemon
\* fails, a start that no failing system call ends is refused only because another
\* daemon serves, another program has an address that is wanted, or the path is
\* not a socket (transport.Listen recovers every stale socket).
THEOREM RefusalsAreJustified == Spec => RefusalIsJustified
  <1> DEFINE Justified(p) == \/ path = Foreign
                             \/ \E e \in wants[p] : owner[e] = Foreign
                             \/ \E q \in Process \ {p} : pc[q] = "serving"
  <1>1. IInv /\ [Next]_vars
           => [~disorder' => \A p \in refused' \ refused : Justified(p)]_vars
    <2> SUFFICES ASSUME IInv, [Next]_vars, ~disorder', NEW r \in refused' \ refused
                 PROVE  Justified(r)
      BY Zenon
    <2>1. TypeOK /\ Ownership /\ (~disorder => Coordination)
      BY Zenon DEF IInv
    <2>2. PICK p \in Process : StartUp(p)
      BY Zenon DEF Next, Step, Start, Request, Register, Stop, AcceptFails, CloseListener, Shutdown,
             Drain, Wait, CloseRuntimes, Save, RemoveSocket, CloseProxy, Crash, OtherProgram,
             vars
    <2>3. ~(UNCHANGED refused) /\ ~Fails(p)
      BY DEF Fails
    <2>4. Refuses(p) /\ pc[p] \in Starting
      BY <2>2, <2>3
      DEF StartUp, Load, Bind, Lstat, Dial, Remove, Listen, Chmod, Starting, Endpoint
    <2>5. r = p /\ Coordination /\ pc'[p] = "off"
      BY <2>1, <2>4 DEF Refuses, Exits, Goes, TypeOK
    <2>6. \A q \in Process \ {p} : pc[q] \in {"off", "serving"}
      BY <2>4, <2>5 DEF Coordination, Alone
    <2> USE ProcessAssumption
    <2>7. CASE \E e \in Endpoint : Bind(p, e)
      <3>1. PICK e \in Endpoint : pc[p] = e /\ e \in wants[p] /\ owner[e] # Nobody
        BY <2>1, <2>3, <2>5, <2>7 DEF Bind, Goes, TypeOK
      <3>2. CASE owner[e] # Foreign
        <4>1. owner[e] \in Process \ {p} /\ pc[owner[e]] # "off"
          BY <2>1, <3>1, <3>2 DEF TypeOK, Ownership
        <4> QED
          BY <2>5, <2>6, <4>1
      <3> QED
        BY <2>5, <3>1, <3>2
    <2>8. CASE Lstat(p)
      BY <2>1, <2>3, <2>5, <2>8 DEF Lstat, Goes, TypeOK
    <2>9. CASE Dial(p)
      <3>1. pc[p] = "dial" /\ Answered
        BY <2>1, <2>5, <2>9 DEF Dial, Goes, TypeOK
      <3> QED
        BY <2>5, <2>6, <3>1 DEF Answered, Listens
    <2>10. CASE Load(p) \/ Remove(p) \/ Listen(p) \/ Chmod(p)
      BY <2>1, <2>3, <2>5, <2>10
      DEF Load, Remove, Listen, Chmod, Goes, TypeOK, Coordination, Listens
    <2> QED
      BY <2>2, <2>7, <2>8, <2>9, <2>10, Zenon DEF StartUp
  <1> QED
    BY <1>1, Invariance, PTL DEF Spec, RefusalIsJustified

=============================================================================
