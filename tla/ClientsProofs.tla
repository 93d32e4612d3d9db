---------------------------- MODULE ClientsProofs ---------------------------
(***************************************************************************)
(* Proofs about Clients: for any number of handles, faults and delayed     *)
(* calls the composition implements Daemon, so what DaemonProofs proves    *)
(* holds of it; and an acknowledged Close has ended the publication.       *)
(***************************************************************************)
EXTENDS Clients, DaemonProofs

-----------------------------------------------------------------------------
\* A caller that waits has one request out, and the timer loop waits with no
\* call in flight.  With ClientsTypeOK this is inductive.
CallInv ==
    /\ ClientsTypeOK
    /\ \A l, m \in inbox : l.client = m.client /\ l.abandoned = 0 /\ m.abandoned = 0 => l = m
    /\ \A c \in Client : client[c].pc \in {"idle", "waiting"} => client[c].call = "none"

CInv == IInv /\ CallInv

\* The results a handler reports.
Result == {"serving", "ok", "notFound", "failed"}

\* A handler's answer reaches the one caller that waits for it, or nobody.
LEMMA AnswerInv ==
    ASSUME CallInv, NEW m \in inbox, NEW result \in Result, NEW new \in RegistrationID \cup {NoID},
           Answer(m, result, new), inbox' = inbox \ {m}, faults' = faults
    PROVE  CallInv'
  <1> USE DEF CallInv, ClientsTypeOK
  <1>1. PICK c \in Client : c = m.client
    BY DEF Call
  <1>2. CASE m.abandoned = 0
    <2> DEFINE h == [client[c] EXCEPT !.call = result, !.new = new]
    <2>1. client' = [client EXCEPT ![c].call = result, ![c].new = new]
      BY <1>1, <1>2 DEF Answer
    <2>2. client' = [client EXCEPT ![c] = h]
      BY <2>1, Zenon DEF Handle
    <2>3. client[c] \in Handle /\ client[c].pc \notin {"idle", "waiting"}
      BY <1>1, <1>2
    <2>4. h \in Handle /\ h.pc = client[c].pc
      BY <2>3, Zenon DEF Handle, Result
    <2> HIDE DEF h
    <2>5. client' \in [Client -> Handle]
      BY <2>2, <2>4
    <2>6. \A l \in inbox' : l.client \in Client /\ (l.abandoned = 0 => l.client # c)
      BY <1>1, <1>2 DEF Call
    <2>7. \A l \in inbox' : l.abandoned = 0 => client'[l.client].call = "sent"
      BY <2>2, <2>6
    <2>8. \A d \in Client : client'[d].pc \in {"idle", "waiting"} => client'[d].call = "none"
      BY <2>2, <2>3, <2>4
    <2> QED
      BY <2>5, <2>7, <2>8
  <1>3. CASE m.abandoned # 0
    <2>1. client' = client
      BY <1>3 DEF Answer
    <2> QED
      BY <2>1
  <1> QED
    BY <1>2, <1>3

\* Giving up a call leaves every request well formed, and none of the caller's
\* is waited for.
LEMMA AbandonedInv ==
    ASSUME CallInv, NEW c \in Client
    PROVE  /\ Abandoned(c) \subseteq Call
           /\ \A m \in Abandoned(c) : m.abandoned = 0 => m \in inbox /\ m.client # c
  <1> SUFFICES ASSUME NEW m \in Abandoned(c)
               PROVE  m \in Call /\ (m.abandoned = 0 => m \in inbox /\ m.client # c)
    OBVIOUS
  <1>1. PICK l \in inbox :
          m = IF l.client = c /\ l.abandoned = 0 THEN [l EXCEPT !.abandoned = faults + 1] ELSE l
    BY DEF Abandoned
  <1>2. l \in Call /\ faults + 1 \in Nat \ {0}
    BY ClientAssumption DEF CallInv, ClientsTypeOK
  <1>3. CASE l.client = c /\ l.abandoned = 0
    BY <1>1, <1>2, <1>3 DEF Call
  <1>4. CASE ~(l.client = c /\ l.abandoned = 0)
    BY <1>1, <1>2, <1>4 DEF Call
  <1> QED
    BY <1>3, <1>4

\* A step of one handle that leaves it with no call out.
LEMMA QuietInv ==
    ASSUME CallInv, NEW c \in Client, NEW h \in Handle,
           client' = [client EXCEPT ![c] = h],
           h.pc \in {"idle", "waiting"} => h.call = "none",
           faults' \in 0 .. MaxFaults,
           inbox' \subseteq Call,
           \A m \in inbox' : m.abandoned = 0 => m \in inbox /\ m.client # c
    PROVE  CallInv'
  <1> USE DEF CallInv, ClientsTypeOK
  <1>1. client' \in [Client -> Handle]
    OBVIOUS
  <1>2. \A m \in inbox' : m.client \in Client
    BY DEF Call
  <1>3. \A m \in inbox' : m.abandoned = 0 => client'[m.client].call = "sent"
    BY <1>2
  <1>4. \A d \in Client : client'[d].pc \in {"idle", "waiting"} => client'[d].call = "none"
    OBVIOUS
  <1> QED
    BY <1>1, <1>3, <1>4

\* A step of one handle that makes a call, none being out before.
LEMMA SendInv ==
    ASSUME CallInv, NEW c \in Client, NEW op \in {"register", "heartbeat", "delete"},
           NEW pc \in Running \cup {"register", "once", "close"}, pc # "waiting",
           Goes(c, pc, "sent"), faults' = faults,
           NEW others \in SUBSET Call,
           \A m \in others : m.abandoned = 0 => m \in inbox /\ m.client # c,
           inbox' = others \cup {NewCall(c, op)}
    PROVE  CallInv'
  <1> USE DEF CallInv, ClientsTypeOK
  <1> DEFINE h == [client[c] EXCEPT !.pc = pc, !.call = "sent", !.new = NoID]
  <1>1. client' = [client EXCEPT ![c] = h]
    BY Zenon DEF Goes, Handle
  <1>2. h \in Handle /\ h.pc = pc /\ h.call = "sent"
    <2>1. client[c] \in Handle
      BY Zenon
    <2> QED
      BY <2>1, Zenon DEF Handle
  <1> HIDE DEF h
  <1>3. client' \in [Client -> Handle]
    BY <1>1, <1>2
  <1>4. NewCall(c, op) \in Call /\ NewCall(c, op).client = c
    BY DEF NewCall, Call, Handle
  <1>5. \A m \in inbox' : m.client \in Client
    BY <1>4 DEF Call
  <1>6. \A m \in inbox' : m.abandoned = 0 => client'[m.client].call = "sent"
    BY <1>1, <1>2, <1>4, <1>5
  <1>7. \A d \in Client : client'[d].pc \in {"idle", "waiting"} => client'[d].call = "none"
    BY <1>1, <1>2 DEF Running
  <1>8. \A l, m \in inbox' : l.client = m.client /\ l.abandoned = 0 /\ m.abandoned = 0 => l = m
    BY <1>4
  <1> QED
    BY <1>3, <1>4, <1>6, <1>7, <1>8

\* A handler step of the composition is the daemon's step.
LEMMA ServeIsDaemon ==
    ASSUME CInv, NEW m \in inbox, Serve(m) \/ LoseRequest(m)
    PROVE  [Next]_vars /\ CallInv'
  <1> USE DEF Result
  <1>0. m \in Call /\ m.client \in Client
    BY DEF CInv, CallInv, ClientsTypeOK, Call
  <1>1. CASE ServeRegister(m)
    <2>1. Request[m.client] \in Requests
      BY <1>0, ClientAssumption
    <2>2. Next
      BY <1>1, <2>1 DEF ServeRegister, Next, Operation
    <2>3. used' \subseteq RegistrationID
      BY <2>2, NextIInv DEF CInv, IInv, TypeOK
    <2>4. CallInv'
      BY <1>1, <2>3, AnswerInv DEF ServeRegister, CInv
    <2> QED
      BY <2>2, <2>4
  <1>2. CASE RejectRegister(m)
    BY <1>2, AnswerInv DEF RejectRegister, CInv
  <1>3. CASE LoseRequest(m)
    BY <1>3 DEF LoseRequest, CInv, CallInv, ClientsTypeOK
  <1>4. CASE ServeHeartbeat(m)
    <2>1. CallInv'
      BY <1>4, AnswerInv, Zenon DEF ServeHeartbeat, CInv
    <2>2. CASE m.id \in DOMAIN entries /\ Heartbeat(m.id, TRUE)
      <3>1. m.id \in RegistrationID
        BY <2>2 DEF CInv, IInv, TypeOK
      <3>2. Next
        BY <2>2, <3>1, Zenon DEF Next, Operation
      <3> QED
        BY <2>1, <3>2
    <2> QED
      BY <1>4, <2>1, <2>2, Zenon DEF ServeHeartbeat
  <1>5. CASE ServeDelete(m)
    <2>1. CallInv'
      BY <1>5, AnswerInv DEF ServeDelete, CInv
    <2>2. CASE m.id \in DOMAIN entries /\ DeleteRegistration(m.id)
      <3>1. m.id \in RegistrationID
        BY <2>2 DEF CInv, IInv, TypeOK
      <3>2. Next
        BY <2>2, <3>1, Zenon DEF Next, Operation
      <3> QED
        BY <2>1, <3>2
    <2> QED
      BY <1>5, <2>1, <2>2 DEF ServeDelete
  <1> QED
    BY <1>1, <1>2, <1>3, <1>4, <1>5 DEF Serve

\* When the daemon finishes a call, it changes only the call of a handle that
\* is being served.
LEMMA FinishInv ==
    ASSUME CallInv, NEW served \in SUBSET Client,
           \A c \in served : client[c].call \in {"sent", "serving"},
           NEW new \in [Client -> Handle],
           \A c \in Client : new[c].pc = client[c].pc,
           client' = [c \in Client |-> IF c \in served THEN new[c] ELSE client[c]],
           \A m \in inbox' : m \in inbox /\ (m.abandoned = 0 => m.client \notin served),
           faults' \in 0 .. MaxFaults
    PROVE  CallInv'
  <1> USE DEF CallInv, ClientsTypeOK
  <1>1. client' \in [Client -> Handle]
    OBVIOUS
  <1>2. \A m \in inbox' : m \in Call /\ m.client \in Client
    BY DEF Call
  <1>3. \A m \in inbox' : m.abandoned = 0 => client'[m.client].call = "sent"
    BY <1>2
  <1>4. \A c \in Client : client'[c].pc \in {"idle", "waiting"} => client'[c].call = "none"
    OBVIOUS
  <1> QED
    BY <1>1, <1>2, <1>3, <1>4

\* The handles leave the daemon alone and send one request at a time.
LEMMA HandleIsSilent ==
    ASSUME CallInv, NEW c \in Client,
           Loop(c) \/ Open(c) \/ OpenOnce(c) \/ Close(c) \/ GiveUp(c) \/ Crash(c)
    PROVE  UNCHANGED vars /\ CallInv'
  <1>0. /\ client[c] \in Handle /\ inbox \subseteq Call
        /\ client \in [Client -> Handle]
        /\ faults \in 0 .. MaxFaults
        /\ client[c].pc \in {"idle", "waiting"} => client[c].call = "none"
        /\ client[c].call # "sent" => \A m \in inbox : m.abandoned = 0 => m.client # c
    BY DEF CallInv, ClientsTypeOK
  <1>1. ASSUME NEW op \in {"register", "heartbeat", "delete"},
               NEW pc \in Running \cup {"register", "once", "close"}, pc # "waiting",
               client[c].call # "sent", Send(c, pc, op)
        PROVE  UNCHANGED vars /\ CallInv'
    BY <1>0, <1>1, SendInv DEF Send
  <1>2. ASSUME NEW pc \in {"idle", "waiting", "dead"}, Goes(c, pc, "none"),
               faults' = faults, inbox' \subseteq Call,
               \A m \in inbox' : m.abandoned = 0 => m \in inbox /\ m.client # c
        PROVE  CallInv'
    <2> DEFINE h == [client[c] EXCEPT !.pc = pc, !.call = "none", !.new = NoID]
    <2>1. client' = [client EXCEPT ![c] = h]
      BY <1>0, <1>2, Zenon DEF Goes, Handle
    <2>2. h \in Handle /\ h.call = "none"
      BY <1>0, <1>2, Zenon DEF Handle, Running
    <2> HIDE DEF h
    <2> QED
      BY <1>0, <1>2, <2>1, <2>2, QuietInv, Zenon
  <1>3. CASE Beat(c) \/ Open(c) \/ OpenOnce(c)
    BY <1>0, <1>1, <1>3 DEF Beat, Open, OpenOnce, Running
  <1>4. CASE Adopt(c)
    <2> DEFINE h == [client[c] EXCEPT !.pc = "waiting", !.call = "none",
                                      !.id = client[c].new, !.new = NoID]
    <2>1. client' = [client EXCEPT ![c] = h] /\ h \in Handle /\ h.call = "none"
      BY <1>0, <1>4 DEF Adopt, Handle, Running
    <2>2. UNCHANGED <<vars, inbox, faults>> /\ client[c].call = "ok"
      BY <1>4 DEF Adopt
    <2> HIDE DEF h
    <2>3. CallInv'
      BY <1>0, <2>1, <2>2, QuietInv, Zenon
    <2> QED
      BY <2>2, <2>3
  <1>5. CASE OpenFails(c) \/ ReregisterFails(c) \/ OnceReturns(c)
    BY <1>0, <1>2, <1>5 DEF OpenFails, ReregisterFails, OnceReturns
  <1>6. CASE CloseReturns(c)
    <2> DEFINE h == [client[c] EXCEPT !.pc = "closed"]
    <2>1. client' = [client EXCEPT ![c] = h] /\ h \in Handle /\ h.pc = "closed"
      BY <1>0, <1>6 DEF CloseReturns, Handle
    <2>2. UNCHANGED <<vars, inbox, faults>> /\ client[c].call # "sent"
      BY <1>6 DEF CloseReturns
    <2> HIDE DEF h
    <2>3. CallInv'
      BY <1>0, <2>1, <2>2, QuietInv, Zenon
    <2> QED
      BY <2>2, <2>3
  <1>7. CASE BeatReturns(c)
    BY <1>0, <1>1, <1>2, <1>7 DEF BeatReturns, Running
  <1>8. CASE Close(c)
    BY <1>0, <1>8, AbandonedInv, SendInv DEF Close
  <1>9. CASE GiveUp(c)
    <2> DEFINE h == [client[c] EXCEPT !.pc = client[c].pc, !.call = "failed", !.new = NoID]
    <2>1. client' = [client EXCEPT ![c] = h] /\ h \in Handle /\ h.pc \notin {"idle", "waiting"}
      BY <1>0, <1>9 DEF GiveUp, Goes, Handle
    <2>2. faults' \in 0 .. MaxFaults
      BY <1>0, <1>9, ClientAssumption DEF GiveUp, Fault
    <2> HIDE DEF h
    <2> QED
      BY <1>9, <2>1, <2>2, AbandonedInv, QuietInv, Zenon DEF GiveUp
  <1>10. CASE Crash(c)
    BY <1>2, <1>10, AbandonedInv DEF Crash
  <1> QED
    BY <1>3, <1>4, <1>5, <1>6, <1>7, <1>8, <1>9, <1>10 DEF Loop

\* Every step of the composition is a step of the daemon, or invisible to it.
LEMMA StepIsDaemon ==
    ASSUME CInv, [ClientsNext]_<<vars, clientVars>>
    PROVE  [Next]_vars /\ CInv'
  <1>0. /\ client \in [Client -> Handle] /\ faults \in 0 .. MaxFaults
        /\ \A m \in inbox : m.abandoned = 0 => client[m.client].call = "sent"
    BY DEF CInv, CallInv, ClientsTypeOK
  <1>1. CASE \E m \in inbox : Serve(m) \/ LoseRequest(m)
    BY <1>1, ServeIsDaemon, NextIInv DEF CInv
  <1>2. CASE \E r \in registering : ContinueRegister(r)
    <2>1. PICK r \in registering : ContinueRegister(r)
      BY <1>2
    <2>2. Next
      BY <2>1 DEF ContinueRegister, RegisterStep, Next, Operation
    <2> DEFINE served == {c \in Client : /\ registering' = {}
                                        /\ client[c].call = "serving"
                                        /\ client[c].new = r.rec.producer}
               new == [c \in Client |->
                         [client[c] EXCEPT !.call = IF r.pc = "lease" THEN "ok" ELSE "failed"]]
    <2>3. client' = [c \in Client |-> IF c \in served THEN new[c] ELSE client[c]] /\ inbox' = inbox
      BY <2>1 DEF ContinueRegister
    <2>4. new \in [Client -> Handle] /\ \A c \in Client : new[c].pc = client[c].pc
      BY <1>0 DEF Handle
    <2>5. faults' \in 0 .. MaxFaults
      BY <1>0, <2>1, ClientAssumption DEF ContinueRegister, Fault
    <2>6. \A c \in served : client[c].call = "serving"
      OBVIOUS
    <2>7. \A m \in inbox : m.abandoned = 0 => m.client \notin served
      BY <1>0
    <2>8. served \in SUBSET Client
      OBVIOUS
    <2> HIDE DEF served, new
    <2>9. CallInv'
      BY <2>3, <2>4, <2>5, <2>6, <2>7, <2>8, FinishInv, Zenon DEF CInv
    <2> QED
      BY <2>2, <2>9, NextIInv DEF CInv
  <1>3. CASE \E e \in deleting : FinishDelete(e)
    <2>1. PICK e \in deleting : FinishDelete(e)
      BY <1>3
    <2>2. Next
      BY <2>1 DEF FinishDelete, Next, Operation
    <2> DEFINE served == {c \in Client : /\ client[c].pc = "close"
                                        /\ client[c].call = "serving"
                                        /\ client[c].id = e.id}
               new == [c \in Client |-> [client[c] EXCEPT !.call = "ok"]]
    <2>3. client' = [c \in Client |-> IF c \in served THEN new[c] ELSE client[c]]
          /\ inbox' = inbox /\ faults' = faults
      BY <2>1 DEF FinishDelete
    <2>4. new \in [Client -> Handle] /\ \A c \in Client : new[c].pc = client[c].pc
      BY <1>0 DEF Handle
    <2>5. \A c \in served : client[c].call = "serving"
      OBVIOUS
    <2>6. \A m \in inbox : m.abandoned = 0 => m.client \notin served
      BY <1>0
    <2>7. served \in SUBSET Client
      OBVIOUS
    <2> HIDE DEF served, new
    <2>8. CallInv'
      BY <1>0, <2>3, <2>4, <2>5, <2>6, <2>7, FinishInv, Zenon DEF CInv
    <2> QED
      BY <2>2, <2>8, NextIInv DEF CInv
  <1>4. CASE \E c \in Client : Loop(c) \/ Open(c) \/ OpenOnce(c) \/ Close(c) \/ GiveUp(c) \/ Crash(c)
    BY <1>4, HandleIsSilent, NextIInv DEF CInv
  <1>5. CASE TimePasses \/ Sweep
    <2>1. Next /\ client' = client /\ inbox' = inbox
      BY <1>5 DEF TimePasses, Sweep, clientVars, Next, Operation
    <2>2. faults' \in 0 .. MaxFaults
      BY <1>0, <1>5, ClientAssumption DEF TimePasses, Fault, Sweep, clientVars
    <2> QED
      BY <2>1, <2>2, NextIInv DEF CInv, CallInv, ClientsTypeOK
  <1>6. CASE DaemonRestarts
    <2>1. Next /\ inbox' = {}
      BY <1>6, Zenon DEF DaemonRestarts, Next, Operation
    <2> DEFINE served == {c \in Client : client[c].call \in {"sent", "serving"}}
               new == [c \in Client |-> [client[c] EXCEPT !.call = "failed", !.new = NoID]]
    <2>2. client' = [c \in Client |-> IF c \in served THEN new[c] ELSE client[c]]
      BY <1>6, Zenon DEF DaemonRestarts
    <2>3. new \in [Client -> Handle] /\ \A c \in Client : new[c].pc = client[c].pc
      <3>1. ASSUME NEW c \in Client
            PROVE  new[c] \in Handle /\ new[c].pc = client[c].pc
        <4>1. client[c] \in Handle /\ new[c] = [client[c] EXCEPT !.call = "failed", !.new = NoID]
          BY <1>0
        <4> QED
          BY <4>1, Zenon DEF Handle
      <3> QED
        BY <3>1, Zenon
    <2>4. faults' \in 0 .. MaxFaults
      <3>1. Fault
        BY <1>6, Zenon DEF DaemonRestarts
      <3> QED
        BY <1>0, <3>1, ClientAssumption DEF Fault
    <2>5. served \in SUBSET Client /\ \A c \in served : client[c].call \in {"sent", "serving"}
      OBVIOUS
    <2> HIDE DEF served, new
    <2>6. CallInv'
      BY <2>1, <2>2, <2>3, <2>4, <2>5, FinishInv, Zenon DEF CInv
    <2> QED
      BY <2>1, <2>6, NextIInv DEF CInv
  <1>7. CASE UNCHANGED <<vars, clientVars>>
    BY <1>7, NextIInv DEF CInv, CallInv, ClientsTypeOK, clientVars
  <1> QED
    BY <1>1, <1>2, <1>3, <1>4, <1>5, <1>6, <1>7 DEF ClientsNext

\* The composition starts in a state of the invariant.
LEMMA InitCInv == ClientsInit => Init /\ CInv
  <1> SUFFICES ASSUME ClientsInit PROVE Init /\ CInv
    OBVIOUS
  <1>1. client \in [Client -> Handle] /\ inbox = {} /\ faults \in 0 .. MaxFaults
    BY ClientAssumption DEF ClientsInit, Handle
  <1> QED
    BY <1>1, InitIInv DEF ClientsInit, CInv, CallInv, ClientsTypeOK

\* The inductive invariant of the composition.
THEOREM ClientsInvariant == ClientsSpec => []CInv
  BY InitCInv, StepIsDaemon, PTL DEF ClientsSpec

\* Whatever the handles do, whichever calls are delayed, lost or abandoned, the
\* daemon they talk to behaves as Daemon allows.
THEOREM ClientsRefineDaemon == ClientsSpec => ImplementsDaemon
  BY InitCInv, StepIsDaemon, ClientsInvariant, PTL DEF ClientsSpec, ImplementsDaemon, Spec

\* Handles and requests are well formed, and an answer that comes too late
\* finds nobody waiting.
THEOREM ClientsTypeCorrect == ClientsSpec => []ClientsTypeOK
  <1>1. CInv => ClientsTypeOK
    BY DEF CInv, CallInv
  <1> QED
    BY <1>1, ClientsInvariant, PTL

\* So a handle whose lease the daemon holds is the one consumers reach, with
\* real clients, late heartbeats and abandoned requests in the picture.
THEOREM ClientsKeepLeaseHoldersPublished == ClientsSpec => []LeaseHolderIsPublished
  BY ClientsRefineDaemon, LeaseHolderStaysPublished, PTL DEF ImplementsDaemon

-----------------------------------------------------------------------------
(* Close: why an acknowledged DELETE ends the publication for good. *)

\* What a handle for the name n knows of its registrations: a DELETE that is
\* being served has taken the lease, and one that was acknowledged has ended
\* the publication too.
Good(h, n) ==
    /\ \A id \in {h.id, h.new} : id # NoID => Bound(id, n)
    /\ h.pc = "close" /\ h.call = "serving" => h.new = NoID /\ h.id # NoID /\ Withdrawn(h.id)
    /\ h.pc \in {"close", "closed"} /\ h.call = "ok" =>
         h.id # NoID /\ Withdrawn(h.id) /\ ~Publishes(n, h.id)
    /\ h.pc = "closed" => h.call \notin {"sent", "serving"}

\* The call Close waits for is the DELETE of the handle's latest ID.
CloseInv ==
    /\ \A c \in Client : Good(client[c], Request[c].name)
    /\ \A m \in inbox : m.abandoned = 0 /\ client[m.client].pc = "close" =>
         m.op = "delete" /\ m.id = client[m.client].id

\* A step that leaves a handle without an acknowledged or running DELETE, and
\* with IDs it had before.
Kept(h, g) ==
    /\ g.id \in {h.id, h.new} /\ g.new \in {h.new, NoID}
    /\ g.pc \in {"close", "closed"} => g.call \notin {"ok", "serving"}
    /\ g.pc = "closed" => g.call # "sent"

\* What a handle knows stays true while the daemon goes on.
LEMMA GoodStays ==
    ASSUME IInv, [Next]_vars
    PROVE  \A h, g, n : Good(h, n) /\ (g = h \/ Kept(h, g)) => Good(g, n)'
  <1> TAKE h, g, n
  <1>1. Good(h, n) => Good(h, n)'
    BY KnownStays DEF Good
  <1>2. Good(h, n) /\ Kept(h, g) => Good(g, n)'
    BY KnownStays DEF Good, Kept
  <1> QED
    BY <1>1, <1>2

\* What a call does to a handle.
LEMMA GoesFacts ==
    ASSUME client \in [Client -> Handle], NEW c \in Client, NEW pc, NEW call, Goes(c, pc, call)
    PROVE  /\ client'[c].pc = pc /\ client'[c].call = call
           /\ client'[c].id = client[c].id /\ client'[c].new = NoID
           /\ \A d \in Client \ {c} : client'[d] = client[d]
  <1> DEFINE h == [client[c] EXCEPT !.pc = pc, !.call = call, !.new = NoID]
  <1>1. client' = [client EXCEPT ![c] = h]
    BY Zenon DEF Goes, Handle
  <1>2. h.pc = pc /\ h.call = call /\ h.new = NoID /\ h.id = client[c].id
    BY Zenon DEF Handle
  <1> HIDE DEF h
  <1> QED
    BY <1>1, <1>2

\* The steps of a handle: only Close sends a DELETE, and it is for the latest
\* ID; and a closed handle remembers what its DELETE was told.
LEMMA HandleStep ==
    ASSUME CallInv, NEW c \in Client,
           Loop(c) \/ Open(c) \/ OpenOnce(c) \/ Close(c) \/ GiveUp(c) \/ Crash(c)
    PROVE  /\ \A d \in Client \ {c} : client'[d] = client[d]
           /\ \/ Kept(client[c], client'[c])
              \/ /\ client[c].pc = "close" /\ client[c].call \notin {"sent", "serving"}
                 /\ client'[c] = [client[c] EXCEPT !.pc = "closed"]
           /\ \A m \in inbox' : m.abandoned = 0 =>
                \/ m \in inbox /\ m.client # c
                \/ /\ m.client = c
                   /\ client'[c].pc = "close" => m.op = "delete" /\ m.id = client'[c].id
  <1>0. /\ client \in [Client -> Handle]
        /\ client[c].pc \in {"idle", "waiting"} => client[c].call = "none"
        /\ client[c].call # "sent" => \A m \in inbox : m.abandoned = 0 => m.client # c
        /\ \A m \in Abandoned(c) : m.abandoned = 0 => m \in inbox /\ m.client # c
    BY AbandonedInv DEF CallInv, ClientsTypeOK
  <1>1. ASSUME NEW pc, NEW call, Goes(c, pc, call),
               pc \in {"close", "closed"} => call \notin {"ok", "serving"}, pc # "closed"
        PROVE  /\ \A d \in Client \ {c} : client'[d] = client[d]
               /\ Kept(client[c], client'[c])
               /\ client'[c].pc = pc /\ client'[c].id = client[c].id
    BY <1>0, <1>1, GoesFacts DEF Kept
  <1>2. \A op : /\ NewCall(c, op).client = c /\ NewCall(c, op).op = op
                /\ NewCall(c, op).id = client[c].id
    BY DEF NewCall
  <1>3. CASE Beat(c) \/ Open(c) \/ OpenOnce(c)
    BY <1>0, <1>1, <1>2, <1>3 DEF Beat, Open, OpenOnce, Send
  <1>4. CASE Adopt(c)
    <2> DEFINE h == [client[c] EXCEPT !.pc = "waiting", !.call = "none",
                                      !.id = client[c].new, !.new = NoID]
    <2>1. client' = [client EXCEPT ![c] = h]
      BY <1>0, <1>4, Zenon DEF Adopt, Handle
    <2>2. h.pc = "waiting" /\ h.id = client[c].new /\ h.new = NoID
      BY <1>0, Zenon DEF Handle
    <2> HIDE DEF h
    <2> QED
      BY <1>0, <1>4, <2>1, <2>2 DEF Adopt, Kept
  <1>5. CASE OpenFails(c) \/ ReregisterFails(c) \/ OnceReturns(c)
    BY <1>0, <1>1, <1>5 DEF OpenFails, ReregisterFails, OnceReturns
  <1>6. CASE CloseReturns(c)
    BY <1>0, <1>6 DEF CloseReturns
  <1>7. CASE BeatReturns(c)
    BY <1>0, <1>1, <1>2, <1>7 DEF BeatReturns, Send
  <1>8. CASE Close(c)
    BY <1>0, <1>1, <1>2, <1>8 DEF Close
  <1>9. CASE GiveUp(c) \/ Crash(c)
    BY <1>0, <1>1, <1>9 DEF GiveUp, Crash
  <1> QED
    BY <1>3, <1>4, <1>5, <1>6, <1>7, <1>8, <1>9 DEF Loop

\* A new registration is known under the name it asked for.
LEMMA RegisterBinds ==
    ASSUME IInv, NEW p \in Requests, Register(p), NEW id \in used' \ used
    PROVE  Bound(id, p.name)'
  <1>1. /\ UNCHANGED <<deleting, sweeping>> /\ DOMAIN entries' \subseteq DOMAIN entries
        /\ \A s \in registering' : s.name = p.name
    BY DEF Register, RetireReplaced, Lease!Without, Lease!Restrict, Restrict
  <1> QED
    BY <1>1 DEF Bound, IInv, LeaseInv

\* A handler tells its caller nothing that is not so.
LEMMA AnswerGood ==
    ASSUME CInv, CloseInv, NEW m \in inbox, Serve(m), NEW c \in Client
    PROVE  /\ client'[c].pc = client[c].pc /\ client'[c].id = client[c].id
           /\ Good(client[c], Request[c].name)'
  <1> DEFINE n == Request[c].name
  <1>0. /\ m.client \in Client /\ client \in [Client -> Handle]
        /\ m.abandoned = 0 => client[m.client].call = "sent"
    BY DEF CInv, CallInv, ClientsTypeOK, Call
  <1>1. IInv /\ [Next]_vars /\ Good(client[c], n)
    BY ServeIsDaemon DEF CInv, CloseInv
  <1>2. CASE client'[c] = client[c]
    BY <1>1, <1>2, GoodStays
  <1>3. ASSUME NEW result, NEW new, Answer(m, result, new), client'[c] # client[c]
        PROVE  /\ m.client = c /\ m.abandoned = 0 /\ client[c].pc # "closed"
               /\ client[c].pc = "close" => m.op = "delete" /\ m.id = client[c].id
               /\ client'[c].pc = client[c].pc /\ client'[c].id = client[c].id
               /\ client'[c].call = result /\ client'[c].new = new
    <2>1. m.client = c /\ m.abandoned = 0
      BY <1>0, <1>3 DEF Answer
    <2> DEFINE h == [client[c] EXCEPT !.call = result, !.new = new]
    <2>2. client' = [client EXCEPT ![c] = h]
      BY <1>0, <1>3, <2>1, Zenon DEF Answer, Handle
    <2>3. h.call = result /\ h.new = new /\ h.pc = client[c].pc /\ h.id = client[c].id
      <3>1. client[c] \in Handle
        BY <1>0
      <3> QED
        BY <3>1 DEF Handle
    <2> HIDE DEF h
    <2> QED
      BY <1>0, <1>1, <2>1, <2>2, <2>3, Zenon DEF CloseInv, Good
  <1>4. ASSUME NEW result, Answer(m, result, NoID), client'[c] # client[c],
               result # "serving", m.op = "delete" => result # "ok"
        PROVE  /\ client'[c].pc = client[c].pc /\ client'[c].id = client[c].id
               /\ Good(client[c], n)'
    <2>1. Kept(client[c], client'[c])
      BY <1>3, <1>4 DEF Kept
    <2> QED
      BY <1>1, <1>3, <1>4, <2>1, GoodStays, Zenon
  <1>5. CASE ServeRegister(m) /\ client'[c] # client[c]
    <2>1. PICK id \in used' \ used : Answer(m, "serving", id)
      BY <1>5 DEF ServeRegister
    <2>2. m.client = c /\ client[c].pc \notin {"close", "closed"} /\ client'[c].pc = client[c].pc
          /\ client'[c].id = client[c].id /\ client'[c].new = id
      BY <1>3, <1>5, <2>1, Zenon DEF ServeRegister
    <2>3. Bound(id, n)'
      BY <1>0, <1>1, <1>5, <2>2, RegisterBinds, ClientAssumption, Zenon DEF ServeRegister
    <2>4. client[c].id # NoID => Bound(client[c].id, n)
      BY <1>1 DEF Good
    <2>5. \A i : Bound(i, n) => Bound(i, n)'
      BY <1>1, KnownStays, Zenon
    <2> QED
      BY <2>2, <2>3, <2>4, <2>5, Zenon DEF Good
  <1>6. CASE ServeDelete(m) /\ m.id \in DOMAIN entries /\ client'[c] # client[c]
    <2>1. DeleteRegistration(m.id) /\ Answer(m, "serving", NoID)
      BY <1>6, Zenon DEF ServeDelete
    <2>2. /\ client[c].pc # "closed" /\ client'[c].pc = client[c].pc
          /\ client[c].pc = "close" => m.id = client[c].id
          /\ client'[c].id = client[c].id /\ client'[c].call = "serving" /\ client'[c].new = NoID
      BY <1>3, <1>6, <2>1, Zenon
    <2>3. m.id # NoID /\ m.id \in used
      BY <1>1, <1>6, ClientAssumption, Zenon DEF IInv, LeaseInv, TypeOK
    <2>4. \A r \in registering : r.rec.producer # m.id
      BY <1>1, <1>6, <2>3, IdentityAssumption, Zenon DEF IInv, MutexInv, UnderWay, TypeOK
    <2>5. Withdrawn(m.id)'
      BY <2>1, <2>3, <2>4, Zenon DEF DeleteRegistration, Lease!Delete, Lease!Without, Lease!Restrict, Restrict, Withdrawn
    <2>6. client[c].id # NoID => Bound(client[c].id, n)
      BY <1>1 DEF Good
    <2>7. \A i : Bound(i, n) => Bound(i, n)'
      BY <1>1, KnownStays, Zenon
    <2> QED
      BY <2>2, <2>3, <2>5, <2>6, <2>7, Zenon DEF Good
  <1>7. CASE /\ RejectRegister(m) \/ ServeHeartbeat(m) \/ (ServeDelete(m) /\ m.id \notin DOMAIN entries)
             /\ client'[c] # client[c]
    <2>1. \/ Answer(m, "notFound", NoID) \/ Answer(m, "failed", NoID)
          \/ m.op # "delete" /\ Answer(m, "ok", NoID)
      <3>1. CASE ServeHeartbeat(m)
        BY <3>1, Zenon DEF ServeHeartbeat
      <3> QED
        BY <1>7, <3>1, Zenon DEF RejectRegister, ServeDelete
    <2>2. CASE Answer(m, "notFound", NoID)
      BY <1>4, <1>7, <2>2, Zenon
    <2>3. CASE Answer(m, "failed", NoID)
      BY <1>4, <1>7, <2>3
    <2>4. CASE m.op # "delete" /\ Answer(m, "ok", NoID)
      BY <1>4, <1>7, <2>4
    <2> QED
      BY <2>1, <2>2, <2>3, <2>4, Zenon
  <1> QED
    BY <1>2, <1>5, <1>6, <1>7 DEF Serve

\* When the daemon reports the end of a DELETE, the publication is over.
LEMMA FinishGood ==
    ASSUME CInv, CloseInv, NEW e \in deleting, FinishDelete(e), NEW c \in Client
    PROVE  /\ client'[c].pc = client[c].pc /\ client'[c].id = client[c].id
           /\ Good(client[c], Request[c].name)'
  <1> DEFINE n == Request[c].name
  <1>1. IInv /\ Next /\ Good(client[c], n) /\ client \in [Client -> Handle]
    BY DEF FinishDelete, Next, Operation, CInv, CallInv, ClientsTypeOK, CloseInv
  <1>2. CASE client'[c] = client[c]
    BY <1>1, <1>2, GoodStays
  <1>3. CASE client'[c] # client[c]
    <2>1. /\ client[c].pc = "close" /\ client[c].call = "serving" /\ client[c].id = e.id
          /\ client'[c] = [client[c] EXCEPT !.call = "ok"]
      BY <1>3 DEF FinishDelete
    <2>2. /\ client'[c].pc = "close" /\ client'[c].call = "ok"
          /\ client'[c].id = e.id /\ client'[c].new = NoID /\ e.id # NoID
      BY <1>1, <2>1 DEF Good, Handle
    <2>3. Bound(e.id, n) /\ Withdrawn(e.id) /\ e.name = n
      BY <1>1, <2>1 DEF Good, Bound
    <2>4. Bound(e.id, n)' /\ Withdrawn(e.id)'
      <3> DEFINE i == e.id
      <3>1. Bound(i, n) /\ Withdrawn(i)
        BY <2>3
      <3> HIDE DEF i
      <3>2. Bound(i, n)' /\ Withdrawn(i)'
        BY <1>1, <3>1, KnownStays
      <3> QED
        BY <3>2 DEF i
    <2>5. ~Publishes(n, e.id)'
      BY <1>1, <2>3 DEF FinishDelete, EndDeletion, endPublication, Reg!ClearBackendIf, Reg!Put,
           Publishes, Reg!Ready, IInv, TypeOK, Record, Reg!ServiceRecord
    <2> QED
      BY <2>1, <2>2, <2>4, <2>5 DEF Good
  <1> QED
    BY <1>2, <1>3

\* When the daemon ends a registration, its caller is not a Close.
LEMMA ContinueGood ==
    ASSUME CInv, CloseInv, NEW r \in registering, ContinueRegister(r), NEW c \in Client
    PROVE  /\ client'[c].pc = client[c].pc /\ client'[c].id = client[c].id
           /\ Good(client[c], Request[c].name)'
  <1> DEFINE n == Request[c].name
  <1>1. IInv /\ Next /\ Good(client[c], n) /\ client[c] \in Handle
    BY DEF ContinueRegister, RegisterStep, Next, Operation, CInv, CallInv, ClientsTypeOK, CloseInv
  <1>2. CASE client'[c] = client[c]
    BY <1>1, <1>2, GoodStays
  <1>3. CASE client'[c] # client[c]
    <2> DEFINE result == IF r.pc = "lease" THEN "ok" ELSE "failed"
    <2>1. /\ client[c].call = "serving" /\ client[c].new = r.rec.producer
          /\ client'[c] = [client[c] EXCEPT !.call = result]
      BY <1>3 DEF ContinueRegister
    <2>2. /\ client'[c].pc = client[c].pc /\ client'[c].id = client[c].id
          /\ client'[c].new = client[c].new /\ client'[c].call = result
      BY <1>1, <2>1 DEF Handle
    <2>3. r.pc = "lease" => r.rec.producer # NoID
      <3>1. UnderWay(r) /\ used \subseteq RegistrationID
        BY <1>1 DEF IInv, MutexInv, TypeOK
      <3> QED
        BY <3>1, ClientAssumption DEF UnderWay
    <2>4. client[c].pc # "closed" /\ (client[c].pc = "close" => result = "failed")
      BY <1>1, <2>1, <2>3 DEF Good
    <2>5. Kept(client[c], client'[c])
      BY <2>2, <2>4 DEF Kept
    <2> QED
      BY <1>1, <2>2, <2>5, GoodStays
  <1> QED
    BY <1>2, <1>3

\* Every step of the composition keeps what Close relies on.
LEMMA StepCloseInv ==
    ASSUME CInv, CloseInv, [ClientsNext]_<<vars, clientVars>>
    PROVE  CloseInv'
  <1>1. /\ IInv /\ CallInv /\ [Next]_vars /\ client \in [Client -> Handle]
        /\ \A m \in inbox : m.client \in Client
        /\ \A m \in inbox' : m.client \in Client
    BY StepIsDaemon DEF CInv, CallInv, ClientsTypeOK, Call
  <1>2. \A c \in Client : Good(client[c], Request[c].name)
    BY DEF CloseInv
  <1>3. ASSUME inbox' \subseteq inbox,
               \A c \in Client : /\ client'[c].pc = client[c].pc /\ client'[c].id = client[c].id
                                 /\ Good(client[c], Request[c].name)'
        PROVE  CloseInv'
    BY <1>1, <1>3 DEF CloseInv
  <1>4. CASE \E m \in inbox : Serve(m)
    <2>1. inbox' \subseteq inbox
      BY <1>4, Zenon DEF Serve, ServeRegister, RejectRegister, ServeHeartbeat, ServeDelete
    <2> QED
      BY <1>3, <1>4, <2>1, AnswerGood, Zenon
  <1>5. CASE \E r \in registering : ContinueRegister(r)
    <2>1. inbox' \subseteq inbox
      BY <1>5, Zenon DEF ContinueRegister
    <2> QED
      BY <1>3, <1>5, <2>1, ContinueGood
  <1>6. CASE \E e \in deleting : FinishDelete(e)
    <2>1. inbox' \subseteq inbox
      BY <1>6, Zenon DEF FinishDelete
    <2> QED
      BY <1>3, <1>6, <2>1, FinishGood
  <1>7. CASE client' = client /\ inbox' \subseteq inbox
    <2>1. \A c \in Client : Good(client[c], Request[c].name)'
      BY <1>1, <1>2, <1>7, GoodStays
    <2> QED
      BY <1>3, <1>7, <2>1
  <1>8. ASSUME NEW c \in Client,
               Loop(c) \/ Open(c) \/ OpenOnce(c) \/ Close(c) \/ GiveUp(c) \/ Crash(c)
        PROVE  CloseInv'
    <2>1. ASSUME NEW d \in Client PROVE Good(client[d], Request[d].name)'
      <3>1. CASE client'[d] = client[d] \/ Kept(client[d], client'[d])
        BY <1>1, <1>2, <3>1, GoodStays
      <3>2. CASE /\ client[d].pc = "close" /\ client[d].call \notin {"sent", "serving"}
                 /\ client'[d] = [client[d] EXCEPT !.pc = "closed"]
        <4> DEFINE n == Request[d].name
        <4>1. /\ client'[d].pc = "closed" /\ client'[d].id = client[d].id
              /\ client'[d].new = client[d].new /\ client'[d].call = client[d].call
          <5>1. client[d] \in Handle
            BY <1>1
          <5> QED
            BY <3>2, <5>1 DEF Handle
        <4>2. PICK h : h = client[d]
          OBVIOUS
        <4>3. Good(h, n)'
          BY <1>1, <1>2, <4>2, GoodStays
        <4> QED
          BY <3>2, <4>1, <4>2, <4>3 DEF Good
      <3> QED
        BY <1>1, <1>8, <3>1, <3>2, HandleStep, Zenon
    <2>2. ASSUME NEW m \in inbox', m.abandoned = 0, client'[m.client].pc = "close"
          PROVE  m.op = "delete" /\ m.id = client'[m.client].id
      <3>0. \A l \in inbox' : l.abandoned = 0 =>
              \/ l \in inbox /\ l.client # c
              \/ /\ l.client = c
                 /\ client'[c].pc = "close" => l.op = "delete" /\ l.id = client'[c].id
        BY <1>1, <1>8, HandleStep, Zenon
      <3>1. \/ m \in inbox /\ m.client # c
            \/ /\ m.client = c
               /\ client'[c].pc = "close" => m.op = "delete" /\ m.id = client'[c].id
        BY <2>2, <3>0
      <3>2. CASE m \in inbox /\ m.client # c
        <4>1. m.client \in Client \ {c}
          BY <1>1, <3>2
        <4>2. \A d \in Client \ {c} : client'[d] = client[d]
          BY <1>1, <1>8, HandleStep, Zenon
        <4> QED
          BY <2>2, <3>2, <4>1, <4>2 DEF CloseInv
      <3> QED
        BY <2>2, <3>1, <3>2
    <2> QED
      BY <2>1, <2>2 DEF CloseInv
  <1>9. CASE DaemonRestarts
    <2>1. inbox' = {}
      BY <1>9, Zenon DEF DaemonRestarts
    <2>2. ASSUME NEW c \in Client PROVE Good(client[c], Request[c].name)'
      <3>1. client'[c] = client[c] \/ client'[c] = [client[c] EXCEPT !.call = "failed", !.new = NoID]
        BY <1>9, Zenon DEF DaemonRestarts
      <3>2. client[c] \in Handle
        BY <1>1
      <3>3. client'[c] = client[c] \/ Kept(client[c], client'[c])
        BY <3>1, <3>2, Zenon DEF Kept, Handle
      <3> QED
        BY <1>1, <1>2, <3>3, GoodStays
    <2> QED
      BY <2>1, <2>2 DEF CloseInv
  <1>10. \/ \E m \in inbox : Serve(m)
         \/ \E r \in registering : ContinueRegister(r)
         \/ \E e \in deleting : FinishDelete(e)
         \/ client' = client /\ inbox' \subseteq inbox
         \/ \E c \in Client : Loop(c) \/ Open(c) \/ OpenOnce(c) \/ Close(c) \/ GiveUp(c) \/ Crash(c)
         \/ DaemonRestarts
    BY Zenon DEF ClientsNext, LoseRequest, TimePasses, Sweep, clientVars
  <1> QED
    BY <1>4, <1>5, <1>6, <1>7, <1>8, <1>9, <1>10

\* A closed handle whose DELETE was acknowledged is not published, whatever
\* was delayed, lost, abandoned or replaced, before or since.
THEOREM CloseStaysEffective == ClientsSpec => []CloseEndsPublication
  <1>1. ClientsInit => CloseInv
    BY DEF ClientsInit, CloseInv, Good
  <1>2. CloseInv => CloseEndsPublication
    BY Zenon DEF CloseInv, Good, CloseEndsPublication
  <1> QED
    BY <1>1, <1>2, ClientsInvariant, StepCloseInv, PTL DEF ClientsSpec
=============================================================================
