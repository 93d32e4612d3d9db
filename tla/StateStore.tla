----------------------------- MODULE StateStore -----------------------------
(***************************************************************************)
(* internal/state: the remembered frontend ports, in memory and in         *)
(* state.json.  Every method runs under Store.mu.  saveLocked writes a     *)
(* temporary file, syncs it and renames it over state.json, so the file    *)
(* holds either the old map or the new one; any of its calls may fail, and *)
(* then the file is the old one.  A name without an entry has port 0, as a *)
(* Go map returns it.                                                      *)
(***************************************************************************)
EXTENDS Naturals

CONSTANTS Name

VARIABLES
    ports,     \* Store.m.TCPPorts
    dirty,     \* Store.dirty
    file,      \* the map last renamed into place
    readable   \* state.json parses

NoPorts == [n \in Name |-> 0]

\* There is no state file yet.
Init ==
    /\ ports = NoPorts
    /\ dirty = FALSE
    /\ file = NoPorts
    /\ readable = TRUE

\* A file that does not parse is copied aside and the daemon starts empty.
Load ==
    /\ ports' = IF readable THEN file ELSE NoPorts
    /\ dirty' = FALSE
    /\ UNCHANGED <<file, readable>>

\* saved says whether every call of the write went through.
saveLocked(saved) ==
    IF saved THEN file' = ports' /\ readable' = TRUE
             ELSE UNCHANGED <<file, readable>>

\* Mutant: trusts the value in memory, although the last write may have failed.
SetPortTrustingMemory(name, port, saved) ==
    IF ports[name] = port
      THEN saved /\ UNCHANGED <<ports, dirty, file, readable>>
      ELSE /\ ports' = [ports EXCEPT ![name] = port]
           /\ dirty' = ~saved
           /\ saveLocked(saved)

\* SetPort; saved is its verdict (a nil error).
SetPort(name, port, saved) ==
    IF ports[name] = port /\ ~dirty
      THEN saved /\ UNCHANGED <<ports, dirty, file, readable>>
      ELSE /\ ports' = [ports EXCEPT ![name] = port]
           /\ dirty' = ~saved
           /\ saveLocked(saved)

Save(saved) ==
    /\ UNCHANGED ports
    /\ dirty' = (dirty /\ ~saved)
    /\ saveLocked(saved)

=============================================================================
