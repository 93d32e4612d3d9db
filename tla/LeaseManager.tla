---------------------------- MODULE LeaseManager ----------------------------
(***************************************************************************)
(* internal/lease: the time-bounded registrations of process and manual    *)
(* producers.  Every method runs under Manager.mu and is a single step.    *)
(*                                                                         *)
(* Time is relative: an entry carries the time left until ExpiresAt, and   *)
(* Elapse lets one unit pass for all entries.  left = 0 is the code's      *)
(* !now.Before(ExpiresAt).  An entry's token is a fresh random value, so a *)
(* caller either presents it (tokenOK) or fails tokenEqual.                *)
(***************************************************************************)
EXTENDS Integers, Functions

CONSTANTS LeaseTTL    \* Manager.ttl, the length of a lease that asks for none

VARIABLES entries

-----------------------------------------------------------------------------
Entry(Name, Owner, Length) == [name : Name, owner : Owner, ttl : Length, left : Nat]

Init == entries = << >>

Expired(id) == entries[id].left = 0

ExpiredIds == {id \in DOMAIN entries : Expired(id)}

Without(ids) == Restrict(entries, DOMAIN entries \ ids)

\* One unit of time passes for every entry.
Elapse ==
    entries' = [id \in DOMAIN entries |->
                  [entries[id] EXCEPT !.left = IF @ = 0 THEN 0 ELSE @ - 1]]

\* A length that is not positive stands for the manager's own.
Effective(ttl) == IF ttl <= 0 THEN LeaseTTL ELSE ttl

AddWithTTL(id, name, owner, ttl) ==
    entries' = [i \in DOMAIN entries \cup {id} |->
                  IF i = id
                    THEN [name |-> name, owner |-> owner,
                          ttl |-> Effective(ttl), left |-> Effective(ttl)]
                    ELSE entries[i]]

\* A renewal that reaches an expired entry before the sweeper does deletes it,
\* whatever token the caller presents.
Renew(id, tokenOK) ==
    /\ id \in DOMAIN entries
    /\ IF Expired(id)
         THEN entries' = Without({id})
         ELSE /\ tokenOK
              /\ entries' = [entries EXCEPT ![id].left = entries[id].ttl]

\* Only the holder of the token deletes; expiry is not looked at.
Delete(id, tokenOK) ==
    /\ id \in DOMAIN entries
    /\ tokenOK
    /\ entries' = Without({id})

\* The sweeper selects and deletes under one lock.
TakeExpired == entries' = Without(ExpiredIds)

=============================================================================
