-------------------------- MODULE ObjectLifecycle --------------------------
(***************************************************************************)
(* What the server promises about the managed objects it stores, with no   *)
(* sessions, batches, locks or crashes: every unique identifier names at   *)
(* most one object, ever, and that object goes through the KMIP life cycle *)
(* and nothing else.  KmipEngine implements this specification.            *)
(***************************************************************************)
EXTENDS Naturals

CONSTANT MaxUid   \* bound: unique identifiers ever used

Uids == 1..MaxUid

\* Before its creation, stored in one of the KMIP states or without a state,
\* destroyed.
Phases == {"unborn", "PRE_ACTIVE", "ACTIVE", "DEACTIVATED", "COMPROMISED",
           "STATELESS", "gone"}

VARIABLE life   \* the phase of every unique identifier

Init == life = [u \in Uids |-> "unborn"]

\* One object or a key pair appears at once.
Create(new) ==
    /\ \A u \in new : life[u] = "unborn"
    /\ \E phase \in {"PRE_ACTIVE", "STATELESS"} :
           life' = [u \in Uids |-> IF u \in new THEN phase ELSE life[u]]

Move(u, from, to) == life[u] \in from /\ life' = [life EXCEPT ![u] = to]

Activate(u) == Move(u, {"PRE_ACTIVE"}, "ACTIVE")

Deactivate(u) == Move(u, {"ACTIVE"}, "DEACTIVATED")

Compromise(u) ==
    Move(u, {"PRE_ACTIVE", "ACTIVE", "DEACTIVATED", "COMPROMISED"}, "COMPROMISED")

\* An active object must be revoked before it can be destroyed.
Destroy(u) ==
    Move(u, {"PRE_ACTIVE", "DEACTIVATED", "COMPROMISED", "STATELESS"}, "gone")

Next ==
    \/ \E new \in SUBSET Uids : Create(new)
    \/ \E u \in Uids : Activate(u) \/ Deactivate(u) \/ Compromise(u) \/ Destroy(u)

Spec == Init /\ [][Next]_life
=============================================================================
