----------------------------- MODULE BoundedPool -----------------------------
(***************************************************************************)
(* What the semaphore of the proxy promises (proxy.rs:39-49, 379 and 438): *)
(* never more than Size holders at a time, and a caller is refused only    *)
(* when there are that many.                                               *)
(***************************************************************************)
EXTENDS Naturals, FiniteSets

CONSTANTS Users, Size

VARIABLES
    holders,   \* who holds a permit
    refused    \* who was refused by its last call

poolVars == <<holders, refused>>

PoolInit == holders = {} /\ refused = {}

Call(u) ==
    /\ refused' = refused \ {u}
    /\ UNCHANGED holders

Acquire(u) ==
    /\ u \notin holders
    /\ Cardinality(holders) < Size
    /\ holders' = holders \cup {u}
    /\ refused' = refused \ {u}

Refuse(u) ==
    /\ Cardinality(holders) = Size
    /\ refused' = refused \cup {u}
    /\ UNCHANGED holders

Release(u) ==
    /\ u \in holders
    /\ holders' = holders \ {u}
    /\ UNCHANGED refused

PoolNext == \E u \in Users : Call(u) \/ Acquire(u) \/ Refuse(u) \/ Release(u)

PoolSpec == PoolInit /\ [][PoolNext]_poolVars
=============================================================================
