---------------------------- MODULE SingleFlight ----------------------------
(***************************************************************************)
(* What the guard of activatePersonaStrict promises its callers            *)
(* (background.ts:152-203, activationInFlight): one call runs at a time,   *)
(* calls that come meanwhile join it, and the leader and all its joiners   *)
(* return together with the same result.                                   *)
(***************************************************************************)
CONSTANTS Callers, Nobody

VARIABLES
    leader,    \* whose call runs
    joiners,   \* who waits for it
    results    \* per caller: the result it was given and has not acted on yet

vars == <<leader, joiners, results>>

Init ==
    /\ leader = Nobody
    /\ joiners = {}
    /\ results = [c \in Callers |-> "none"]

Lead(c) ==
    /\ leader = Nobody
    /\ leader' = c
    /\ UNCHANGED <<joiners, results>>

Join(c) ==
    /\ leader \notin {Nobody, c}
    /\ joiners' = joiners \cup {c}
    /\ UNCHANGED <<leader, results>>

(* Some of the callers do not care for the result.                         *)
Finish(r) ==
    /\ leader # Nobody
    /\ leader' = Nobody
    /\ joiners' = {}
    /\ \E C \in SUBSET (joiners \cup {leader}) :
         results' = [c \in Callers |-> IF c \in C THEN r ELSE results[c]]

Act(c) ==
    /\ results' = [results EXCEPT ![c] = "none"]
    /\ UNCHANGED <<leader, joiners>>

(* The worker is ended, and all its callers with it.                       *)
Vanish ==
    /\ leader' = Nobody
    /\ joiners' = {}
    /\ results' = [c \in Callers |-> "none"]

Next ==
    \/ \E c \in Callers : Lead(c) \/ Join(c) \/ Act(c)
    \/ \E r \in {"applied", "failed"} : Finish(r)
    \/ Vanish

Spec == Init /\ [][Next]_vars
=============================================================================
