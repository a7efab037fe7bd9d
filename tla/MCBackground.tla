---------------------------- MODULE MCBackground ----------------------------
(***************************************************************************)
(* Background for TLC: the fault sets of the runs, and the symmetry of the *)
(* handler slots, used by the runs that check no liveness.                 *)
(***************************************************************************)
EXTENDS Background, TLC

AllFaults == FaultKinds

(* What can go wrong while the service worker lives.                       *)
FaultsInWorker == {"proxyCrash", "timeout", "refusal", "proxyError"}

TaskSymmetry == Permutations(Tasks)
=============================================================================
