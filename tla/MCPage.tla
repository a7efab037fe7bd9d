------------------------------- MODULE MCPage -------------------------------
(***************************************************************************)
(* Page for TLC.                                                           *)
(***************************************************************************)
EXTENDS Page

AllFaults == FaultKinds
=============================================================================
