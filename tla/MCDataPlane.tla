----------------------------- MODULE MCDataPlane -----------------------------
(***************************************************************************)
(* DataPlane for TLC.                                                      *)
(***************************************************************************)
EXTENDS DataPlane, TLC

CONSTANTS a, b

(* One persona whose language is no legal header value, and one that is    *)
(* fine.                                                                   *)
LanguageBroken == (a :> "none") @@ (b :> "accept-language")
=============================================================================
