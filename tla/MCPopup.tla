------------------------------ MODULE MCPopup -------------------------------
(***************************************************************************)
(* Popup for TLC: one persona that passes validation and one that does     *)
(* not.                                                                    *)
(***************************************************************************)
EXTENDS Popup

CONSTANTS good, bad

Judged == [p \in {good, bad} |-> IF p = good THEN "valid" ELSE "invalid"]
=============================================================================
