----------------------------- MODULE ProxyFiles -----------------------------
(***************************************************************************)
(* The files of the proxy process together: it starts with both, and a     *)
(* crash interrupts what it does to either.                                *)
(***************************************************************************)
EXTENDS PersonaFile, RotatingLog

filesVars == <<fvars, lvars>>

FilesTypeOK == PersonaFileTypeOK /\ LogTypeOK

FilesInit == PersonaFileInit /\ LogInit

FilesNext ==
    \/ \E p \in Posts : PostStep(p) /\ UNCHANGED lvars
    \/ up /\ LogStep /\ UNCHANGED fvars
    \/ Crash /\ UNCHANGED lvars
    \/ Start /\ Reopen

FilesSpec == FilesInit /\ [][FilesNext]_filesVars
=============================================================================
