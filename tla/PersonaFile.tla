---------------------------- MODULE PersonaFile -----------------------------
(***************************************************************************)
(* The TOML file of personas: POST /personas (proxy/src/proxy.rs) has      *)
(* save_personas (proxy/src/persona.rs) truncate and write it in place,    *)
(* and the proxy that is started with --persona reads it (main.rs).        *)
(* Handlers run on several threads and share nothing but the file.  What   *)
(* is in it is the set of its personas, and how long that is.              *)
(***************************************************************************)
EXTENDS Naturals

CONSTANTS
    Personas,
    Valid,          \* those that pass validate_persona
    NoPersona,
    CliPersona,     \* --persona, or NoPersona
    Length,         \* the bytes of each set of personas as TOML
    Posts,          \* slots for concurrent POST /personas: bounds their number
    Installed       \* what the user's file has at first

ASSUME ValidAssumption == Valid \subseteq Personas /\ Installed \subseteq Personas
ASSUME LengthAssumption == Length \in [SUBSET Personas -> Nat]

VARIABLES
    file,       \* what kind of file there is, its personas, its length
    up,         \* whether the proxy runs
    saving,     \* per POST: the next step of save_personas
    content,    \* per POST: the personas it saves
    last,       \* history: the personas written last
    damaged     \* history: a write was cut short, or met another

fvars == <<file, up, saving, content, last, damaged>>

Steps == {"idle", "truncate", "write", "protect"}

PersonaFileTypeOK ==
    /\ file \in [kind : {"whole", "empty", "torn"}, personas : SUBSET Personas,
                 length : Nat]
    /\ up \in BOOLEAN
    /\ saving \in [Posts -> Steps]
    /\ content \in [Posts -> SUBSET Personas]
    /\ last \in SUBSET Personas
    /\ damaged \in BOOLEAN

Whole(S) == [kind |-> "whole", personas |-> S, length |-> Length[S]]

PersonaFileInit ==
    /\ file = Whole(Installed)
    /\ up = FALSE
    /\ saving = [p \in Posts |-> "idle"]
    /\ content = [p \in Posts |-> {}]
    /\ last = Installed
    /\ damaged = FALSE

-----------------------------------------------------------------------------
Step(p, s) == saving' = [saving EXCEPT ![p] = s]

(* handle_personas_sync: one invalid persona refuses all of them.          *)
HandlePersonasSync(p, S) ==
    /\ up
    /\ saving[p] = "idle"
    /\ S \subseteq Valid
    /\ Step(p, "truncate")
    /\ content' = [content EXCEPT ![p] = S]
    /\ UNCHANGED <<file, up, last, damaged>>

(* The extension sends all the personas it has, after each activation.     *)
SyncPersonas(p) == \E S \in SUBSET Personas : S # {} /\ HandlePersonasSync(p, S)

\* Mutant: the file is opened for writing and keeps its content.
OpenWithoutTruncate(p) ==
    /\ saving[p] = "truncate"
    /\ Step(p, "write")
    /\ damaged' = \E q \in Posts \ {p} : saving[q] = "write"
    /\ UNCHANGED <<file, up, content, last>>

(* fs::write opens and truncates the file ...                              *)
Truncate(p) ==
    /\ saving[p] = "truncate"
    /\ file' = [kind |-> "empty", personas |-> {}, length |-> 0]
    /\ Step(p, "write")
    /\ damaged' = \E q \in Posts \ {p} : saving[q] = "write"
    /\ UNCHANGED <<up, content, last>>

(* ... and writes from its beginning; what another POST wrote beyond the   *)
(* end stays.                                                              *)
Write(p) ==
    /\ saving[p] = "write"
    /\ file' = IF file.length > Length[content[p]]
               THEN [kind |-> "torn", personas |-> {}, length |-> file.length]
               ELSE Whole(content[p])
    /\ last' = content[p]
    /\ Step(p, "protect")
    /\ UNCHANGED <<up, content, damaged>>

(* A full disk, or a file that may not be opened: 500.                     *)
WriteFails(p) ==
    /\ saving[p] \in {"truncate", "write"}
    /\ IF saving[p] = "write"
       THEN /\ file' \in {file, [kind |-> "torn", personas |-> {},
                                 length |-> file.length + 1]}
            /\ damaged' = TRUE
       ELSE UNCHANGED <<file, damaged>>
    /\ Step(p, "idle")
    /\ content' = [content EXCEPT ![p] = {}]
    /\ UNCHANGED <<up, last>>

(* restrict_file_permissions; 200, or 500 with the file written all the    *)
(* same.                                                                   *)
Protect(p) ==
    /\ saving[p] = "protect"
    /\ Step(p, "idle")
    /\ content' = [content EXCEPT ![p] = {}]
    /\ UNCHANGED <<file, up, last, damaged>>

Crash ==
    /\ up
    /\ up' = FALSE
    /\ saving' = [p \in Posts |-> "idle"]
    /\ content' = [p \in Posts |-> {}]
    /\ damaged' = (damaged \/ \E p \in Posts : saving[p] = "write")
    /\ UNCHANGED <<file, last>>

(* load_initial_persona: with --persona, the proxy runs only if it finds a *)
(* valid one of that name; what a torn file yields is open.                *)
Loads ==
    \/ CliPersona = NoPersona
    \/ /\ file.kind = "whole" /\ CliPersona \in file.personas \cap Valid
    \/ /\ file.kind = "torn" /\ CliPersona \in Valid

Start ==
    /\ ~up
    /\ Loads
    /\ up' = TRUE
    /\ UNCHANGED <<file, saving, content, last, damaged>>

PostStep(p) ==
    SyncPersonas(p) \/ Truncate(p) \/ Write(p) \/ WriteFails(p) \/ Protect(p)

-----------------------------------------------------------------------------
(* The file survives: unless a crash or a failure cut a write short, or    *)
(* two writes met, the file between two writes is whole and holds what was *)
(* written last, so that the proxy starts again with any --persona that is *)
(* valid and among that; and one undisturbed POST repairs a damaged file.  *)
FileIsLast ==
    (\A p \in Posts : saving[p] # "write") /\ ~damaged => file = Whole(last)
=============================================================================
