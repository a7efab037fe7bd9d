----------------------------- MODULE PageScript -----------------------------
(***************************************************************************)
(* The overrides that the injected script                                  *)
(* (extension/src/injected/injected.ts) puts on the objects of one web     *)
(* page, and the page that does the same: it redefines properties, freezes *)
(* the objects they are on, and removes globals.  JavaScript runs a        *)
(* message to its end, so each message is one step.                        *)
(*                                                                         *)
(* A target is a property of a prototype with the one function that        *)
(* overrides it; targets that no code treats differently share one.        *)
(* Position is the order in which applyPersona comes to them.              *)
(***************************************************************************)
EXTENDS Naturals

CONSTANTS
    Personas,
    Targets,        \* the properties that are overridden
    Position,       \* when applyPersona overrides them
    Required,       \* targets whose global is used without a typeof
    Native,         \* the value of the browser
    PageOwn,        \* a value the page defined
    None,           \* nothing saved, no persona
    MaxTampers      \* bound on what the page does to the objects

ASSUME PositionAssumption == Position \in [Targets -> Nat]
ASSUME RequiredAssumption == Required \subseteq Targets
ASSUME SentinelAssumption ==
    /\ {Native, PageOwn, None} \cap Personas = {}
    /\ Native # PageOwn /\ None \notin {Native, PageOwn}

VARIABLES
    value,          \* what reading the target gives
    saved,          \* the script's saved descriptors
    activePersona,  \* what window.FacadeProxy.status() says
    sealed,         \* targets the page made non-configurable
    missing,        \* targets whose global the page removed
    own,            \* history: the last definition that is not the script's
    overlaid,       \* history: targets with that definition over an override
    tampers         \* how often the page tampered

svars == <<value, saved, activePersona, sealed, missing, own, overlaid,
           tampers>>

history == <<own, overlaid>>

Values == {Native, PageOwn} \cup Personas

ScriptTypeOK ==
    /\ value \in [Targets -> Values]
    /\ saved \in [Targets -> Values \cup {None}]
    /\ activePersona \in Personas \cup {None}
    /\ sealed \subseteq Targets
    /\ missing \subseteq Targets
    /\ own \in [Targets -> {Native, PageOwn}]
    /\ overlaid \subseteq Targets
    /\ tampers \in Nat

ScriptInit ==
    /\ value = [t \in Targets |-> Native]
    /\ saved = [t \in Targets |-> None]
    /\ activePersona = None
    /\ sealed = {}
    /\ missing = {}
    /\ own = [t \in Targets |-> Native]
    /\ overlaid = {}
    /\ tampers = 0

-----------------------------------------------------------------------------
(* The helpers of the script.                                              *)

Nothing == [t \in Targets |-> None]

\* Mutant: a target without a saved descriptor is restored as well.
UndoAll(v, s) == [t \in Targets |-> IF t \notin sealed THEN s[t] ELSE v[t]]

(* restoreOriginals: every saved descriptor that can be defined again.     *)
Undo(v, s) ==
    [t \in Targets |-> IF s[t] # None /\ t \notin sealed THEN s[t] ELSE v[t]]

(* remember and safeDefine on the targets of T, one after the other: the   *)
(* descriptor is saved even where the definition then fails.               *)
Remember(v, T) == [t \in Targets |-> IF t \in T THEN v[t] ELSE None]
SafeDefine(v, p, T) ==
    [t \in Targets |-> IF t \in T /\ t \notin sealed THEN p ELSE v[t]]

(* A global that is gone throws where the script uses it unguarded; the    *)
(* guarded ones are passed over.                                           *)
Throws == missing \cap Required # {}
Reached ==
    {t \in Targets \ missing :
        \A r \in missing \cap Required : Position[t] < Position[r]}

(* The catch block of applyPersona.                                        *)
FailApply(v, s) ==
    /\ value' = Undo(v, s)
    /\ saved' = Nothing
    /\ activePersona' = None

\* Mutant: a persona is applied over the one before.
ApplyPersonaOver(p) ==
    LET v == SafeDefine(value, p, Reached)
        s == Remember(value, Reached)
    IN  /\ IF Throws THEN FailApply(v, s)
           ELSE /\ value' = v
                /\ saved' = s
                /\ activePersona' = p
        /\ UNCHANGED <<sealed, missing, history, tampers>>

(* The message APPLY_PERSONA, and the synchronous bootstrap.               *)
ApplyPersona(p) ==
    LET clean == Undo(value, saved)
        v == SafeDefine(clean, p, Reached)
        s == Remember(clean, Reached)
    IN  /\ IF Throws THEN FailApply(v, s)
           ELSE /\ value' = v
                /\ saved' = s
                /\ activePersona' = p
        /\ UNCHANGED <<sealed, missing, history, tampers>>

(* The message CLEAR_PERSONA, and window.FacadeProxy.restore().            *)
RestoreOriginals ==
    /\ value' = Undo(value, saved)
    /\ saved' = Nothing
    /\ activePersona' = None
    /\ UNCHANGED <<sealed, missing, history, tampers>>

-----------------------------------------------------------------------------
(* The page.                                                               *)

Tamper == tampers < MaxTampers /\ tampers' = tampers + 1

(* The page defines a target, over the script's override if there is one:  *)
(* restoreOriginals will then put back what was there before the override, *)
(* and what the page defined over it is gone.                              *)
Redefine(t) ==
    /\ Tamper
    /\ t \notin sealed
    /\ value' = [value EXCEPT ![t] = PageOwn]
    /\ own' = [own EXCEPT ![t] = PageOwn]
    /\ overlaid' = IF saved[t] = None THEN overlaid \ {t} ELSE overlaid \cup {t}
    /\ UNCHANGED <<saved, activePersona, sealed, missing>>

Seal(t) ==
    /\ Tamper
    /\ t \notin sealed
    /\ sealed' = sealed \cup {t}
    /\ UNCHANGED <<value, saved, activePersona, missing, history>>

Remove(t) ==
    /\ Tamper
    /\ missing' = missing \cup {t}
    /\ UNCHANGED <<value, saved, activePersona, sealed, history>>

ScriptNext ==
    \/ \E p \in Personas : ApplyPersona(p)
    \/ RestoreOriginals
    \/ \E t \in Targets : Redefine(t) \/ Seal(t) \/ Remove(t)

ScriptSpec == ScriptInit /\ [][ScriptNext]_svars

-----------------------------------------------------------------------------
(* A page sees one whole persona or none, and gets its own values back:    *)
(* whatever the order of messages, whichever override fails half-way and   *)
(* whatever the page did to its objects, all the targets it has not frozen *)
(* show the persona that status() names (or what the page put over it      *)
(* since, or, with its global gone, the value from before), and without a  *)
(* persona each has the value it would have without the extension.         *)
(* Except: what the page defined over an override (overlaid) is lost when  *)
(* the override goes (injected.ts:71-86 against                            *)
(* docs/FacadeProxydesigndoc.md:362); the target then shows an older value *)
(* of the page or the browser, but never a persona.                        *)
Original(t, v) == IF t \in overlaid THEN v \notin Personas ELSE v = own[t]

AllOrNothing ==
    \A t \in Targets \ sealed :
        IF activePersona = None THEN Original(t, value[t])
        ELSE \/ value[t] = activePersona
             \/ t \in overlaid /\ value[t] = own[t]
             \/ t \in missing /\ Original(t, value[t])
=============================================================================
