---------------------------- MODULE ProxyControl ----------------------------
(***************************************************************************)
(* The control plane of the localhost proxy (src/proxy/src/proxy.rs): the  *)
(* persona it holds in memory behind an RwLock, the control endpoints that *)
(* read and write it, and the life of its process.  Every handler touches  *)
(* the persona once, under the lock, so a request is served in one step.   *)
(***************************************************************************)
EXTENDS Integers

CONSTANTS
    Personas,      \* the personas of the extension's store
    NoPersona,     \* Rust's None, JSON's null, and the "unset" of /health
    Failed,        \* what a caller gets instead of a 2xx reply
    ProxyAccepts,  \* the personas that pass validate_persona in the proxy
    AuthRequired,  \* BOOLEAN: the proxy was given a control token
    TokenMatches,  \* BOOLEAN: the extension's token is that token
    CliPersona     \* the persona of --persona, or NoPersona

ASSUME NoPersonaAssumption == NoPersona \notin Personas

ASSUME FailedAssumption == Failed \notin Personas \cup {NoPersona}

ASSUME ProxyAcceptsAssumption == ProxyAccepts \subseteq Personas

ASSUME AuthAssumption == AuthRequired \in BOOLEAN /\ TokenMatches \in BOOLEAN

\* load_initial_persona refuses to start on a persona that does not validate.
ASSUME CliPersonaAssumption == CliPersona \in ProxyAccepts \cup {NoPersona}

VARIABLES
    proxyUp,       \* the process is running and its port is bound
    proxyPersona   \* AppState.active_persona

MaybePersona == Personas \cup {NoPersona}

proxyControlVars == <<proxyUp, proxyPersona>>

ProxyControlTypeOK ==
    /\ proxyUp \in BOOLEAN
    /\ proxyPersona \in MaybePersona

ProxyControlInit ==
    /\ proxyUp \in BOOLEAN
    /\ proxyPersona = IF proxyUp THEN CliPersona ELSE NoPersona

-----------------------------------------------------------------------------
(* The origin of an extension is always allowed; the token is checked only *)
(* when one is configured.                                                 *)
ControlAllowed == ~AuthRequired \/ TokenMatches

(* POST /persona answers 401 or 422 and leaves the persona alone, or       *)
(* stores the posted one and answers 200.                                  *)
PostAccepted(p) == ControlAllowed /\ p \in ProxyAccepts

\* Mutant: the persona is stored before it is checked.
HandlePersonaPostUnchecked(p) == proxyUp /\ proxyPersona' = p /\ UNCHANGED proxyUp

HandlePersonaPost(p) ==
    /\ proxyUp
    /\ proxyPersona' = IF PostAccepted(p) THEN p ELSE proxyPersona
    /\ UNCHANGED proxyUp

PostReply(p) == IF PostAccepted(p) THEN p ELSE Failed

(* DELETE /persona stores None, or answers 401.                            *)
HandlePersonaDelete ==
    /\ proxyUp
    /\ proxyPersona' = IF ControlAllowed THEN NoPersona ELSE proxyPersona
    /\ UNCHANGED proxyUp

(* GET /health and GET /persona/current need neither origin nor token.     *)
HandlePersonaRead ==
    /\ proxyUp
    /\ UNCHANGED proxyControlVars

ReadReply == proxyPersona

-----------------------------------------------------------------------------
(* The persona lives in memory only: a new process starts from the command *)
(* line.                                                                   *)
Stop ==
    /\ proxyUp
    /\ proxyUp' = FALSE
    /\ proxyPersona' = NoPersona

Start ==
    /\ ~proxyUp
    /\ proxyUp' = TRUE
    /\ proxyPersona' = CliPersona
=============================================================================
