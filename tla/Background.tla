----------------------------- MODULE Background -----------------------------
(***************************************************************************)
(* The extension's service worker (src/extension/src/background/           *)
(* background.ts): its message handlers, its 5 s health poll and its proxy *)
(* error listener, which run as coroutines over shared globals, session    *)
(* storage, the browser's header rules and proxy settings, the tabs, and   *)
(* the localhost proxy of module ProxyControl.                             *)
(*                                                                         *)
(* One step is the code from one await to the next: what JavaScript runs   *)
(* without interruption.  A call to a browser API takes effect when it is  *)
(* made, its await resolves later.  An HTTP request is sent, served (or    *)
(* refused, or timed out) and its reply consumed in three steps.           *)
(***************************************************************************)
EXTENDS ProxyControl

CONSTANTS
    Tasks,         \* slots for concurrently running handlers: bounds their number
    NoTask,        \* activationInFlight = null
    Waiting,       \* the reply of a request still under way
    LocallyValid,  \* the personas that pass validatePersona in the extension
    ProxyEnabled,  \* BOOLEAN: settings.proxyEnabled, which no code writes
    Requests,      \* which messages the popup sends: subset of {"set", "clear"}
    Faults,        \* which faults happen: a subset of FaultKinds
    MaxFaults      \* bounds their number

FaultKinds == {"proxyCrash", "timeout", "refusal", "proxyError",
               "workerRestart", "browserRestart"}

ASSUME NoTaskAssumption == NoTask \notin Tasks

ASSUME WaitingAssumption == Waiting \notin Personas \cup {NoPersona, Failed}

ASSUME LocallyValidAssumption == LocallyValid \subseteq Personas

ASSUME ProxyEnabledAssumption == ProxyEnabled \in BOOLEAN

ASSUME RequestsAssumption == Requests \subseteq {"set", "clear"}

ASSUME FaultsAssumption == Faults \subseteq FaultKinds /\ MaxFaults \in Nat

VARIABLES
    active, desired,        \* session storage: activePersonaId, desiredPersonaId
    ready, reachable,       \* lastNetworkReady, lastProxyReachable
    verdict, storedVerdict, \* lastValidation, and its copy in local storage
    inFlight,               \* the task whose activation is activationInFlight
    dnr,                    \* the persona of the installed header rule
    pac,                    \* whether the PAC script is installed
    told,                   \* the persona last broadcast to the tabs
    badge,                  \* the state shown on the action badge
    late,                   \* requests abandoned by the worker, not yet served
    faultsLeft,             \* how many faults may still happen
    pc, kind, arg, seen, reply  \* per task: where it is, what it is, its locals

session == <<active, desired>>
flags == <<ready, reachable>>
validation == <<verdict, storedVerdict>>
network == <<dnr, pac>>
proxyVars == <<proxyUp, proxyPersona, late, faultsLeft>>
locals == <<kind, arg, seen>>
bgVars == <<session, flags, validation, inFlight, network, told, badge,
            pc, locals, reply>>
vars == <<bgVars, proxyVars>>

Verdicts == {"none", "valid", "invalid"}
BadgeStates == {"UNSET", "ACTIVE", "DEGRADED", "INVALID"}
Kinds == {"none", "set", "clear", "poll", "error"}

(* Where a task awaits a reply of the proxy.                               *)
PostPcs == {"actPost", "pollPost"}
ReadPcs == {"actHealth", "actConfirm", "pollHealth", "pollSynced"}
HttpPcs == PostPcs \cup ReadPcs \cup {"awaitDelete"}

(* From deactivatePersonaRuntime to the broadcast of null.                 *)
TeardownPcs == {"deactivate", "rollback", "clearPac", "sendDelete", "awaitDelete"}

(* Inside activatePersonaStrict, failure path included.                    *)
ActivationPcs == {"actHealth", "actPost", "actConfirm", "actRules", "actInstall",
                  "actVerify", "actStore", "actReady", "actTell", "actDone",
                  "actFailed", "rollback", "clearPac", "sendDelete", "awaitDelete"}

Pcs == HttpPcs \cup TeardownPcs \cup ActivationPcs \cup
       {"idle", "validate", "verdict", "join", "setActive",
        "setDegraded", "clearBadge", "pollActive", "pollReady", "pollTell",
        "pollState", "pollMid", "pollBadge"}

TypeOK ==
    /\ ProxyControlTypeOK
    /\ active \in MaybePersona /\ desired \in MaybePersona
    /\ ready \in BOOLEAN /\ reachable \in BOOLEAN
    /\ verdict \in Verdicts /\ storedVerdict \in Verdicts
    /\ inFlight \in Tasks \cup {NoTask}
    /\ dnr \in MaybePersona /\ pac \in BOOLEAN
    /\ told \in MaybePersona
    /\ badge \in BadgeStates
    /\ late \in SUBSET MaybePersona
    /\ faultsLeft \in 0 .. MaxFaults
    /\ pc \in [Tasks -> Pcs]
    /\ kind \in [Tasks -> Kinds]
    /\ arg \in [Tasks -> MaybePersona]
    /\ seen \in [Tasks -> MaybePersona]
    /\ reply \in [Tasks -> MaybePersona \cup {Failed, Waiting}]

(* The first run after installation; the proxy may be up before it.        *)
Init ==
    /\ ProxyControlInit
    /\ active = NoPersona /\ desired = NoPersona
    /\ ready = FALSE /\ reachable = FALSE
    /\ verdict = "none" /\ storedVerdict = "none"
    /\ inFlight = NoTask
    /\ dnr = NoPersona /\ pac = FALSE
    /\ told = NoPersona
    /\ badge = "UNSET"
    /\ late = {}
    /\ faultsLeft = MaxFaults
    /\ pc = [t \in Tasks |-> "idle"]
    /\ kind = [t \in Tasks |-> "none"]
    /\ arg = [t \in Tasks |-> NoPersona]
    /\ seen = [t \in Tasks |-> NoPersona]
    /\ reply = [t \in Tasks |-> NoPersona]

-----------------------------------------------------------------------------
Goto(t, label) == pc' = [pc EXCEPT ![t] = label]

Step(t, from, to) == pc[t] = from /\ Goto(t, to)

Begin(t, k, label) ==
    /\ pc[t] = "idle"
    /\ kind' = [kind EXCEPT ![t] = k]
    /\ Goto(t, label)

(* The handler returns; its locals are forgotten.                          *)
Return(t) ==
    /\ Goto(t, "idle")
    /\ kind' = [kind EXCEPT ![t] = "none"]
    /\ arg' = [arg EXCEPT ![t] = NoPersona]
    /\ seen' = [seen EXCEPT ![t] = NoPersona]

(* fetchWithTimeout, and the resumption after it.                          *)
Send(t, label) ==
    /\ reply' = [reply EXCEPT ![t] = Waiting]
    /\ Goto(t, label)

Answered(t, label) == pc[t] = label /\ reply[t] # Waiting

Resume(t, label) ==
    /\ reply' = [reply EXCEPT ![t] = NoPersona]
    /\ Goto(t, label)

SpendFault(f) ==
    /\ f \in Faults
    /\ faultsLeft > 0
    /\ faultsLeft' = faultsLeft - 1

FetchProxyHealth(t, label) == Send(t, label)

PostPersonaToProxy(t, label) == Send(t, label)

DeletePersonaFromProxy(t, label) == Send(t, label)

(* The browser calls, where they succeed.                                  *)
ConfigureProxy == pac' = TRUE

ClearProxySettings == pac' = FALSE

ApplyDynamicRules(p) == dnr' = p

ClearDynamicRules == dnr' = NoPersona

BroadcastPersona(p) == told' = p

UpdateBadge(state) == badge' = state

(* A browser call that reports chrome.runtime.lastError.                   *)
Refused == SpendFault("refusal") /\ UNCHANGED <<proxyUp, proxyPersona, late>>

-----------------------------------------------------------------------------
(* The handlers' first steps.                                              *)

(* setPersona, up to the removal of the old persona.  An id that is not in *)
(* the store changes nothing and is left out.                              *)
StartSet(t, p) ==
    /\ "set" \in Requests
    /\ Begin(t, "set", "deactivate")
    /\ arg' = [arg EXCEPT ![t] = p]
    /\ desired' = p
    /\ UNCHANGED <<active, flags, validation, inFlight, network, told, badge, seen,
                   reply, proxyVars>>

StartClear(t) ==
    /\ "clear" \in Requests
    /\ Begin(t, "clear", "rollback")
    /\ active' = NoPersona
    /\ desired' = NoPersona
    /\ UNCHANGED <<flags, validation, inFlight, network, told, badge, arg, seen,
                   reply, proxyVars>>

(* refreshHealthAndState: the timer does not wait for the last poll to end. *)
StartPoll(t) ==
    /\ Begin(t, "poll", "pollActive")
    /\ arg' = [arg EXCEPT ![t] = desired]
    /\ UNCHANGED <<session, flags, validation, inFlight, network, told, badge, seen,
                   reply, proxyVars>>

(* onProxyError: the browser failed to use the PAC script's proxy.         *)
StartProxyError(t) ==
    /\ SpendFault("proxyError")
    /\ pac
    /\ Begin(t, "error", "deactivate")
    /\ ready' = FALSE
    /\ reachable' = FALSE
    /\ UNCHANGED <<session, validation, inFlight, network, told, badge, arg, seen,
                   reply, proxyUp, proxyPersona, late>>

-----------------------------------------------------------------------------
(* deactivatePersonaRuntime, clearPersona and the catch of                 *)
(* activatePersonaStrict take the persona off the layers in the same order. *)

DropActive(t) ==
    /\ Step(t, "deactivate", "rollback")
    /\ active' = NoPersona
    /\ UNCHANGED <<desired, flags, validation, inFlight, network, told, badge, locals,
                   reply, proxyVars>>

\* Mutant: the header rule is left installed.
RollbackOfTheFlag == ready' = FALSE /\ UNCHANGED network

\* Mutant: lastNetworkReady keeps its value.
RollbackOfTheRules == ClearDynamicRules /\ UNCHANGED <<ready, pac>>

(* lastNetworkReady = false and clearDynamicRules in one go.               *)
Rollback == ready' = FALSE /\ ClearDynamicRules /\ UNCHANGED pac

DropRules(t) ==
    /\ Step(t, "rollback", "clearPac")
    /\ Rollback
    /\ verdict' = IF kind[t] = "clear" THEN "none" ELSE verdict
    /\ UNCHANGED <<session, reachable, storedVerdict, inFlight, told, badge, locals,
                   reply, proxyVars>>

DropPac(t) ==
    /\ Step(t, "clearPac", "sendDelete")
    /\ ClearProxySettings
    /\ UNCHANGED <<session, flags, validation, inFlight, dnr, told, badge, locals,
                   reply, proxyVars>>

\* Mutant: the poll takes off the layers of the browser only.
SendDeleteNotByPoll(t) ==
    /\ pc[t] = "sendDelete"
    /\ IF kind[t] = "poll" THEN Resume(t, "awaitDelete")
       ELSE DeletePersonaFromProxy(t, "awaitDelete")
    /\ UNCHANGED <<session, flags, validation, inFlight, network, told, badge, locals,
                   proxyVars>>

SendDelete(t) ==
    /\ pc[t] = "sendDelete"
    /\ DeletePersonaFromProxy(t, "awaitDelete")
    /\ UNCHANGED <<session, flags, validation, inFlight, network, told, badge, locals,
                   proxyVars>>

\* Mutant: a failed activation returns without its finally block.
AfterTeardownWithoutFinally(t) ==
    CASE kind[t] = "set"    -> "validate"
      [] kind[t] = "clear"  -> "clearBadge"
      [] kind[t] = "poll"   -> "pollState"
      [] OTHER              -> "idle"

(* The outcome of the DELETE is ignored.                                   *)
AfterTeardown(t) ==
    IF inFlight = t THEN "actFailed"
    ELSE CASE kind[t] = "set"   -> "validate"
           [] kind[t] = "clear" -> "clearBadge"
           [] kind[t] = "poll"  -> "pollState"
           [] OTHER             -> "idle"

TellNobody(t) ==
    /\ Answered(t, "awaitDelete")
    /\ BroadcastPersona(NoPersona)
    /\ Resume(t, AfterTeardown(t))
    /\ kind' = IF AfterTeardown(t) = "idle" THEN [kind EXCEPT ![t] = "none"] ELSE kind
    /\ UNCHANGED <<session, flags, validation, inFlight, network, badge, arg, seen,
                   proxyVars>>

ClearDone(t) ==
    /\ pc[t] = "clearBadge"
    /\ UpdateBadge("UNSET")
    /\ Return(t)
    /\ UNCHANGED <<session, flags, validation, inFlight, network, told, reply, proxyVars>>

-----------------------------------------------------------------------------
(* activatePersonaStrict.                                                  *)

\* Mutant: activationInFlight is not looked at.
Unguarded == FALSE

InProgress == inFlight # NoTask

\* Mutant: settings.proxyEnabled is not looked at.
RoutingAssumed == FALSE

RoutingDisabled == ~ProxyEnabled

(* Joins the activation under way, whatever its persona, or starts one: up *)
(* to the first health request, or to the catch when routing is disabled.  *)
Activate(t) ==
    \/ /\ InProgress
       /\ Resume(t, "join")
       /\ UNCHANGED <<inFlight, ready, network>>
    \/ /\ ~InProgress
       /\ inFlight' = t
       /\ \/ RoutingDisabled /\ Rollback /\ Resume(t, "clearPac")
          \/ ~RoutingDisabled /\ ready' = FALSE /\ FetchProxyHealth(t, "actHealth") /\ UNCHANGED network

(* The catch block, reached from a failed request.                         *)
FailActivation(t) == Rollback /\ Resume(t, "clearPac")

\* Mutant: a refused call resolves like a successful one.
AfterRefusalIgnored(t) ==
    CASE pc[t] = "actConfirm" -> "actRules"
      [] pc[t] = "actInstall" -> "actVerify"
      [] OTHER                -> "actReady"

(* The promise of a refused browser call rejects, into the catch.          *)
AfterRefusal(t) == "rollback"

ActHealth(t) ==
    /\ Answered(t, "actHealth")
    /\ reachable' = (reply[t] # Failed)
    /\ \/ reply[t] = Failed /\ FailActivation(t)
       \/ reply[t] # Failed /\ PostPersonaToProxy(t, "actPost") /\ UNCHANGED <<ready, network>>
    /\ UNCHANGED <<session, validation, inFlight, told, badge, locals, proxyVars>>

(* The mirroring of the personas file that follows cannot fail the         *)
(* activation.                                                             *)
ActPost(t) ==
    /\ Answered(t, "actPost")
    /\ \/ reply[t] = Failed /\ FailActivation(t)
       \/ reply[t] # Failed /\ FetchProxyHealth(t, "actConfirm") /\ UNCHANGED <<ready, network>>
    /\ UNCHANGED <<session, reachable, validation, inFlight, told, badge, locals,
                   proxyVars>>

(* configureProxy, once the proxy confirms that it holds the persona.      *)
ActConfirm(t) ==
    /\ Answered(t, "actConfirm")
    /\ \/ /\ reply[t] # arg[t]
          /\ FailActivation(t)
          /\ UNCHANGED proxyVars
       \/ /\ reply[t] = arg[t]
          /\ ConfigureProxy
          /\ Resume(t, "actRules")
          /\ UNCHANGED <<ready, dnr, proxyVars>>
       \/ /\ reply[t] = arg[t]
          /\ Refused
          /\ Resume(t, AfterRefusal(t))
          /\ UNCHANGED <<ready, network>>
    /\ UNCHANGED <<session, reachable, validation, inFlight, told, badge, locals>>

(* updateDynamicRulesStrict first removes the old rule,                    *)
ActRules(t) ==
    /\ Step(t, "actRules", "actInstall")
    /\ ClearDynamicRules
    /\ UNCHANGED <<session, flags, validation, inFlight, pac, told, badge, locals,
                   reply, proxyVars>>

(* then installs the persona's.                                            *)
ActInstall(t) ==
    /\ pc[t] = "actInstall"
    /\ \/ /\ ApplyDynamicRules(arg[t])
          /\ Goto(t, "actVerify")
          /\ UNCHANGED proxyVars
       \/ /\ Refused
          /\ Goto(t, AfterRefusal(t))
          /\ UNCHANGED dnr
    /\ UNCHANGED <<session, flags, validation, inFlight, pac, told, badge, locals, reply>>

(* verifyDynamicRulesStrict reads the rules back                           *)
ActVerify(t) ==
    /\ Step(t, "actVerify", "actStore")
    /\ seen' = [seen EXCEPT ![t] = dnr]
    /\ UNCHANGED <<session, flags, validation, inFlight, network, told, badge, kind,
                   arg, reply, proxyVars>>

(* and wants a rule with its id, of whichever persona.                     *)
ActStore(t) ==
    /\ pc[t] = "actStore"
    /\ \/ /\ seen[t] = NoPersona
          /\ Rollback
          /\ Goto(t, "clearPac")
          /\ UNCHANGED <<active, proxyVars>>
       \/ /\ seen[t] # NoPersona
          /\ active' = arg[t]
          /\ Goto(t, "actReady")
          /\ UNCHANGED <<ready, network, proxyVars>>
       \/ /\ seen[t] # NoPersona
          /\ Refused
          /\ Goto(t, AfterRefusal(t))
          /\ UNCHANGED <<active, ready, network>>
    /\ UNCHANGED <<desired, reachable, validation, inFlight, told, badge, locals, reply>>

ActReady(t) ==
    /\ Step(t, "actReady", "actTell")
    /\ ready' = TRUE
    /\ UNCHANGED <<session, reachable, validation, inFlight, network, told, badge,
                   locals, reply, proxyVars>>

ActTell(t) ==
    /\ Step(t, "actTell", "actDone")
    /\ BroadcastPersona(arg[t])
    /\ UNCHANGED <<session, flags, validation, inFlight, network, badge, locals,
                   reply, proxyVars>>

\* Mutant: the result is lost.
AfterActivationResultLost(t, ok) ==
    IF kind[t] = "set" THEN "setDegraded" ELSE "pollState"

\* Mutant: a joiner takes the end of the activation for a success.
AfterActivationOfJoiner(t, ok) ==
    IF kind[t] # "set" THEN "pollState"
    ELSE IF ok \/ inFlight # t THEN "setActive" ELSE "setDegraded"

(* The finally block; the tasks that joined get the same result.           *)
AfterActivation(t, ok) ==
    IF kind[t] # "set" THEN "pollState" ELSE IF ok THEN "setActive" ELSE "setDegraded"

EndActivation(t) ==
    /\ pc[t] \in {"actDone", "actFailed"}
    /\ inFlight' = NoTask
    /\ pc' = [u \in Tasks |->
                IF u = t \/ pc[u] = "join"
                THEN AfterActivation(u, pc[t] = "actDone")
                ELSE pc[u]]
    /\ UNCHANGED <<session, flags, validation, network, told, badge, locals, reply,
                   proxyVars>>

-----------------------------------------------------------------------------
(* The rest of setPersona.                                                 *)

Validate(t) ==
    /\ Step(t, "validate", "verdict")
    /\ verdict' = IF arg[t] \in LocallyValid THEN "valid" ELSE "invalid"
    /\ storedVerdict' = verdict'
    /\ UNCHANGED <<session, flags, inFlight, network, told, badge, locals, reply,
                   proxyVars>>

(* The global lastValidation is read again after the await; on undefined   *)
(* the handler throws and the popup gets an error.                         *)
VerdictLost(t) ==
    /\ pc[t] = "verdict"
    /\ verdict = "none"
    /\ Return(t)
    /\ UNCHANGED <<session, flags, validation, inFlight, network, told, badge, reply,
                   proxyVars>>

VerdictInvalid(t) ==
    /\ pc[t] = "verdict"
    /\ verdict = "invalid"
    /\ ready' = FALSE
    /\ UpdateBadge("INVALID")
    /\ Return(t)
    /\ UNCHANGED <<session, reachable, validation, inFlight, network, told, reply,
                   proxyVars>>

VerdictValid(t) ==
    /\ pc[t] = "verdict"
    /\ verdict = "valid"
    /\ Activate(t)
    /\ UNCHANGED <<session, reachable, validation, told, badge, locals, proxyVars>>

SetDone(t) ==
    /\ pc[t] \in {"setActive", "setDegraded"}
    /\ UpdateBadge(IF pc[t] = "setActive" THEN "ACTIVE" ELSE "DEGRADED")
    /\ Return(t)
    /\ UNCHANGED <<session, flags, validation, inFlight, network, told, reply, proxyVars>>

-----------------------------------------------------------------------------
(* The rest of refreshHealthAndState.  The id of the active persona is     *)
(* read from storage; it counts only if the network is ready when the read *)
(* returns (getActivePersona).                                             *)

PollActive(t) ==
    /\ Step(t, "pollActive", "pollReady")
    /\ seen' = [seen EXCEPT ![t] = active]
    /\ UNCHANGED <<session, flags, validation, inFlight, network, told, badge, kind,
                   arg, reply, proxyVars>>

IfReady(p) == IF ready THEN p ELSE NoPersona

PollReady(t) ==
    /\ pc[t] = "pollReady"
    /\ seen' = [seen EXCEPT ![t] = IfReady(seen[t])]
    /\ FetchProxyHealth(t, "pollHealth")
    /\ UNCHANGED <<session, flags, validation, inFlight, network, told, badge, kind,
                   arg, proxyVars>>

\* Mutant: a persona that the proxy has lost is not posted again.
PollDecisionWithoutResync(act, des, answer) ==
    CASE act # NoPersona /\ answer = Failed                           -> "deactivate"
      [] act = NoPersona /\ des # NoPersona /\ answer # Failed         -> "activate"
      [] des = NoPersona /\ (act = NoPersona \/ answer = act)          -> "deactivate"
      [] OTHER                                                        -> "nothing"

\* Mutant: nothing is done when no persona is desired.
PollDecisionWithoutUnset(act, des, answer) ==
    CASE act # NoPersona /\ answer = Failed                           -> "deactivate"
      [] act # NoPersona /\ answer \notin {Failed, act}               -> "resync"
      [] act = NoPersona /\ des # NoPersona /\ answer # Failed         -> "activate"
      [] OTHER                                                        -> "nothing"

(* The branches of the health poll.                                        *)
PollDecision(act, des, answer) ==
    CASE act # NoPersona /\ answer = Failed                           -> "deactivate"
      [] act # NoPersona /\ answer \notin {Failed, act}               -> "resync"
      [] act = NoPersona /\ des # NoPersona /\ answer # Failed         -> "activate"
      [] des = NoPersona /\ (act = NoPersona \/ answer = act)          -> "deactivate"
      [] OTHER                                                        -> "nothing"

PollHealth(t) ==
    LET decision == PollDecision(seen[t], arg[t], reply[t])
    IN  /\ Answered(t, "pollHealth")
        /\ reachable' = (reply[t] # Failed)
        /\ \/ decision = "activate" /\ Activate(t)
           \/ /\ \/ decision = "deactivate" /\ Resume(t, "deactivate")
                 \/ decision = "resync" /\ PostPersonaToProxy(t, "pollPost")
                 \/ decision = "nothing" /\ Resume(t, "pollState")
              /\ UNCHANGED <<inFlight, ready, network>>
        /\ UNCHANGED <<session, validation, told, badge, locals, proxyVars>>

PollPost(t) ==
    /\ Answered(t, "pollPost")
    /\ \/ reply[t] = Failed /\ Resume(t, "deactivate")
       \/ reply[t] # Failed /\ FetchProxyHealth(t, "pollSynced")
    /\ UNCHANGED <<session, flags, validation, inFlight, network, told, badge, locals,
                   proxyVars>>

PollSynced(t) ==
    /\ Answered(t, "pollSynced")
    /\ \/ reply[t] = seen[t] /\ ready' = TRUE /\ reachable' = TRUE /\ Resume(t, "pollTell")
       \/ reply[t] # seen[t] /\ UNCHANGED flags /\ Resume(t, "deactivate")
    /\ UNCHANGED <<session, validation, inFlight, network, told, badge, locals, proxyVars>>

PollTell(t) ==
    /\ Step(t, "pollTell", "pollState")
    /\ BroadcastPersona(seen[t])
    /\ UNCHANGED <<session, flags, validation, inFlight, network, badge, locals,
                   reply, proxyVars>>

(* getRuntimeState without a forced state, then updateBadge.               *)
PollState(t) ==
    /\ Step(t, "pollState", "pollMid")
    /\ seen' = [seen EXCEPT ![t] = active]
    /\ arg' = [arg EXCEPT ![t] = desired]
    /\ UNCHANGED <<session, flags, validation, inFlight, network, told, badge, kind,
                   reply, proxyVars>>

PollMid(t) ==
    /\ Step(t, "pollMid", "pollBadge")
    /\ seen' = [seen EXCEPT ![t] = IfReady(seen[t])]
    /\ UNCHANGED <<session, flags, validation, inFlight, network, told, badge, kind,
                   arg, reply, proxyVars>>

(* lastValidation, else the stored one, else a fresh one.                  *)
Valid(p) ==
    LET v == IF verdict # "none" THEN verdict ELSE storedVerdict
    IN  v = "valid" \/ (v = "none" /\ p \in LocallyValid)

\* Mutant: the state starts as PENDING.
RuntimeStatePending(t) ==
    CASE seen[t] # NoPersona /\ ready /\ reachable ->
            IF Valid(seen[t]) THEN "ACTIVE" ELSE "INVALID"
      [] OTHER -> "PENDING"

RuntimeState(t) ==
    CASE seen[t] # NoPersona /\ ready /\ reachable ->
            IF Valid(seen[t]) THEN "ACTIVE" ELSE "INVALID"
      [] ~(seen[t] # NoPersona /\ ready /\ reachable) /\ arg[t] # NoPersona ->
            IF Valid(arg[t]) THEN "DEGRADED" ELSE "INVALID"
      [] OTHER -> "UNSET"

PollBadge(t) ==
    /\ pc[t] = "pollBadge"
    /\ UpdateBadge(RuntimeState(t))
    /\ Return(t)
    /\ UNCHANGED <<session, flags, validation, inFlight, network, told, reply, proxyVars>>

-----------------------------------------------------------------------------
(* The proxy's side of a request, and the network between.                 *)

Posted(t) == IF pc[t] = "actPost" THEN arg[t] ELSE seen[t]

Serve(t) ==
    /\ pc[t] \in HttpPcs
    /\ reply[t] = Waiting
    /\ \/ /\ pc[t] \in PostPcs
          /\ HandlePersonaPost(Posted(t))
          /\ reply' = [reply EXCEPT ![t] = PostReply(Posted(t))]
       \/ /\ pc[t] = "awaitDelete"
          /\ HandlePersonaDelete
          /\ reply' = [reply EXCEPT ![t] = NoPersona]
       \/ /\ pc[t] \in ReadPcs
          /\ HandlePersonaRead
          /\ reply' = [reply EXCEPT ![t] = ReadReply]
    /\ UNCHANGED <<session, flags, validation, inFlight, network, told, badge, pc,
                   locals, late, faultsLeft>>

(* Nobody listens on the port, or the process died under the request.      *)
Refuse(t) ==
    /\ pc[t] \in HttpPcs
    /\ reply[t] = Waiting
    /\ ~proxyUp
    /\ reply' = [reply EXCEPT ![t] = Failed]
    /\ UNCHANGED <<session, flags, validation, inFlight, network, told, badge, pc,
                   locals, proxyVars>>

(* A request abandoned by its sender may still reach the proxy.  It stands *)
(* here for the persona the proxy is to hold after it.                     *)
Writing(t) == pc[t] \in PostPcs \cup {"awaitDelete"} /\ reply[t] = Waiting

Leftover(t) == IF pc[t] = "awaitDelete" THEN NoPersona ELSE Posted(t)

(* The AbortController of fetchWithTimeout fires: the request is lost, or  *)
(* is late, or was served and its reply is lost (late and served at once). *)
Timeout(t) ==
    /\ SpendFault("timeout")
    /\ proxyUp
    /\ pc[t] \in HttpPcs
    /\ reply[t] = Waiting
    /\ reply' = [reply EXCEPT ![t] = Failed]
    /\ \/ late' = late
       \/ Writing(t) /\ late' = late \cup {Leftover(t)}
    /\ UNCHANGED <<session, flags, validation, inFlight, network, told, badge, pc,
                   locals, proxyUp, proxyPersona>>

ServeLate ==
    /\ \E p \in late :
         /\ late' = late \ {p}
         /\ IF p = NoPersona THEN HandlePersonaDelete ELSE HandlePersonaPost(p)
    /\ UNCHANGED <<bgVars, faultsLeft>>

StopProxy ==
    /\ SpendFault("proxyCrash")
    /\ Stop
    /\ late' = {}
    /\ UNCHANGED bgVars

StartProxy ==
    /\ Start
    /\ UNCHANGED <<bgVars, late, faultsLeft>>

-----------------------------------------------------------------------------
(* The browser ends the service worker: its coroutines and globals are     *)
(* gone.  Its requests may still arrive.                                   *)
LoseWorker ==
    /\ pc' = [t \in Tasks |-> "idle"]
    /\ kind' = [t \in Tasks |-> "none"]
    /\ arg' = [t \in Tasks |-> NoPersona]
    /\ seen' = [t \in Tasks |-> NoPersona]
    /\ reply' = [t \in Tasks |-> NoPersona]
    /\ inFlight' = NoTask
    /\ ready' = FALSE
    /\ reachable' = FALSE
    /\ verdict' = "none"
    /\ \E T \in SUBSET {t \in Tasks : Writing(t)} :
         late' = late \cup {Leftover(t) : t \in T}
    /\ UNCHANGED <<storedVerdict, network, proxyUp, proxyPersona>>

RestartWorker ==
    /\ SpendFault("workerRestart")
    /\ LoseWorker
    /\ UNCHANGED <<session, told, badge>>

(* Session storage, tabs and badge end with the browser; dynamic rules and *)
(* the PAC setting outlive it.                                             *)
RestartBrowser ==
    /\ SpendFault("browserRestart")
    /\ LoseWorker
    /\ active' = NoPersona
    /\ desired' = NoPersona
    /\ told' = NoPersona
    /\ badge' = "UNSET"

-----------------------------------------------------------------------------
(* The steps that tell the tabs.                                           *)
Broadcast(t) == TellNobody(t) \/ ActTell(t) \/ PollTell(t)

Work(t) ==
    \/ DropActive(t) \/ DropRules(t) \/ DropPac(t) \/ SendDelete(t) \/ ClearDone(t)
    \/ ActHealth(t) \/ ActPost(t) \/ ActConfirm(t) \/ ActRules(t) \/ ActInstall(t)
    \/ ActVerify(t) \/ ActStore(t) \/ ActReady(t) \/ EndActivation(t)
    \/ Validate(t) \/ VerdictLost(t) \/ VerdictInvalid(t) \/ VerdictValid(t)
    \/ SetDone(t)
    \/ PollActive(t) \/ PollReady(t) \/ PollHealth(t) \/ PollPost(t)
    \/ PollSynced(t) \/ PollState(t) \/ PollMid(t) \/ PollBadge(t)

Continue(t) == Work(t) \/ Broadcast(t)

Answer(t) == Serve(t) \/ Refuse(t)

(* The steps that no tab notices.                                          *)
Silent ==
    \/ \E t \in Tasks :
         \/ \E p \in Personas : StartSet(t, p)
         \/ StartClear(t) \/ StartPoll(t) \/ StartProxyError(t)
         \/ Work(t) \/ Answer(t) \/ Timeout(t)
    \/ ServeLate \/ StopProxy \/ StartProxy

Next ==
    \/ Silent
    \/ \E t \in Tasks : Broadcast(t)
    \/ RestartWorker \/ RestartBrowser

Spec == Init /\ [][Next]_vars

(* The event loop runs every resumed coroutine, every request is answered  *)
(* (its timeout sees to that), the timer keeps firing, and the user starts *)
(* the proxy again.                                                        *)
Fairness ==
    /\ \A t \in Tasks : WF_vars(Continue(t)) /\ WF_vars(Answer(t))
    /\ WF_vars(\E t \in Tasks : StartPoll(t))
    /\ WF_vars(StartProxy)
    /\ WF_vars(ServeLate)

FairSpec == Spec /\ Fairness

-----------------------------------------------------------------------------
(* Correctness.                                                            *)

(* activationInFlight is set exactly while one task runs the body of       *)
(* activatePersonaStrict, and nobody waits for an activation that is over: *)
(* a lost or doubled reset would strand the joiners (background.ts:153,    *)
(* 197-199).                                                               *)
OneActivation ==
    /\ \A t \in Tasks : pc[t] \in ActivationPcs \ TeardownPcs => inFlight = t
    /\ inFlight # NoTask => pc[inFlight] \in ActivationPcs
    /\ \A t \in Tasks : pc[t] = "join" => inFlight \notin {NoTask, t}

(* The callers of activatePersonaStrict get what SingleFlight promises.    *)
Joiners == {t \in Tasks : pc[t] = "join"}

Results ==
    [t \in Tasks |-> CASE pc[t] = "setActive"   -> "applied"
                       [] pc[t] = "setDegraded" -> "failed"
                       [] OTHER                 -> "none"]

Flight == INSTANCE SingleFlight WITH
    Callers <- Tasks, Nobody <- NoTask,
    leader <- inFlight, joiners <- Joiners, results <- Results

ImplementsSingleFlight == Flight!Spec

(* Whatever the interleaving, crash or late request: no layer ever carries *)
(* a persona that the proxy would have refused, although the poll's        *)
(* activation and re-sync run without the extension's own validation.      *)
OnlyAccepted ==
    /\ \A p \in {active, dnr, told} \ {NoPersona} : PostAccepted(p)
    /\ proxyPersona \notin {NoPersona, CliPersona} => PostAccepted(proxyPersona)

AllIdle == \A t \in Tasks : pc[t] = "idle"

(* The extension's own layers carry p, all of them.                        *)
Shown(p) == active = p /\ ready /\ dnr = p /\ pac /\ told = p

Applied(p) == Shown(p) /\ proxyPersona = p

LayersOff == dnr = NoPersona /\ ~pac /\ told = NoPersona

(* Handlers one at a time: when none runs, lastNetworkReady means that all *)
(* layers carry the stored persona, whatever failed on the way.            *)
ReadyMeansShown == AllIdle /\ ready => active # NoPersona /\ Shown(active)

(* And without it every layer is off, as long as the worker lives: no      *)
(* failure at any step of activation, re-sync or teardown leaves a layer.  *)
NotReadyMeansOff == AllIdle /\ ~ready => LayersOff

(* Handlers one at a time, and personas that both sides judge alike: while *)
(* any layer carries a persona, the badge does not deny it.                *)
BadgeNeverDenies == AllIdle /\ badge # "ACTIVE" => LayersOff

(* The tabs are told of a persona only once the header rule, the PAC       *)
(* script and session storage are there for it.                            *)
NetworkFirst ==
    [][\A p \in Personas : told' = p /\ told # p => pac /\ dnr = p /\ active = p]_vars

(* With proxy routing disabled no layer is ever touched.                   *)
NothingWhenDisabled == ~ProxyEnabled => LayersOff /\ active = NoPersona

(* Every handler ends, joiners included: the popup gets its answer.        *)
EveryHandlerReturns == \A t \in Tasks : pc[t] # "idle" ~> pc[t] = "idle"

(* Once nobody wants a persona, every layer is off for good: a clear that  *)
(* raced an activation, rules left by an earlier browser session and late  *)
(* requests are all cleaned up by the poll.                                *)
ClearTakesEffect == <>[](desired = NoPersona) => <>[](LayersOff /\ active = NoPersona)

(* Once nobody wants a persona, the proxy holds none for good, if it lets  *)
(* the extension in: the outcome of a DELETE is ignored (background.ts:    *)
(* 276), an activation may give up after its POST, a POST that timed out   *)
(* may come late and the proxy may start with a persona of its own, but    *)
(* the poll goes on deleting.                                              *)
ProxyForgets ==
    ControlAllowed /\ <>[](desired = NoPersona) => <>[](proxyPersona = NoPersona)

(* Handlers one at a time: a persona the user keeps wanting, and that both *)
(* sides accept, is applied on every layer again and again, after any      *)
(* crash, restart, timeout or late request.                                *)
SelfHeals ==
    \A p \in LocallyValid :
        PostAccepted(p) /\ <>[](desired = p) => []<>Applied(p)
=============================================================================
