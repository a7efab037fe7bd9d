------------------------------- MODULE Popup --------------------------------
(***************************************************************************)
(* The popup (extension/src/popup/popup.ts) and what the service worker    *)
(* does for it: every message first rewrites the settings it has read      *)
(* (ensureDefaults in background.ts), then is answered with a snapshot of  *)
(* the worker's state, which the popup shows without further questions.    *)
(*                                                                         *)
(* The popup runs one flow when it opens and one for each of its buttons;  *)
(* a button is disabled while its flow runs, so each flow has at most one  *)
(* message under way, and the handler in the worker goes by the name of    *)
(* the flow.  Poll is the handler of the worker's own poll.  How a persona *)
(* is activated is module Background; here the outcome is a choice.        *)
(***************************************************************************)
EXTENDS Naturals

CONSTANTS
    Personas,
    NoPersona,
    First,          \* the persona the select element shows at first
    Verdict,        \* what validatePersona says of each persona
    Tokens,         \* control tokens a user may type
    NoToken,        \* the default, an empty one
    NoState,        \* a reply without a state
    MaxInputs,      \* bound on what the user does
    MaxFaults       \* bound on the faults

Verdicts == {"none", "valid", "warned", "invalid"}

ASSUME PersonaAssumption == First \in Personas /\ NoPersona \notin Personas
ASSUME VerdictAssumption == Verdict \in [Personas -> Verdicts \ {"none"}]
ASSUME BoundsAssumption == MaxInputs \in Nat /\ MaxFaults \in Nat

Flows == {"open", "apply", "clear", "save"}
Poll == "poll"
Handlers == Flows \cup {Poll}

VARIABLES
    token, seeded,      \* local storage: the control token, any personas
    desired, active,    \* session storage, as far as the worker trusts it
    wanted,             \* the persona the poll is about to activate
    verdict, stored,    \* lastValidation, and its copy in local storage
    lastError,          \* whether there is one
    job, at,            \* per handler: its message, and where it is
    snapshot,           \* per handler: the token in the settings it read
    reply,              \* per handler: what it is about to answer
    flow,               \* per flow of the popup: which reply it awaits
    chosen,             \* the persona in SET_PERSONA
    view,               \* what the popup shows
    saved, raced,       \* history: the token saved last, and whether
                        \* a handler was between read and write then
    mixed,              \* history: the flow started last was not alone,
                        \* ended without a refresh, or may have found a
                        \* persona active that is not the desired one
    inputs, faults      \* how much of the bounds is used

worker == <<desired, active, wanted, verdict, stored, lastError>>
handlers == <<job, at, snapshot, reply>>
popup == <<flow, chosen, view>>
history == <<saved, raced, mixed>>
bounds == <<inputs, faults>>
pvars == <<token, seeded, worker, handlers, popup, history, bounds>>

MaybePersona == Personas \cup {NoPersona}
MaybeToken == Tokens \cup {NoToken}
Jobs == {"none", "state", "metrics", "set", "clear", "poll"}
Positions == {"idle", "seed", "write", "work", "activate", "answer"}
Waits == {"idle", "main", "state", "metrics", "settings"}
Pills == {"UNSET", "ACTIVE", "DEGRADED", "INVALID"}
Messages == {"", "error", "saved", "unavailable", "errors", "warnings",
             "coherent", "unapplied"}

States == [pill : Pills, desired : MaybePersona, active : MaybePersona,
           token : MaybeToken, verdict : Verdicts, failed : BOOLEAN]
Replies == [ok : BOOLEAN, state : States \cup {NoState}]
Views == [choice : MaybePersona, shown : MaybePersona, input : MaybeToken,
          message : Messages]

ASSUME NoStateAssumption == NoState \notin States

NoReply == [ok |-> FALSE, state |-> NoState]
Blank == [choice |-> NoPersona, shown |-> NoPersona, input |-> NoToken,
          message |-> ""]

PopupTypeOK ==
    /\ token \in MaybeToken /\ seeded \in BOOLEAN
    /\ desired \in MaybePersona /\ active \in MaybePersona
    /\ wanted \in MaybePersona
    /\ verdict \in Verdicts /\ stored \in Verdicts /\ lastError \in BOOLEAN
    /\ job \in [Handlers -> Jobs] /\ at \in [Handlers -> Positions]
    /\ snapshot \in [Handlers -> MaybeToken]
    /\ reply \in [Handlers -> Replies]
    /\ flow \in [Flows -> Waits] /\ chosen \in MaybePersona
    /\ view \in Views
    /\ saved \in MaybeToken /\ raced \in BOOLEAN /\ mixed \in BOOLEAN
    /\ inputs \in Nat /\ faults \in Nat

(* The popup opens and asks for the state; the worker has just started,    *)
(* after the installation or in a later session, when local storage has    *)
(* personas and may have a verdict.                                        *)
PopupInit ==
    /\ token = NoToken /\ seeded \in BOOLEAN
    /\ desired = NoPersona /\ active = NoPersona /\ wanted = NoPersona
    /\ stored \in IF seeded THEN {"none", "invalid"} ELSE {"none"}
    /\ verdict = "none" /\ lastError = FALSE
    /\ job = [h \in Handlers |->
                 IF h = "open" THEN "state" ELSE IF h = Poll THEN "poll" ELSE "none"]
    /\ at = [h \in Handlers |-> IF h \notin {"open", Poll} THEN "idle"
                                ELSE IF seeded THEN "write" ELSE "seed"]
    /\ snapshot = [h \in Handlers |-> NoToken]
    /\ reply = [h \in Handlers |-> NoReply]
    /\ flow = [f \in Flows |-> IF f = "open" THEN "state" ELSE "idle"]
    /\ chosen = NoPersona /\ view = Blank
    /\ saved = NoToken /\ raced = FALSE /\ mixed = FALSE
    /\ inputs = 0 /\ faults = 0

-----------------------------------------------------------------------------
(* The handlers of the worker.                                             *)

Goto(h, p) == at' = [at EXCEPT ![h] = p]

(* A message or the timer of the poll starts a handler: ensureDefaults     *)
(* reads settings and personas, writes personas if there are none, and the *)
(* settings it has read, completed by the defaults.                        *)
Start(h, j, t) ==
    /\ job' = [job EXCEPT ![h] = j]
    /\ snapshot' = [snapshot EXCEPT ![h] = t]
    /\ Goto(h, IF seeded THEN "write" ELSE "seed")

Answer(h, ok, state) ==
    reply' = [reply EXCEPT ![h] = [ok |-> ok, state |-> state]] /\ Goto(h, "answer")

StartPoll ==
    /\ at[Poll] = "idle"
    /\ Start(Poll, "poll", token)
    /\ UNCHANGED <<token, seeded, worker, reply, popup, history, bounds>>

WritePersonas(h) ==
    /\ at[h] = "seed"
    /\ seeded' = TRUE
    /\ Goto(h, "write")
    /\ UNCHANGED <<token, worker, job, snapshot, reply, popup, history, bounds>>

\* Mutant: the settings are written without the ones read.
WriteDefaults(h) ==
    /\ at[h] = "write"
    /\ token' = NoToken
    /\ snapshot' = [snapshot EXCEPT ![h] = NoToken]
    /\ Goto(h, "work")
    /\ UNCHANGED <<seeded, worker, job, reply, popup, history, bounds>>

WriteSettings(h) ==
    /\ at[h] = "write"
    /\ token' = snapshot[h]
    /\ snapshot' = [snapshot EXCEPT ![h] = NoToken]
    /\ Goto(h, "work")
    /\ UNCHANGED <<seeded, worker, job, reply, popup, history, bounds>>

\* Mutant: a persona that is wanted and not applied is said to be pending.
RuntimeStatePending(forced, d, a, v, s, failed) ==
    [pill |-> IF d # NoPersona /\ a = NoPersona THEN "PENDING" ELSE "UNSET",
     desired |-> d, active |-> a, token |-> token, verdict |-> v, failed |-> failed]

(* getRuntimeState: a verdict stands until the next one, for whichever     *)
(* persona; "forced" is the state the caller says it is, or "".            *)
RuntimeState(forced, d, a, v, s, failed) ==
    LET judged(p) == IF v # "none" THEN v ELSE IF s # "none" THEN s ELSE Verdict[p]
        pill == IF forced # "" THEN forced
                ELSE IF a # NoPersona
                     THEN IF judged(a) = "invalid" THEN "INVALID" ELSE "ACTIVE"
                ELSE IF d # NoPersona
                     THEN IF judged(d) = "invalid" THEN "INVALID" ELSE "DEGRADED"
                ELSE "UNSET"
    IN  [pill |-> pill, desired |-> d, active |-> a, token |-> token,
         verdict |-> IF v # "none" THEN v ELSE s, failed |-> failed]

GetState(h) ==
    /\ at[h] = "work" /\ job[h] = "state"
    /\ Answer(h, TRUE, RuntimeState("", desired, active, verdict, stored, lastError))
    /\ UNCHANGED <<token, seeded, worker, job, snapshot, popup, history, bounds>>

FetchMetrics(h) ==
    /\ at[h] = "work" /\ job[h] = "metrics"
    /\ Answer(h, TRUE, NoState)
    /\ UNCHANGED <<token, seeded, worker, job, snapshot, popup, history, bounds>>

(* setPersona: an empty choice is not found, any other is desired at once. *)
SetPersona ==
    /\ at["apply"] = "work" /\ job["apply"] = "set"
    /\ IF chosen = NoPersona
       THEN /\ lastError' = TRUE
            /\ Answer("apply", FALSE, RuntimeState("", desired, active, verdict, stored, TRUE))
            /\ UNCHANGED <<desired, active>>
       ELSE /\ desired' = chosen
            /\ active' = NoPersona
            /\ Goto("apply", "activate")
            /\ UNCHANGED <<lastError, reply>>
    /\ UNCHANGED <<token, seeded, wanted, verdict, stored, job, snapshot, popup,
                   history, bounds>>

(* What the poll, or an activation it joins, puts there for another one.   *)
Stray == active' \notin {NoPersona, desired}

(* Then it is validated and, if valid, activated with success or without,  *)
(* or the activation of another persona by the poll is joined.             *)
Validated(v) ==
    LET pill == IF v = "invalid" THEN "INVALID"
                ELSE IF active' # NoPersona THEN "ACTIVE" ELSE "DEGRADED"
    IN  /\ at["apply"] = "activate"
        /\ verdict' = v /\ stored' = v
        /\ active' \in IF v = "invalid" THEN {NoPersona} ELSE {NoPersona, chosen, wanted}
        /\ lastError' = (active' = NoPersona)
        /\ mixed' = (mixed \/ Stray)
        /\ Answer("apply", active' # NoPersona,
                  RuntimeState(pill, desired, active', v, v, lastError'))
        /\ UNCHANGED <<token, seeded, desired, wanted, job, snapshot, popup, saved,
                       raced, bounds>>

\* Mutant: a verdict that is in storage already is kept.
ActivateWithOldVerdict == Validated(IF stored # "none" THEN stored ELSE Verdict[chosen])

Activate == Validated(Verdict[chosen])

(* clearPersona: the verdict in local storage stays.                       *)
ClearPersona ==
    /\ at["clear"] = "work" /\ job["clear"] = "clear"
    /\ desired' = NoPersona /\ active' = NoPersona
    /\ verdict' = "none" /\ lastError' = FALSE
    /\ Answer("clear", TRUE, RuntimeState("UNSET", NoPersona, NoPersona, "none", stored, FALSE))
    /\ UNCHANGED <<token, seeded, wanted, stored, job, snapshot, popup, history, bounds>>

(* refreshHealthAndState reads what is desired and what is active ...      *)
PollReads ==
    /\ at[Poll] = "work"
    /\ wanted' = IF active = NoPersona THEN desired ELSE NoPersona
    /\ Goto(Poll, "activate")
    /\ UNCHANGED <<token, seeded, desired, active, verdict, stored, lastError, job,
                   snapshot, reply, popup, history, bounds>>

(* ... and keeps, drops or activates it, whatever is desired by then.      *)
RefreshHealth ==
    /\ at[Poll] = "activate"
    /\ active' \in {NoPersona, active, wanted}
    /\ lastError' \in {lastError, desired # NoPersona /\ active' = NoPersona}
    /\ wanted' = NoPersona
    /\ mixed' = (mixed \/ Stray)
    /\ Goto(Poll, "idle")
    /\ UNCHANGED <<token, seeded, desired, verdict, stored, job, snapshot, reply,
                   popup, saved, raced, bounds>>

(* A call to the browser's storage fails: the listener answers the error.  *)
Throw(h) ==
    /\ faults < MaxFaults /\ faults' = faults + 1
    /\ at[h] \notin {"idle", "answer"}
    /\ IF h = Poll
       THEN Goto(Poll, "idle") /\ UNCHANGED <<reply, lastError>>
       ELSE Answer(h, FALSE, NoState) /\ lastError' = TRUE
    /\ snapshot' = [snapshot EXCEPT ![h] = NoToken]
    /\ wanted' = IF h = Poll THEN NoPersona ELSE wanted
    /\ UNCHANGED <<token, seeded, desired, active, verdict, stored, job,
                   popup, history, inputs>>

HandlerStep(h) ==
    \/ WritePersonas(h) \/ WriteSettings(h) \/ GetState(h) \/ FetchMetrics(h)
    \/ h = "apply" /\ (SetPersona \/ Activate)
    \/ h = "clear" /\ ClearPersona
    \/ h = Poll /\ (PollReads \/ RefreshHealth)

-----------------------------------------------------------------------------
(* The popup.                                                              *)

RenderValidation(s) ==
    CASE s.failed                                        -> "error"
      [] ~s.failed /\ s.verdict = "none"                 ->
             IF s.pill = "DEGRADED" THEN "unavailable" ELSE ""
      [] ~s.failed /\ s.verdict = "invalid"              -> "errors"
      [] ~s.failed /\ s.verdict = "warned"               -> "warnings"
      [] ~s.failed /\ s.verdict = "valid"                ->
             CASE s.pill = "ACTIVE"   -> "coherent"
               [] s.pill = "DEGRADED" -> "unapplied"
               [] OTHER               -> ""

RenderState(s) ==
    view' = [choice  |-> IF s.desired # NoPersona THEN s.desired
                         ELSE IF s.active # NoPersona THEN s.active ELSE First,
             shown   |-> IF s.active # NoPersona THEN s.active ELSE s.desired,
             input   |-> s.token,
             message |-> RenderValidation(s)]

Show(message) == view' = [view EXCEPT !.message = message]

Input == inputs < MaxInputs /\ inputs' = inputs + 1

(* A clear or another choice in the middle of an activation.               *)
Unwanted == active \notin {NoPersona, desired}

(* A button is clicked, or the popup opened: its flow sends a message.     *)
Launch(f, j, wait) ==
    /\ flow[f] = "idle" /\ at[f] = "idle"
    /\ flow' = [flow EXCEPT ![f] = wait]
    /\ Start(f, j, token)
    /\ mixed' = (Unwanted \/ \E g \in Flows \ {f} : flow[g] # "idle" \/ at[g] # "idle")

Click(f) ==
    /\ Input
    /\ \/ f = "apply" /\ Launch(f, "set", "main") /\ chosen' = view.choice
       \/ f = "clear" /\ Launch(f, "clear", "main") /\ chosen' = chosen
       \/ f = "save" /\ Launch(f, "state", "settings") /\ chosen' = chosen
    /\ UNCHANGED <<token, seeded, worker, reply, view, saved, raced, faults>>

Select(p) ==
    /\ Input
    /\ view.choice # NoPersona
    /\ view' = [view EXCEPT !.choice = p]
    /\ UNCHANGED <<token, seeded, worker, handlers, flow, chosen, history, faults>>

Type(t) ==
    /\ Input
    /\ view' = [view EXCEPT !.input = t]
    /\ UNCHANGED <<token, seeded, worker, handlers, flow, chosen, history, faults>>

(* The popup is closed in the middle of whatever, and opened again.        *)
Reopen ==
    /\ Input
    /\ at["open"] = "idle"
    /\ flow' = [f \in Flows |-> IF f = "open" THEN "state" ELSE "idle"]
    /\ Start("open", "state", token)
    /\ view' = Blank
    /\ mixed' = (Unwanted \/ \E g \in Flows : at[g] # "idle")
    /\ UNCHANGED <<token, seeded, worker, reply, chosen, saved, raced, faults>>

(* A flow goes on, with its next message or without one.                   *)
Consume(f) == reply' = [reply EXCEPT ![f] = NoReply]
AndThen(f, j, t) == flow' = [flow EXCEPT ![f] = j] /\ Start(f, j, t)
Done(f) ==
    /\ flow' = [flow EXCEPT ![f] = "idle"]
    /\ job' = [job EXCEPT ![f] = "none"]
    /\ Goto(f, "idle")
    /\ UNCHANGED snapshot

\* Mutant: an answer that is not ok is shown, and the state is not.
AfterMessageWithoutRefresh(f) ==
    /\ at[f] = "answer" /\ flow[f] = "main"
    /\ IF reply[f].ok
       THEN RenderState(reply[f].state) /\ AndThen(f, "metrics", token)
       ELSE Show("") /\ Done(f)
    /\ Consume(f)
    /\ UNCHANGED <<token, seeded, worker, chosen, history, bounds>>

(* The click handlers of apply and clear, and refresh with their answer.   *)
AfterMessage(f) ==
    /\ at[f] = "answer" /\ flow[f] = "main"
    /\ IF reply[f].state # NoState
       THEN RenderState(reply[f].state) /\ AndThen(f, "metrics", token)
       ELSE /\ IF f = "apply" THEN Show("error") ELSE UNCHANGED view
            /\ AndThen(f, "state", token)
    /\ Consume(f)
    /\ UNCHANGED <<token, seeded, worker, chosen, history, bounds>>

(* refresh: what fails is shown.                                           *)
AfterState(f) ==
    /\ at[f] = "answer" /\ flow[f] = "state"
    /\ IF reply[f].ok
       THEN RenderState(reply[f].state) /\ AndThen(f, "metrics", token)
       ELSE Show("error") /\ Done(f)
    /\ Consume(f)
    /\ UNCHANGED <<token, seeded, worker, chosen, history, bounds>>

AfterMetrics(f) ==
    /\ at[f] = "answer" /\ flow[f] = "metrics"
    /\ Done(f)
    /\ Consume(f)
    /\ UNCHANGED <<token, seeded, worker, chosen, view, history, bounds>>

Windows == {h \in Handlers : at[h] \in {"seed", "write"}}

\* Mutant: no finally enables the button again.
SaveTokenWithoutFinally ==
    /\ at["save"] = "answer" /\ flow["save"] = "settings"
    /\ reply["save"].ok
    /\ token' = view.input /\ saved' = view.input /\ raced' = (Windows # {})
    /\ Show("saved") /\ AndThen("save", "state", view.input)
    /\ Consume("save")
    /\ UNCHANGED <<seeded, worker, chosen, mixed, bounds>>

(* The settings of the answer and the token that is in the form by now are *)
(* stored, and shown again; a failure, the browser's included, leaves the  *)
(* flow.                                                                   *)
SaveToken ==
    /\ at["save"] = "answer" /\ flow["save"] = "settings"
    /\ \/ /\ reply["save"].ok
          /\ token' = view.input /\ saved' = view.input /\ raced' = (Windows # {})
          /\ Show("saved") /\ AndThen("save", "state", view.input)
          /\ UNCHANGED <<mixed, faults>>
       \/ /\ IF reply["save"].ok THEN faults < MaxFaults /\ faults' = faults + 1
             ELSE UNCHANGED faults
          /\ Done("save") /\ mixed' = TRUE
          /\ UNCHANGED <<token, saved, raced, view>>
    /\ Consume("save")
    /\ UNCHANGED <<seeded, worker, chosen, inputs>>

(* Nobody is left to hear the answer.                                      *)
Unheard(f) ==
    /\ at[f] = "answer" /\ flow[f] = "idle"
    /\ Done(f)
    /\ Consume(f)
    /\ UNCHANGED <<token, seeded, worker, chosen, view, history, bounds>>

(* The browser ends the worker; messages under way are rejected, which     *)
(* only refresh shows.  The new worker starts with a poll.                 *)
LoseWorker ==
    /\ faults < MaxFaults /\ faults' = faults + 1
    /\ at' = [h \in Handlers |-> IF h # Poll THEN "idle"
                                 ELSE IF seeded THEN "write" ELSE "seed"]
    /\ job' = [h \in Handlers |-> IF h = Poll THEN "poll" ELSE "none"]
    /\ snapshot' = [h \in Handlers |-> IF h = Poll THEN token ELSE NoToken]
    /\ reply' = [h \in Handlers |-> NoReply]
    /\ flow' = [f \in Flows |-> "idle"]
    /\ IF \E f \in Flows : flow[f] \in {"state", "metrics"}
       THEN Show("error") ELSE UNCHANGED view
    /\ mixed' = (mixed \/ \E f \in Flows : flow[f] # "idle" \/ at[f] # "idle")
    /\ active' = NoPersona /\ wanted' = NoPersona
    /\ verdict' = "none" /\ lastError' = FALSE
    /\ UNCHANGED <<token, seeded, desired, stored, chosen, saved, raced, inputs>>

FlowStep(f) ==
    \/ AfterMessage(f) \/ AfterState(f) \/ AfterMetrics(f)
    \/ f = "save" /\ SaveToken

PopupNext ==
    \/ StartPoll
    \/ \E h \in Handlers : HandlerStep(h) \/ Throw(h)
    \/ \E f \in Flows : Click(f) \/ FlowStep(f) \/ Unheard(f)
    \/ \E p \in Personas : Select(p)
    \/ \E t \in Tokens : Type(t)
    \/ Reopen
    \/ LoseWorker

PopupSpec == PopupInit /\ [][PopupNext]_pvars

(* The event loops of worker and popup run what can run.                   *)
FairPopupSpec ==
    PopupSpec /\ WF_pvars(\E f \in Flows : HandlerStep(f) \/ FlowStep(f))

-----------------------------------------------------------------------------
(* A saved token is not lost: although every message and every poll writes *)
(* back settings it read before, local storage holds the token saved last, *)
(* unless it was saved while one of them was between its read and its      *)
(* write (background.ts:75-85): then the older token may come back.        *)
TokenKept == raced \/ token = saved

(* The popup asks once and believes the answer: after a flow that nothing  *)
(* else overlapped, whatever failed in it, it names the persona the user   *)
(* wants now, or says that something failed.  It does not see that the     *)
(* worker has applied or dropped that persona since; and the poll may have *)
(* activated an older choice in the meantime (background.ts:153, 255).     *)
ViewIsCurrent ==
    (\A f \in Flows : flow[f] = "idle" /\ at[f] = "idle") /\ ~mixed =>
        view.shown = desired \/ view.message = "error"

(* The worker's verdict carries no persona, and outlives a clear and the   *)
(* worker in local storage.  Without faults, what such a flow shows of a   *)
(* verdict is nevertheless that of the persona it names.                   *)
VerdictFits ==
    (\A f \in Flows : flow[f] = "idle" /\ at[f] = "idle") /\ ~mixed /\ faults = 0 =>
        (view.shown # NoPersona =>
            /\ view.message = "errors" => Verdict[view.shown] = "invalid"
            /\ view.message = "warnings" => Verdict[view.shown] = "warned"
            /\ view.message = "coherent" => Verdict[view.shown] = "valid")

(* No button stays disabled: whatever is rejected, lost or not stored,     *)
(* every flow ends, and once the user waits, all of them have ended.       *)
ButtonsComeBack == []<>(\A f \in Flows : flow[f] = "idle")
=============================================================================
