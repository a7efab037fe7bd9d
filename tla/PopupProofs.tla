---------------------------- MODULE PopupProofs -----------------------------
(***************************************************************************)
(* Theorems about the popup and the worker's settings, for any personas,   *)
(* verdicts and tokens and any number of inputs and faults.                *)
(***************************************************************************)
EXTENDS Popup, TLAPS

(* What a flow awaits is what its handler is about, so that a good answer  *)
(* to a question for the state has one.                                    *)
FlowFits ==
    \A f \in Flows :
        /\ flow[f] = "main" => f \in {"apply", "clear"}
        /\ flow[f] \in {"state", "settings"} => job[f] = "state"

AnswerFits ==
    \A f \in Flows :
        at[f] = "answer" /\ job[f] = "state" /\ reply[f].ok => reply[f].state # NoState

ChosenFits == at["apply"] = "activate" => chosen \in Personas

PopupInv == PopupTypeOK /\ FlowFits /\ AnswerFits /\ ChosenFits

(* Nobody is about to write back an older token than the one saved last.   *)
KeepInv == ~raced => token = saved /\ \A h \in Windows : snapshot[h] = saved

LEMMA RuntimeStateType ==
    ASSUME NEW forced \in Pills \cup {""}, NEW d \in MaybePersona, NEW a \in MaybePersona,
           NEW v \in Verdicts, NEW s \in Verdicts, NEW failed \in BOOLEAN,
           token \in MaybeToken
    PROVE  RuntimeState(forced, d, a, v, s, failed) \in States
  BY DEF RuntimeState, States, Pills, Verdicts

LEMMA ViewType ==
    ASSUME NEW s \in States, RenderState(s)
    PROVE  view' \in Views
<1>1. RenderValidation(s) \in Messages
  BY DEF RenderValidation, Messages, States, Verdicts, Pills
<1> QED BY <1>1, PersonaAssumption DEF RenderState, Views, States, MaybePersona

(* An answer has a type, and a state if it is a good one to a question for *)
(* the state.                                                              *)
LEMMA AnswerKeeps ==
    ASSUME NEW h \in Handlers, NEW ok \in BOOLEAN, NEW state \in States \cup {NoState},
           reply \in [Handlers -> Replies], at \in [Handlers -> Positions],
           UNCHANGED <<job, flow, chosen>>, FlowFits, AnswerFits, ChosenFits,
           Answer(h, ok, state),
           h \in Flows /\ job[h] = "state" /\ ok => state # NoState
    PROVE  /\ reply' \in [Handlers -> Replies] /\ at' \in [Handlers -> Positions]
           /\ FlowFits' /\ AnswerFits' /\ ChosenFits'
<1>1. [ok |-> ok, state |-> state] \in Replies
  BY DEF Replies
<1>2. reply' \in [Handlers -> Replies] /\ at' \in [Handlers -> Positions]
  BY <1>1 DEF Answer, Goto, Positions
<1>3. ASSUME NEW f \in Flows, at'[f] = "answer", job'[f] = "state", reply'[f].ok
      PROVE  reply'[f].state # NoState
  <2>1. f \in Handlers
    BY DEF Handlers
  <2>2. CASE f = h
    BY <1>3, <2>1, <2>2 DEF Answer
  <2>3. CASE f # h
    BY <1>3, <2>1, <2>3 DEF Answer, Goto, AnswerFits
  <2> QED BY <2>2, <2>3
<1>4. FlowFits'
  BY DEF FlowFits
<1>5. ChosenFits'
  BY DEF ChosenFits, Answer, Goto, Handlers, Flows
<1> QED BY <1>2, <1>3, <1>4, <1>5 DEF AnswerFits

(* Whatever an answer changes of the worker besides is of its type.        *)
LEMMA AnswerKeepsInv ==
    ASSUME PopupInv, NEW h \in Handlers, NEW ok \in BOOLEAN, NEW state \in States \cup {NoState},
           Answer(h, ok, state),
           h \in Flows /\ job[h] = "state" /\ ok => state # NoState,
           UNCHANGED <<token, seeded, job, popup, saved, raced, inputs>>,
           desired' \in MaybePersona, active' \in MaybePersona, wanted' \in MaybePersona,
           mixed' \in BOOLEAN, verdict' \in Verdicts,
           stored' \in Verdicts, lastError' \in BOOLEAN,
           snapshot' \in [Handlers -> MaybeToken], faults' \in Nat
    PROVE  PopupInv'
<1>1. /\ reply' \in [Handlers -> Replies] /\ at' \in [Handlers -> Positions]
      /\ FlowFits' /\ AnswerFits' /\ ChosenFits'
  BY AnswerKeeps DEF PopupInv, PopupTypeOK, popup
<1> QED BY <1>1 DEF PopupInv, PopupTypeOK, popup

LEMMA HandlersKeepInv ==
    ASSUME PopupInv, NEW h \in Handlers, HandlerStep(h) \/ Throw(h)
    PROVE  PopupInv'
<1>0. PopupTypeOK /\ NoState \notin States
  BY NoStateAssumption DEF PopupInv
<1>1. CASE WritePersonas(h)
  BY <1>1 DEF WritePersonas, Positions, FlowFits, AnswerFits, ChosenFits, popup, history,
     bounds, worker, Goto, PopupInv, PopupTypeOK
<1>2. CASE WriteSettings(h)
  BY <1>2 DEF WriteSettings, Positions, MaybeToken, FlowFits, AnswerFits, ChosenFits, popup,
     history, bounds, worker, Goto, PopupInv, PopupTypeOK
<1>3. CASE GetState(h)
  <2>1. RuntimeState("", desired, active, verdict, stored, lastError) \in States
    BY <1>0, RuntimeStateType DEF PopupTypeOK
  <2>2. PICK s \in States : Answer(h, TRUE, s)
    BY <1>3, <2>1 DEF GetState
  <2>3. UNCHANGED <<token, seeded, worker, job, snapshot, popup, history, bounds>>
    BY <1>3 DEF GetState
  <2> QED BY <1>0, <2>2, <2>3, AnswerKeepsInv DEF PopupTypeOK, worker, bounds, history
<1>4. CASE FetchMetrics(h)
  <2>1. Answer(h, TRUE, NoState) /\ job[h] # "state"
    BY <1>4 DEF FetchMetrics
  <2>2. UNCHANGED <<token, seeded, worker, job, snapshot, popup, history, bounds>>
    BY <1>4 DEF FetchMetrics
  <2> QED BY <1>0, <2>1, <2>2, AnswerKeepsInv DEF PopupTypeOK, worker, bounds, history
<1>5. CASE h = "apply" /\ SetPersona
  <2>1. CASE chosen = NoPersona
    <3>1. RuntimeState("", desired, active, verdict, stored, TRUE) \in States
      BY <1>0, RuntimeStateType DEF PopupTypeOK
    <3>2. PICK s \in States : Answer(h, FALSE, s)
      BY <1>5, <2>1, <3>1 DEF SetPersona
    <3>3. /\ UNCHANGED <<token, seeded, desired, active, wanted, verdict, stored, job,
                         snapshot, popup, history, bounds>>
          /\ lastError' = TRUE
      BY <1>5, <2>1 DEF SetPersona
    <3> QED BY <1>0, <3>2, <3>3, AnswerKeepsInv DEF PopupTypeOK, bounds, history
  <2>2. CASE chosen # NoPersona
    <3>1. /\ at' = [at EXCEPT !["apply"] = "activate"] /\ desired' = chosen
          /\ active' = NoPersona
          /\ UNCHANGED <<token, seeded, wanted, verdict, stored, lastError, job,
                         snapshot, reply, flow, chosen, view, saved, raced, mixed, inputs, faults>>
      BY <1>5, <2>2 DEF SetPersona, Goto, popup, history, bounds
    <3>2. FlowFits' /\ AnswerFits' /\ ChosenFits'
      BY <1>0, <2>2, <3>1 DEF PopupInv, PopupTypeOK, FlowFits, AnswerFits, ChosenFits,
         MaybePersona, Handlers
    <3>3. at' \in [Handlers -> Positions] /\ desired' \in MaybePersona
          /\ active' \in MaybePersona
      BY <1>0, <3>1 DEF PopupTypeOK, MaybePersona, Positions
    <3> QED BY <1>0, <3>1, <3>2, <3>3 DEF PopupInv, PopupTypeOK
  <2> QED BY <2>1, <2>2
<1>6. CASE h = "apply" /\ Activate
  <2> DEFINE v == Verdict[chosen]
             pill == IF v = "invalid" THEN "INVALID"
                     ELSE IF active' # NoPersona THEN "ACTIVE" ELSE "DEGRADED"
  <2>1. /\ at["apply"] = "activate" /\ verdict' = v /\ stored' = v
        /\ active' \in {NoPersona, chosen, wanted} /\ lastError' = (active' = NoPersona)
        /\ mixed' = (mixed \/ Stray)
        /\ Answer(h, active' # NoPersona, RuntimeState(pill, desired, active', v, v, lastError'))
        /\ UNCHANGED <<token, seeded, desired, wanted, job, snapshot, popup, saved, raced,
                       bounds>>
    BY <1>6 DEF Activate, Validated
  <2>2. v \in Verdicts /\ active' \in MaybePersona /\ lastError' \in BOOLEAN
        /\ mixed' \in BOOLEAN
    BY <2>1, VerdictAssumption DEF MaybePersona, ChosenFits, PopupInv, PopupTypeOK
  <2>3. pill \in Pills \cup {""}
    BY DEF Pills
  <2>4. RuntimeState(pill, desired, active', v, v, lastError') \in States
    BY <1>0, <2>2, <2>3, RuntimeStateType DEF PopupTypeOK
  <2>5. PICK s \in States, ok \in BOOLEAN : Answer(h, ok, s)
    BY <2>1, <2>4
  <2> QED BY <1>0, <2>1, <2>2, <2>5, AnswerKeepsInv DEF PopupTypeOK, bounds
<1>7. CASE h = "clear" /\ ClearPersona
  <2>1. RuntimeState("UNSET", NoPersona, NoPersona, "none", stored, FALSE) \in States
    BY <1>0, RuntimeStateType DEF Pills, Verdicts, MaybePersona, PopupTypeOK
  <2>2. PICK s \in States : Answer(h, TRUE, s)
    BY <1>7, <2>1 DEF ClearPersona
  <2>3. /\ UNCHANGED <<token, seeded, wanted, stored, job, snapshot, popup, history, bounds>>
        /\ desired' = NoPersona /\ active' = NoPersona
        /\ verdict' = "none" /\ lastError' = FALSE
    BY <1>7 DEF ClearPersona
  <2>4. desired' \in MaybePersona /\ active' \in MaybePersona /\ verdict' \in Verdicts
    BY <2>3 DEF MaybePersona, Verdicts
  <2> QED BY <1>0, <2>2, <2>3, <2>4, AnswerKeepsInv DEF PopupTypeOK, bounds, history
<1>8. CASE h = Poll /\ (PollReads \/ RefreshHealth)
  BY <1>8 DEF PollReads, RefreshHealth, Positions, MaybePersona, Flows, Handlers, Poll,
     FlowFits, AnswerFits, ChosenFits, popup, history, bounds, Goto, PopupInv, PopupTypeOK
<1>9. CASE Throw(h)
  <2>1. CASE h = Poll
    BY <1>9, <2>1 DEF Throw, Positions, FlowFits, AnswerFits, ChosenFits, Goto, Flows,
       Handlers, Poll, popup, history, bounds, MaybeToken, MaybePersona, PopupInv, PopupTypeOK
  <2>2. CASE h # Poll
    <3>1. /\ Answer(h, FALSE, NoState) /\ lastError' = TRUE
          /\ snapshot' = [snapshot EXCEPT ![h] = NoToken] /\ faults' = faults + 1
          /\ wanted' = wanted
          /\ UNCHANGED <<token, seeded, desired, active, verdict, stored, job,
                         popup, history, inputs>>
      BY <1>9, <2>2 DEF Throw
    <3>2. snapshot' \in [Handlers -> MaybeToken] /\ faults' \in Nat
      BY <1>0, <3>1 DEF PopupTypeOK, MaybeToken
    <3> QED BY <1>0, <3>1, <3>2, AnswerKeepsInv DEF PopupTypeOK, history
  <2> QED BY <2>1, <2>2
<1> QED BY <1>1, <1>2, <1>3, <1>4, <1>5, <1>6, <1>7, <1>8, <1>9 DEF HandlerStep

-----------------------------------------------------------------------------
(* A handler that starts has a type; what it answered before stays.        *)
LEMMA StartType ==
    ASSUME PopupTypeOK, NEW h \in Handlers, NEW j \in Jobs, NEW t \in MaybeToken, Start(h, j, t)
    PROVE  /\ job' \in [Handlers -> Jobs] /\ at' \in [Handlers -> Positions]
           /\ snapshot' \in [Handlers -> MaybeToken]
           /\ at'[h] # "answer" /\ at'[h] # "activate" /\ job'[h] = j
           /\ \A g \in Handlers \ {h} : at'[g] = at[g] /\ job'[g] = job[g]
  BY DEF Start, Goto, PopupTypeOK, Positions

(* So a flow that sends a message keeps the invariant, and so does one     *)
(* that ends.                                                              *)
LEMMA StartKeeps ==
    ASSUME PopupInv, NEW f \in Flows, NEW j \in Jobs, NEW t \in MaybeToken, Start(f, j, t),
           NEW w \in Waits, flow' = [flow EXCEPT ![f] = w],
           reply' = reply \/ Consume(f),
           w = "main" => f \in {"apply", "clear"},
           w \in {"state", "settings"} => j = "state",
           chosen' \in MaybePersona, f = "apply" \/ chosen' = chosen
    PROVE  /\ job' \in [Handlers -> Jobs] /\ at' \in [Handlers -> Positions]
           /\ snapshot' \in [Handlers -> MaybeToken] /\ reply' \in [Handlers -> Replies]
           /\ flow' \in [Flows -> Waits]
           /\ FlowFits' /\ AnswerFits' /\ ChosenFits'
<1>0. PopupTypeOK /\ f \in Handlers /\ Flows \subseteq Handlers
  BY DEF PopupInv, Handlers
<1>1. /\ job' \in [Handlers -> Jobs] /\ at' \in [Handlers -> Positions]
      /\ snapshot' \in [Handlers -> MaybeToken]
      /\ at'[f] # "answer" /\ at'[f] # "activate" /\ job'[f] = j
      /\ \A g \in Handlers \ {f} : at'[g] = at[g] /\ job'[g] = job[g]
  BY <1>0, StartType
<1>2. NoReply \in Replies
  BY DEF NoReply, Replies
<1>3. /\ reply' \in [Handlers -> Replies] /\ \A g \in Flows \ {f} : reply'[g] = reply[g]
      /\ flow' \in [Flows -> Waits]
  BY <1>0, <1>2 DEF Consume, PopupTypeOK
<1>4. FlowFits'
  BY <1>0, <1>1 DEF FlowFits, PopupInv, PopupTypeOK
<1>5. AnswerFits'
  BY <1>0, <1>1, <1>3 DEF AnswerFits, PopupInv
<1>6. ChosenFits'
  BY <1>0, <1>1 DEF ChosenFits, PopupInv, Flows
<1> QED BY <1>1, <1>3, <1>4, <1>5, <1>6

LEMMA DoneKeeps ==
    ASSUME PopupInv, NEW f \in Flows, Done(f), Consume(f), chosen' = chosen
    PROVE  /\ job' \in [Handlers -> Jobs] /\ at' \in [Handlers -> Positions]
           /\ snapshot' \in [Handlers -> MaybeToken] /\ reply' \in [Handlers -> Replies]
           /\ flow' \in [Flows -> Waits]
           /\ FlowFits' /\ AnswerFits' /\ ChosenFits'
<1>0. PopupTypeOK /\ f \in Handlers /\ Flows \subseteq Handlers
  BY DEF PopupInv, Handlers
<1>1. NoReply \in Replies
  BY DEF NoReply, Replies
<1>2. /\ job' \in [Handlers -> Jobs] /\ at' \in [Handlers -> Positions]
      /\ snapshot' \in [Handlers -> MaybeToken] /\ reply' \in [Handlers -> Replies]
      /\ flow' \in [Flows -> Waits]
  BY <1>0, <1>1 DEF Done, Consume, Goto, PopupTypeOK, Jobs, Positions, Waits
<1>3. FlowFits' /\ AnswerFits'
  BY <1>0 DEF Done, Consume, Goto, FlowFits, AnswerFits, PopupInv, PopupTypeOK
<1>4. ChosenFits'
  BY <1>0 DEF Done, Goto, ChosenFits, PopupInv, PopupTypeOK, Flows, Handlers
<1> QED BY <1>2, <1>3, <1>4

(* A reply that has a state shows it.                                      *)
LEMMA ShowsReply ==
    ASSUME PopupInv, NEW f \in Flows, reply[f].state # NoState, RenderState(reply[f].state)
    PROVE  view' \in Views
<1>1. reply[f] \in Replies
  BY DEF PopupInv, PopupTypeOK, Handlers
<1>2. reply[f].state \in States
  BY <1>1 DEF Replies
<1> QED BY <1>2, ViewType

LEMMA ShowType ==
    ASSUME PopupInv, NEW m \in Messages, Show(m)
    PROVE  view' \in Views
  BY DEF PopupInv, PopupTypeOK, Views, Show

LEMMA PopupKeepsInv ==
    ASSUME PopupInv, NEW f \in Flows, Click(f) \/ FlowStep(f) \/ Unheard(f)
    PROVE  PopupInv'
<1>0. PopupTypeOK
  BY DEF PopupInv
<1>0a. {"state", "metrics", "set", "clear"} \subseteq Jobs
       /\ {"main", "state", "settings", "metrics"} \subseteq Waits
       /\ {"", "error", "saved"} \subseteq Messages
  BY DEF Jobs, Waits, Messages
<1>0b. token \in MaybeToken /\ view.input \in MaybeToken /\ view.choice \in MaybePersona
  BY <1>0 DEF PopupTypeOK, Views
<1>1. CASE Click(f)
  <2>1. UNCHANGED <<token, seeded, worker, reply, view, saved, raced, faults>>
        /\ inputs' = inputs + 1 /\ mixed' \in BOOLEAN /\ chosen' \in MaybePersona
        /\ (f = "apply" \/ chosen' = chosen)
    BY <1>0, <1>0b, <1>1 DEF Click, Launch, Input, PopupTypeOK
  <2>2. PICK j \in Jobs, w \in Waits : /\ Start(f, j, token)
                                       /\ flow' = [flow EXCEPT ![f] = w]
                                       /\ w = "main" => f \in {"apply", "clear"}
                                       /\ w \in {"state", "settings"} => j = "state"
    BY <1>0a, <1>1 DEF Click, Launch
  <2>3. /\ job' \in [Handlers -> Jobs] /\ at' \in [Handlers -> Positions]
        /\ snapshot' \in [Handlers -> MaybeToken] /\ reply' \in [Handlers -> Replies]
        /\ flow' \in [Flows -> Waits]
        /\ FlowFits' /\ AnswerFits' /\ ChosenFits'
    BY <1>0b, <2>1, <2>2, StartKeeps
  <2> QED BY <1>0, <2>1, <2>3 DEF PopupInv, PopupTypeOK, worker
<1>2. CASE FlowStep(f) \/ Unheard(f)
  <2>1. /\ UNCHANGED <<seeded, worker, chosen, inputs>> /\ faults' \in Nat
        /\ token' \in MaybeToken /\ saved' \in MaybeToken
        /\ raced' \in BOOLEAN /\ mixed' \in BOOLEAN
    <3>1. CASE AfterMessage(f) \/ AfterState(f) \/ AfterMetrics(f) \/ Unheard(f)
      <4>1. UNCHANGED <<token, seeded, worker, chosen, history, bounds>>
        BY <3>1 DEF AfterMessage, AfterState, AfterMetrics, Unheard
      <4> QED BY <1>0, <4>1 DEF PopupTypeOK, history, bounds
    <3>2. CASE SaveToken
      <4>1. /\ UNCHANGED <<seeded, worker, chosen, inputs>>
            /\ faults' \in {faults, faults + 1}
            /\ token' \in {token, view.input} /\ saved' \in {saved, view.input}
            /\ raced' \in {raced, Windows # {}} /\ mixed' \in {mixed, TRUE}
        BY <3>2 DEF SaveToken
      <4>2. faults' \in Nat
        BY <1>0, <4>1 DEF PopupTypeOK
      <4>3. raced' \in BOOLEAN /\ mixed' \in BOOLEAN
        BY <1>0, <4>1 DEF PopupTypeOK
      <4>4. token' \in MaybeToken /\ saved' \in MaybeToken
        BY <1>0, <1>0b, <4>1 DEF PopupTypeOK
      <4> QED BY <4>1, <4>2, <4>3, <4>4
    <3> QED BY <1>2, <3>1, <3>2 DEF FlowStep
  <2>2. /\ job' \in [Handlers -> Jobs] /\ at' \in [Handlers -> Positions]
        /\ snapshot' \in [Handlers -> MaybeToken] /\ reply' \in [Handlers -> Replies]
        /\ flow' \in [Flows -> Waits]
        /\ FlowFits' /\ AnswerFits' /\ ChosenFits'
    <3>1. CASE Done(f) /\ Consume(f)
      BY <2>1, <3>1, DoneKeeps
    <3>2. CASE ~(Done(f) /\ Consume(f))
      <4>1. PICK w \in {"metrics", "state"}, t \in MaybeToken : AndThen(f, w, t)
        BY <1>0b, <1>2, <3>2 DEF FlowStep, AfterMessage, AfterState, AfterMetrics,
           SaveToken, Unheard
      <4>2. Consume(f) /\ chosen' = chosen /\ chosen' \in MaybePersona
        BY <1>0, <1>2 DEF FlowStep, AfterMessage, AfterState, AfterMetrics, SaveToken,
           Unheard, PopupTypeOK
      <4> QED BY <1>0a, <4>1, <4>2, StartKeeps DEF AndThen
    <3> QED BY <3>1, <3>2
  <2>3. view' \in Views
    <3>1. CASE view' = view
      BY <1>0, <3>1 DEF PopupTypeOK
    <3>2. CASE \E m \in {"", "error", "saved"} : Show(m)
      BY <1>0a, <3>2, ShowType
    <3>3. CASE reply[f].state # NoState /\ RenderState(reply[f].state)
      BY <3>3, ShowsReply
    <3>4. ASSUME at[f] = "answer", flow[f] = "state", reply[f].ok
          PROVE  reply[f].state # NoState
      BY <3>4 DEF PopupInv, FlowFits, AnswerFits
    <3> QED BY <1>2, <3>1, <3>2, <3>3, <3>4 DEF FlowStep, AfterMessage, AfterState,
               AfterMetrics, SaveToken, Unheard
  <2> QED BY <1>0, <2>1, <2>2, <2>3 DEF PopupInv, PopupTypeOK, worker
<1> QED BY <1>1, <1>2

LEMMA UserKeepsInv ==
    ASSUME PopupInv,
           \/ StartPoll \/ Reopen \/ LoseWorker
           \/ \E p \in Personas : Select(p)
           \/ \E t \in Tokens : Type(t)
    PROVE  PopupInv'
<1>0. PopupTypeOK /\ NoReply \in Replies
  BY DEF PopupInv, NoReply, Replies
<1>1. CASE StartPoll
  <2>1. Start(Poll, "poll", token) /\ Poll \in Handlers \ Flows
        /\ "poll" \in Jobs /\ token \in MaybeToken
    BY <1>0, <1>1 DEF StartPoll, Handlers, Poll, Flows, Jobs, PopupTypeOK
  <2>2. /\ job' \in [Handlers -> Jobs] /\ at' \in [Handlers -> Positions]
        /\ snapshot' \in [Handlers -> MaybeToken]
        /\ \A g \in Flows : at'[g] = at[g] /\ job'[g] = job[g]
    BY <1>0, <2>1, StartType DEF Handlers
  <2>3. UNCHANGED <<token, seeded, worker, reply, popup, history, bounds>>
    BY <1>1 DEF StartPoll
  <2>4. FlowFits' /\ AnswerFits' /\ ChosenFits'
    BY <2>2, <2>3 DEF FlowFits, AnswerFits, ChosenFits, popup, Flows, PopupInv
  <2> QED BY <1>0, <2>2, <2>3, <2>4 DEF PopupInv, PopupTypeOK, worker, popup, history,
     bounds
<1>2. CASE Reopen
  <2>1. /\ Start("open", "state", token) /\ "open" \in Flows /\ Flows \subseteq Handlers
        /\ "state" \in Jobs /\ token \in MaybeToken
    BY <1>0, <1>2 DEF Reopen, Handlers, Flows, Jobs, PopupTypeOK
  <2>2. /\ job' \in [Handlers -> Jobs] /\ at' \in [Handlers -> Positions]
        /\ snapshot' \in [Handlers -> MaybeToken]
        /\ at'["open"] # "answer" /\ job'["open"] = "state"
        /\ \A g \in Handlers \ {"open"} : at'[g] = at[g] /\ job'[g] = job[g]
    BY <1>0, <2>1, StartType
  <2>3. /\ UNCHANGED <<token, seeded, worker, reply, chosen, saved, raced, faults>>
        /\ inputs' = inputs + 1 /\ mixed' \in BOOLEAN /\ view' = Blank
        /\ flow' = [f \in Flows |-> IF f = "open" THEN "state" ELSE "idle"]
    BY <1>2 DEF Reopen, Input
  <2>4. FlowFits' /\ AnswerFits' /\ ChosenFits'
    BY <2>1, <2>2, <2>3 DEF FlowFits, AnswerFits, ChosenFits, Flows, PopupInv
  <2>5. view' \in Views /\ flow' \in [Flows -> Waits]
    BY <2>3 DEF Blank, Views, MaybePersona, MaybeToken, Messages, Waits
  <2> QED BY <1>0, <2>2, <2>3, <2>4, <2>5 DEF PopupInv, PopupTypeOK, worker
<1>3. CASE LoseWorker
  <2>1. /\ at' \in [Handlers -> Positions] /\ job' \in [Handlers -> Jobs]
        /\ snapshot' \in [Handlers -> MaybeToken] /\ reply' \in [Handlers -> Replies]
        /\ flow' \in [Flows -> Waits]
        /\ \A f \in Flows : at'[f] = "idle" /\ flow'[f] = "idle"
    BY <1>0, <1>3 DEF LoseWorker, Positions, Jobs, Waits, MaybeToken, Handlers, Poll, Flows,
       PopupTypeOK
  <2>2. view' \in Views
    BY <1>0, <1>3, ShowType DEF LoseWorker, Messages, PopupTypeOK
  <2>3. FlowFits' /\ AnswerFits' /\ ChosenFits'
    BY <2>1 DEF FlowFits, AnswerFits, ChosenFits, Flows
  <2>4. /\ UNCHANGED <<token, seeded, desired, stored, chosen, saved, raced, inputs>>
        /\ faults' = faults + 1 /\ mixed' \in BOOLEAN
        /\ active' = NoPersona /\ wanted' = NoPersona
        /\ verdict' = "none" /\ lastError' = FALSE
    BY <1>0, <1>3 DEF LoseWorker, PopupTypeOK
  <2>5. /\ faults' \in Nat /\ active' \in MaybePersona /\ verdict' \in Verdicts
        /\ wanted' \in MaybePersona /\ lastError' \in BOOLEAN
    <3>1. faults \in Nat
      BY <1>0 DEF PopupTypeOK
    <3>2. faults' \in Nat
      BY <2>4, <3>1
    <3> QED BY <2>4, <3>2 DEF MaybePersona, Verdicts
  <2>6. UNCHANGED <<token, seeded, desired, stored, chosen, saved, raced, inputs>>
        /\ mixed' \in BOOLEAN
    BY <2>4
  <2>7. PopupTypeOK'
    BY <1>0, <2>1, <2>2, <2>5, <2>6 DEF PopupTypeOK
  <2> QED BY <2>3, <2>7 DEF PopupInv
<1>4. CASE (\E p \in Personas : Select(p)) \/ (\E t \in Tokens : Type(t))
  <2>1. /\ UNCHANGED <<token, seeded, worker, handlers, flow, chosen, history, faults>>
        /\ inputs' = inputs + 1
    BY <1>4 DEF Select, Type, Input
  <2>2. view' \in Views
    BY <1>0, <1>4 DEF Select, Type, PopupTypeOK, Views, MaybePersona, MaybeToken
  <2> QED BY <1>0, <2>1, <2>2 DEF PopupInv, PopupTypeOK, FlowFits, AnswerFits, ChosenFits,
             worker, handlers, history
<1> QED BY <1>1, <1>2, <1>3, <1>4

LEMMA InitInv == PopupInit => PopupInv
<1> SUFFICES ASSUME PopupInit PROVE PopupInv
  OBVIOUS
<1>1. Blank \in Views /\ NoReply \in Replies
  BY DEF Blank, Views, NoReply, Replies, MaybePersona, MaybeToken, Messages
<1>2. PopupTypeOK
  BY <1>1 DEF PopupInit, PopupTypeOK, MaybePersona, MaybeToken, Verdicts, Jobs, Positions,
     Waits, Handlers, Flows, Poll
<1>3. FlowFits /\ AnswerFits /\ ChosenFits
  BY DEF PopupInit, FlowFits, AnswerFits, ChosenFits, Handlers, Flows
<1> QED BY <1>2, <1>3 DEF PopupInv

LEMMA InvAlways == PopupSpec => []PopupInv
<1>1. PopupInv /\ [PopupNext]_pvars => PopupInv'
  <2> SUFFICES ASSUME PopupInv, [PopupNext]_pvars PROVE PopupInv'
    OBVIOUS
  <2>1. CASE PopupNext
    BY <2>1, HandlersKeepInv, PopupKeepsInv, UserKeepsInv DEF PopupNext
  <2>2. CASE UNCHANGED pvars
    BY <2>2 DEF PopupInv, PopupTypeOK, FlowFits, AnswerFits, ChosenFits, pvars, worker,
       handlers, popup, history, bounds
  <2> QED BY <2>1, <2>2
<1> QED BY <1>1, InitInv, PTL DEF PopupSpec

(* Whatever the user does, whatever fails and in whichever order worker    *)
(* and popup run, all that the popup and the worker hold has its type: the *)
(* popup never shows a reply without a state (popup.ts:18-75).             *)
THEOREM PopupTypeCorrect == PopupSpec => []PopupTypeOK
<1>1. PopupInv => PopupTypeOK
  BY DEF PopupInv
<1> QED BY <1>1, InvAlways, PTL

-----------------------------------------------------------------------------
LEMMA KeepStep == PopupInv /\ KeepInv /\ [PopupNext]_pvars => KeepInv'
<1> SUFFICES ASSUME PopupInv, KeepInv, [PopupNext]_pvars, ~raced' PROVE
             token' = saved' /\ \A h \in Windows' : snapshot'[h] = saved'
  BY DEF KeepInv
<1>0. at \in [Handlers -> Positions] /\ snapshot \in [Handlers -> MaybeToken]
      /\ job \in [Handlers -> Jobs] /\ Flows \subseteq Handlers /\ Poll \in Handlers
      /\ {"open", "apply", "clear", "save"} \subseteq Flows
  BY DEF PopupInv, PopupTypeOK, Handlers, Flows
<1> USE DEF KeepInv, Windows
<1>1. CASE \E h \in Handlers : HandlerStep(h)
  <2>1. PICK h \in Handlers : HandlerStep(h)
    BY <1>1
  <2>2. UNCHANGED <<saved, raced>>
    BY <2>1 DEF HandlerStep, WritePersonas, WriteSettings, GetState, FetchMetrics,
       SetPersona,
       Activate, Validated, ClearPersona, PollReads, RefreshHealth, history
  <2>3. CASE WriteSettings(h)
    BY <1>0, <2>2, <2>3 DEF WriteSettings, Goto
  <2>4. CASE ~WriteSettings(h)
    <3>1. UNCHANGED <<token, snapshot>>
      BY <2>1, <2>4 DEF HandlerStep, WritePersonas, GetState, FetchMetrics, SetPersona,
         Activate, Validated, ClearPersona, PollReads, RefreshHealth
    <3>2. \A g \in Handlers : at'[g] \in {"seed", "write"} => at[g] \in {"seed", "write"}
      BY <1>0, <2>1, <2>4 DEF HandlerStep, WritePersonas, GetState, FetchMetrics,
         SetPersona,
         Activate, Validated, ClearPersona, PollReads, RefreshHealth, Answer, Goto
    <3> QED BY <2>2, <3>1, <3>2
  <2> QED BY <2>3, <2>4
<1>2. CASE \E h \in Handlers : Throw(h)
  BY <1>0, <1>2 DEF Throw, Answer, Goto, history
<1>3. ASSUME NEW h \in Handlers, NEW j, NEW t, Start(h, j, t), t = saved', ~raced,
             UNCHANGED <<token, saved>>
      PROVE  token' = saved' /\ \A g \in Windows' : snapshot'[g] = saved'
  BY <1>0, <1>3 DEF Start, Goto
<1>4. ASSUME NEW f \in Flows, Done(f), ~raced, UNCHANGED <<token, saved>>
      PROVE  token' = saved' /\ \A g \in Windows' : snapshot'[g] = saved'
  BY <1>0, <1>4 DEF Done, Goto
<1>5. CASE StartPoll
  BY <1>0, <1>3, <1>5 DEF StartPoll, history
<1>6. CASE Reopen
  BY <1>0, <1>3, <1>6 DEF Reopen
<1>7. CASE \E f \in Flows : Click(f)
  BY <1>0, <1>3, <1>7 DEF Click, Launch
<1>8. CASE \E f \in Flows : FlowStep(f) \/ Unheard(f)
  <2>1. PICK f \in Flows : FlowStep(f) \/ Unheard(f)
    BY <1>8
  <2>2. CASE AfterMessage(f)
    BY <1>0, <1>3, <1>4, <2>2 DEF AfterMessage, AndThen, history
  <2>3. CASE AfterState(f) \/ AfterMetrics(f) \/ Unheard(f)
    BY <1>0, <1>3, <1>4, <2>3 DEF AfterState, AfterMetrics, Unheard, AndThen, history
  <2>4. CASE SaveToken
    <3>1. CASE reply["save"].ok /\ raced' = (Windows # {}) /\ token' = view.input
               /\ saved' = view.input /\ AndThen("save", "state", view.input)
      BY <1>0, <3>1 DEF AndThen, Start, Goto
    <3>2. CASE Done("save") /\ UNCHANGED <<token, saved, raced>>
      BY <1>0, <1>4, <3>2
    <3> QED BY <2>4, <3>1, <3>2 DEF SaveToken
  <2> QED BY <2>1, <2>2, <2>3, <2>4 DEF FlowStep
<1>9. CASE (\E p \in Personas : Select(p)) \/ (\E t \in Tokens : Type(t)) \/ UNCHANGED pvars
  BY <1>9 DEF Select, Type, pvars, handlers, history
<1>10. CASE LoseWorker
  BY <1>0, <1>10 DEF LoseWorker
<1> QED BY <1>1, <1>2, <1>5, <1>6, <1>7, <1>8, <1>9, <1>10 DEF PopupNext

(* For any number of handlers' reads and writes between them, the token in *)
(* local storage is the one saved last, unless that was saved in the       *)
(* middle of a handler's ensureDefaults (background.ts:74-86).             *)
THEOREM TokenKeptHolds == PopupSpec => []TokenKept
<1>1. PopupInit => KeepInv
  BY DEF PopupInit, KeepInv, Windows
<1>2. KeepInv => TokenKept
  BY DEF KeepInv, TokenKept
<1> QED BY <1>1, <1>2, KeepStep, InvAlways, PTL DEF PopupSpec

-----------------------------------------------------------------------------
(* What the popup shows.  The invariant follows a flow that runs alone     *)
(* from its first message over the worker's answer to what is rendered.    *)

JobFits ==
    /\ job[Poll] = "poll"
    /\ \A f \in Flows :
        /\ flow[f] # "idle" => at[f] # "idle"
        /\ flow[f] = "metrics" => job[f] = "metrics"
        /\ at[f] = "activate" => job[f] = "set"

(* setPersona is about the persona it has made the desired one, unless it  *)
(* is cleared again.                                                       *)
ActivatesDesired == at["apply"] = "activate" => desired \in {chosen, NoPersona}

(* Before it validates, the verdict may be that of another persona.        *)
VerdictKnown ==
    faults = 0 /\ desired # NoPersona /\ at["apply"] # "activate"
        => verdict = Verdict[desired]

RunsAlone ==
    ~mixed =>
        /\ \A f, g \in Flows : at[f] # "idle" /\ at[g] # "idle" => f = g
        /\ \A f \in Flows : at[f] # "idle" => flow[f] # "idle"
        /\ active \in {NoPersona, desired}

Current(s) ==
    /\ s.desired = desired /\ s.active \in {NoPersona, desired}
    /\ faults = 0 /\ desired # NoPersona => s.verdict = Verdict[desired]

ReplyCurrent ==
    ~mixed =>
        \A f \in Flows :
            at[f] = "answer" /\ reply[f].state # NoState => Current(reply[f].state)

MessageFits ==
    view.shown # NoPersona =>
        /\ view.message = "errors" => Verdict[view.shown] = "invalid"
        /\ view.message = "warnings" => Verdict[view.shown] = "warned"
        /\ view.message = "coherent" => Verdict[view.shown] = "valid"

Rendered == \A f \in Flows : flow[f] \in {"idle", "metrics"}

Shows ==
    /\ view.shown = desired \/ view.message = "error"
    /\ faults = 0 => MessageFits

ViewCurrent == ~mixed /\ Rendered => Shows

ViewInv ==
    /\ JobFits /\ ActivatesDesired /\ VerdictKnown
    /\ RunsAlone /\ ReplyCurrent /\ ViewCurrent

(* The worker answers a flow, whose state is current if it runs alone.     *)
LEMMA AnswerKeepsView ==
    ASSUME PopupInv, ViewInv, NEW h \in Flows, NEW ok, NEW state, Answer(h, ok, state),
           at[h] \notin {"idle", "answer"}, UNCHANGED <<job, flow, chosen, view>>,
           ~mixed' => ~mixed /\ active' \in {NoPersona, desired'},
           job[h] = "metrics" => desired' = desired,
           faults' \in {faults, faults + 1},
           ~mixed' /\ state # NoState => Current(state)'
    PROVE  JobFits' /\ RunsAlone' /\ ReplyCurrent' /\ ViewCurrent'
<1>0. /\ at \in [Handlers -> Positions] /\ reply \in [Handlers -> Replies] /\ faults \in Nat
      /\ h \in Handlers /\ Flows \subseteq Handlers
  BY DEF PopupInv, PopupTypeOK, Handlers
<1>1. /\ at'[h] = "answer" /\ reply'[h].state = state
      /\ \A g \in Flows \ {h} : at'[g] = at[g] /\ reply'[g] = reply[g]
  BY <1>0 DEF Answer, Goto
<1>2. JobFits'
  BY <1>1 DEF JobFits, ViewInv
<1>3. RunsAlone'
  BY <1>1 DEF RunsAlone, ViewInv
<1>4. ReplyCurrent'
  <2>1. ASSUME ~mixed', NEW g \in Flows, at'[g] = "answer" PROVE g = h
    BY <1>1, <2>1 DEF RunsAlone, ViewInv
  <2> QED BY <1>1, <2>1 DEF ReplyCurrent
<1>5. ViewCurrent'
  <2> SUFFICES ASSUME ~mixed', Rendered' PROVE
        /\ view.shown = desired' \/ view.message = "error"
        /\ faults' = 0 => MessageFits'
    BY DEF ViewCurrent, Shows
  <2>1. Rendered /\ ~mixed /\ flow[h] = "metrics"
    BY DEF Rendered, RunsAlone, ViewInv
  <2>2. desired' = desired
    BY <2>1 DEF JobFits, ViewInv
  <2>3. faults' = 0 => faults = 0
    BY <1>0
  <2> QED BY <2>1, <2>2, <2>3 DEF ViewCurrent, Shows, ViewInv, MessageFits
<1> QED BY <1>2, <1>3, <1>4, <1>5

(* A handler that has not answered yet moves on.                           *)
LEMMA MoveKeepsView ==
    ASSUME PopupInv, ViewInv, NEW h \in Handlers, NEW to \in {"seed", "write", "work"},
           Goto(h, to), at[h] \notin {"idle", "activate"},
           UNCHANGED <<job, flow, chosen, view, reply, desired, active, verdict, mixed, faults>>
    PROVE  ViewInv'
<1>0. /\ at \in [Handlers -> Positions] /\ Flows \subseteq Handlers
  BY DEF PopupInv, PopupTypeOK, Handlers
<1> USE DEF ViewInv
<1>1. /\ at'[h] = to /\ \A g \in Handlers \ {h} : at'[g] = at[g]
  BY <1>0 DEF Goto
<1>2. JobFits'
  BY <1>0, <1>1 DEF JobFits
<1>3. ActivatesDesired' /\ VerdictKnown'
  BY <1>1, <1>0 DEF ActivatesDesired, VerdictKnown, Flows
<1>4. RunsAlone'
  BY <1>0, <1>1 DEF RunsAlone
<1>5. ReplyCurrent'
  BY <1>0, <1>1 DEF ReplyCurrent, Current
<1>6. ViewCurrent'
  BY DEF ViewCurrent, Shows, Rendered, MessageFits
<1> QED BY <1>2, <1>3, <1>4, <1>5, <1>6

LEMMA HandlersKeepView ==
    ASSUME PopupInv, ViewInv, NEW h \in Handlers, HandlerStep(h) \/ Throw(h)
    PROVE  ViewInv'
<1>0. /\ at \in [Handlers -> Positions] /\ job \in [Handlers -> Jobs] /\ faults \in Nat
      /\ Handlers = Flows \cup {Poll} /\ Poll \notin Flows /\ Poll # "apply"
      /\ "apply" \in Flows /\ "clear" \in Flows /\ "apply" # "clear"
  BY DEF PopupInv, PopupTypeOK, Handlers, Flows, Poll
<1> USE DEF ViewInv
<1>1. CASE WritePersonas(h) \/ WriteSettings(h)
  BY <1>1, MoveKeepsView DEF WritePersonas, WriteSettings, worker, popup, history, bounds
<1>2. CASE GetState(h)
  <2>1. PICK s : /\ Answer(h, TRUE, s)
                 /\ s = RuntimeState("", desired, active, verdict, stored, lastError)
    BY <1>2 DEF GetState
  <2>2. /\ UNCHANGED <<desired, active, verdict, job, flow, chosen, view, mixed, faults>>
        /\ at[h] = "work" /\ h \in Flows
    BY <1>0, <1>2 DEF GetState, JobFits, worker, popup, history, bounds
  <2>3. ~mixed => Current(s)
    <3>1. ASSUME ~mixed, at["apply"] = "activate" PROVE FALSE
      BY <1>0, <2>2, <3>1 DEF RunsAlone
    <3>2. ASSUME ~mixed, faults = 0, desired # NoPersona PROVE verdict = Verdict[desired] /\ verdict # "none"
      BY <3>1, <3>2, VerdictAssumption DEF VerdictKnown, PopupInv, PopupTypeOK, MaybePersona
    <3>3. /\ s.desired = desired /\ s.active = active
          /\ s.verdict = IF verdict # "none" THEN verdict ELSE stored
      BY <2>1 DEF RuntimeState
    <3> QED BY <3>2, <3>3 DEF Current, RunsAlone
  <2>4. Current(s)' <=> Current(s)
    BY <2>2 DEF Current
  <2>5. JobFits' /\ RunsAlone' /\ ReplyCurrent' /\ ViewCurrent'
    BY <2>1, <2>2, <2>3, <2>4, AnswerKeepsView DEF RunsAlone
  <2>6. ActivatesDesired' /\ VerdictKnown'
    BY <1>0, <2>1, <2>2 DEF ActivatesDesired, VerdictKnown, Answer, Goto
  <2> QED BY <2>5, <2>6
<1>3. CASE FetchMetrics(h)
  <2>1. /\ UNCHANGED <<desired, active, verdict, job, flow, chosen, view, mixed, faults>>
        /\ at[h] = "work" /\ h \in Flows /\ Answer(h, TRUE, NoState)
    BY <1>0, <1>3 DEF FetchMetrics, JobFits, worker, popup, history, bounds
  <2>2. JobFits' /\ RunsAlone' /\ ReplyCurrent' /\ ViewCurrent'
    BY <2>1, AnswerKeepsView DEF RunsAlone
  <2>3. ActivatesDesired' /\ VerdictKnown'
    BY <1>0, <2>1 DEF ActivatesDesired, VerdictKnown, Answer, Goto
  <2> QED BY <2>2, <2>3
<1>4. CASE h = "apply" /\ SetPersona
  <2>0. /\ at[h] = "work" /\ job[h] = "set"
        /\ UNCHANGED <<verdict, job, flow, chosen, view, mixed, faults>>
    BY <1>4 DEF SetPersona, popup, history, bounds
  <2>1. CASE chosen = NoPersona
    <3>1. PICK s : /\ Answer(h, FALSE, s)
                   /\ s = RuntimeState("", desired, active, verdict, stored, TRUE)
      BY <1>4, <2>1 DEF SetPersona
    <3>2. UNCHANGED <<desired, active>>
      BY <1>4, <2>1 DEF SetPersona
    <3>3. ASSUME faults = 0, desired # NoPersona PROVE verdict = Verdict[desired] /\ verdict # "none"
      BY <1>4, <2>0, <3>3, VerdictAssumption DEF VerdictKnown, PopupInv, PopupTypeOK,
         MaybePersona
    <3>4. ~mixed => Current(s)
      <4>1. /\ s.desired = desired /\ s.active = active
            /\ s.verdict = IF verdict # "none" THEN verdict ELSE stored
        BY <3>1 DEF RuntimeState
      <4> QED BY <3>3, <4>1 DEF Current, RunsAlone
    <3>5. Current(s)' <=> Current(s)
      BY <2>0, <3>2 DEF Current
    <3>6. JobFits' /\ RunsAlone' /\ ReplyCurrent' /\ ViewCurrent'
      BY <1>0, <1>4, <2>0, <3>1, <3>2, <3>4, <3>5, AnswerKeepsView DEF RunsAlone
    <3>7. ActivatesDesired' /\ VerdictKnown'
      BY <1>0, <1>4, <2>0, <3>1, <3>2 DEF ActivatesDesired, VerdictKnown, Answer, Goto
    <3> QED BY <3>6, <3>7
  <2>2. CASE chosen # NoPersona
    <3>1. /\ desired' = chosen /\ active' = NoPersona /\ UNCHANGED reply
          /\ at' = [at EXCEPT !["apply"] = "activate"]
      BY <1>4, <2>2 DEF SetPersona, Goto
    <3>2. /\ at'["apply"] = "activate"
          /\ \A g \in Handlers \ {"apply"} : at'[g] = at[g]
      BY <1>0, <3>1
    <3>3. JobFits'
      BY <1>0, <1>4, <2>0, <3>2 DEF JobFits
    <3>4. ActivatesDesired' /\ VerdictKnown'
      BY <2>0, <3>1, <3>2 DEF ActivatesDesired, VerdictKnown
    <3>5. RunsAlone'
      BY <1>0, <1>4, <2>0, <3>1, <3>2 DEF RunsAlone
    <3>6. ReplyCurrent'
      BY <1>0, <1>4, <2>0, <3>2 DEF ReplyCurrent, RunsAlone
    <3>7. ~mixed => flow["apply"] \notin {"idle", "metrics"}
      BY <1>0, <1>4, <2>0 DEF RunsAlone, JobFits
    <3>8. ViewCurrent'
      BY <1>0, <2>0, <3>7 DEF ViewCurrent, Rendered
    <3> QED BY <3>3, <3>4, <3>5, <3>6, <3>8
  <2> QED BY <2>1, <2>2
<1>5. CASE h = "apply" /\ Activate
  <2> DEFINE v == Verdict[chosen]
  <2>1. PICK ok, s, pill : /\ Answer(h, ok, s)
                           /\ s = RuntimeState(pill, desired, active', v, v, lastError')
    BY <1>5 DEF Activate, Validated
  <2>2. /\ at[h] = "activate" /\ verdict' = v /\ mixed' = (mixed \/ Stray)
        /\ UNCHANGED <<desired, job, flow, chosen, view, faults>>
    BY <1>5 DEF Activate, Validated, popup, bounds
  <2>3. v # "none" /\ desired \in {chosen, NoPersona}
    BY <1>5, <2>2, VerdictAssumption DEF ChosenFits, ActivatesDesired, PopupInv
  <2>4. ~mixed' => ~mixed /\ active' \in {NoPersona, desired'}
    BY <2>2 DEF Stray
  <2>5. ~mixed' => Current(s)'
    <3>1. s.desired = desired /\ s.active = active' /\ s.verdict = IF v # "none" THEN v ELSE v
      BY <2>1 DEF RuntimeState
    <3> QED BY <2>2, <2>3, <2>4, <3>1 DEF Current
  <2>6. JobFits' /\ RunsAlone' /\ ReplyCurrent' /\ ViewCurrent'
    BY <1>0, <1>5, <2>1, <2>2, <2>4, <2>5, AnswerKeepsView
  <2>7. ActivatesDesired' /\ VerdictKnown'
    BY <1>0, <1>5, <2>1, <2>2, <2>3 DEF ActivatesDesired, VerdictKnown, Answer, Goto
  <2> QED BY <2>6, <2>7
<1>6. CASE h = "clear" /\ ClearPersona
  <2>1. PICK s : /\ Answer(h, TRUE, s)
                 /\ s = RuntimeState("UNSET", NoPersona, NoPersona, "none", stored, FALSE)
    BY <1>6 DEF ClearPersona
  <2>2. /\ at[h] = "work" /\ job[h] = "clear" /\ desired' = NoPersona /\ active' = NoPersona
        /\ UNCHANGED <<job, flow, chosen, view, mixed, faults>>
    BY <1>6 DEF ClearPersona, popup, history, bounds
  <2>3. Current(s)'
    <3>1. s.desired = NoPersona /\ s.active = NoPersona
      BY <2>1 DEF RuntimeState
    <3> QED BY <2>2, <3>1 DEF Current
  <2>4. JobFits' /\ RunsAlone' /\ ReplyCurrent' /\ ViewCurrent'
    BY <1>0, <1>6, <2>1, <2>2, <2>3, AnswerKeepsView
  <2>5. ActivatesDesired' /\ VerdictKnown'
    BY <2>2 DEF ActivatesDesired, VerdictKnown
  <2> QED BY <2>4, <2>5
<1>7. CASE h = Poll /\ (PollReads \/ RefreshHealth \/ Throw(h))
  <2>1. /\ UNCHANGED <<desired, verdict, job, reply, flow, chosen, view>>
        /\ faults' \in {faults, faults + 1}
        /\ ~mixed' => ~mixed /\ (active' = active \/ active' \in {NoPersona, desired})
        /\ \A f \in Flows : at'[f] = at[f]
    <3>1. CASE PollReads
      BY <1>0, <3>1 DEF PollReads, Goto, popup, history, bounds
    <3>2. CASE RefreshHealth
      <4>1. /\ UNCHANGED <<desired, verdict, job, reply, flow, chosen, view, faults>>
            /\ at' = [at EXCEPT ![Poll] = "idle"] /\ mixed' = (mixed \/ Stray)
        BY <3>2 DEF RefreshHealth, Goto, popup, bounds
      <4>2. ~mixed' => ~mixed /\ active' \in {NoPersona, desired}
        BY <4>1 DEF Stray
      <4> QED BY <1>0, <4>1, <4>2
    <3>3. CASE Throw(h)
      BY <1>0, <1>7, <3>3 DEF Throw, Goto, popup, history
    <3> QED BY <1>7, <3>1, <3>2, <3>3
  <2>2. faults' = 0 => faults = 0
    BY <1>0, <2>1
  <2>3. JobFits' /\ ActivatesDesired' /\ VerdictKnown'
    BY <1>0, <2>1, <2>2 DEF JobFits, ActivatesDesired, VerdictKnown
  <2>4. RunsAlone'
    BY <2>1 DEF RunsAlone
  <2>5. ReplyCurrent'
    BY <2>1, <2>2 DEF ReplyCurrent, Current
  <2>6. ViewCurrent'
    BY <2>1, <2>2 DEF ViewCurrent, Shows, Rendered, MessageFits
  <2> QED BY <2>3, <2>4, <2>5, <2>6
<1>8. CASE h # Poll /\ Throw(h)
  <2>1. /\ UNCHANGED <<desired, active, verdict, job, flow, chosen, view, mixed>>
        /\ faults' = faults + 1 /\ at[h] \notin {"idle", "answer"} /\ h \in Flows
        /\ Answer(h, FALSE, NoState)
    BY <1>0, <1>8 DEF Throw, popup, history
  <2>2. JobFits' /\ RunsAlone' /\ ReplyCurrent' /\ ViewCurrent'
    BY <2>1, AnswerKeepsView DEF RunsAlone
  <2>3. ActivatesDesired' /\ VerdictKnown'
    BY <1>0, <2>1 DEF ActivatesDesired, VerdictKnown, Answer, Goto
  <2> QED BY <2>2, <2>3
<1> QED BY <1>1, <1>2, <1>3, <1>4, <1>5, <1>6, <1>7, <1>8 DEF HandlerStep

-----------------------------------------------------------------------------
(* An answer about the worker as it is now is rendered as such.            *)
LEMMA RenderedShows ==
    ASSUME PopupInv, ViewInv, NEW f \in Flows, ~mixed, at[f] = "answer",
           reply[f].state # NoState, RenderState(reply[f].state),
           UNCHANGED <<desired, faults>>
    PROVE  Shows'
<1> DEFINE s == reply[f].state
<1>1. s \in States
  <2>1. reply[f] \in Replies
    BY DEF PopupInv, PopupTypeOK, Handlers
  <2> QED BY <2>1 DEF Replies
<1>2. Current(s)
  BY DEF ReplyCurrent, ViewInv
<1>3. /\ RenderValidation(s) = "errors" => s.verdict = "invalid"
      /\ RenderValidation(s) = "warnings" => s.verdict = "warned"
      /\ RenderValidation(s) = "coherent" => s.verdict = "valid"
  BY <1>1 DEF RenderValidation, States, Verdicts, Pills
<1>4. view'.shown = desired /\ view'.message = RenderValidation(s)
  BY <1>2 DEF RenderState, Current
<1> QED BY <1>2, <1>3, <1>4 DEF Shows, MessageFits, Current

(* A flow that shows the error shows nothing wrong.                        *)
LEMMA ErrorShows ==
    ASSUME PopupInv, Show("error")
    PROVE  Shows'
<1>1. view'.message = "error"
  BY DEF Show, PopupInv, PopupTypeOK, Views
<1> QED BY <1>1 DEF Shows, MessageFits

(* Of a flow that nothing overlaps, no other one is under way.             *)
LEMMA AloneIsRendered ==
    ASSUME ViewInv, NEW f \in Flows, ~mixed, at[f] # "idle"
    PROVE  \A g \in Flows \ {f} : at[g] = "idle" /\ flow[g] = "idle"
  BY DEF ViewInv, RunsAlone, JobFits

LEMMA NextMessageKeepsView ==
    ASSUME PopupInv, ViewInv, NEW f \in Flows, NEW j, NEW t,
           NEW w \in {"state", "metrics"}, at[f] = "answer",
           flow' = [flow EXCEPT ![f] = w], Start(f, j, t),
           w = "metrics" => j = "metrics" /\ (~mixed => Shows'),
           UNCHANGED <<desired, active, verdict, chosen, mixed, faults>>
    PROVE  ViewInv'
<1>0. /\ at \in [Handlers -> Positions] /\ job \in [Handlers -> Jobs]
      /\ flow \in [Flows -> Waits] /\ f \in Handlers /\ Flows \subseteq Handlers
      /\ Poll \notin Flows /\ Poll \in Handlers /\ "apply" \in Flows
  BY DEF PopupInv, PopupTypeOK, Handlers, Flows, Poll
<1> USE DEF ViewInv
<1>1. /\ at'[f] \in {"seed", "write"} /\ job'[f] = j /\ flow'[f] = w
      /\ \A g \in Handlers \ {f} : at'[g] = at[g] /\ job'[g] = job[g]
      /\ \A g \in Flows \ {f} : flow'[g] = flow[g]
  BY <1>0 DEF Start, Goto
<1>2. JobFits'
  BY <1>0, <1>1 DEF JobFits
<1>3. ActivatesDesired' /\ VerdictKnown'
  BY <1>0, <1>1 DEF ActivatesDesired, VerdictKnown
<1>4. RunsAlone'
  BY <1>0, <1>1 DEF RunsAlone
<1>5. ReplyCurrent'
  BY <1>0, <1>1, AloneIsRendered DEF ReplyCurrent
<1>6. ViewCurrent'
  BY <1>1 DEF ViewCurrent, Rendered
<1> QED BY <1>2, <1>3, <1>4, <1>5, <1>6

LEMMA DoneKeepsView ==
    ASSUME PopupInv, ViewInv, NEW f \in Flows, at[f] = "answer", Done(f),
           ~mixed' => ~mixed /\ Shows',
           UNCHANGED <<desired, active, verdict, chosen>>, faults' \in {faults, faults + 1}
    PROVE  ViewInv'
<1>0. /\ at \in [Handlers -> Positions] /\ job \in [Handlers -> Jobs]
      /\ flow \in [Flows -> Waits] /\ f \in Handlers /\ Flows \subseteq Handlers
      /\ Poll \notin Flows /\ Poll \in Handlers /\ "apply" \in Flows /\ faults \in Nat
  BY DEF PopupInv, PopupTypeOK, Handlers, Flows, Poll
<1> USE DEF ViewInv
<1>1. /\ at'[f] = "idle" /\ job'[f] = "none" /\ flow'[f] = "idle"
      /\ \A g \in Handlers \ {f} : at'[g] = at[g] /\ job'[g] = job[g]
      /\ \A g \in Flows \ {f} : flow'[g] = flow[g]
      /\ faults' = 0 => faults = 0
  BY <1>0 DEF Done, Goto
<1>2. JobFits'
  BY <1>0, <1>1 DEF JobFits
<1>3. ActivatesDesired' /\ VerdictKnown'
  BY <1>0, <1>1 DEF ActivatesDesired, VerdictKnown
<1>4. RunsAlone'
  BY <1>0, <1>1 DEF RunsAlone
<1>5. ReplyCurrent'
  BY <1>0, <1>1, AloneIsRendered DEF ReplyCurrent
<1>6. ViewCurrent'
  BY DEF ViewCurrent
<1> QED BY <1>2, <1>3, <1>4, <1>5, <1>6

(* A flow of the popup sends its first message, or goes on with an answer. *)
LEMMA FlowsKeepView ==
    ASSUME PopupInv, ViewInv, NEW f \in Flows, Click(f) \/ FlowStep(f) \/ Unheard(f)
    PROVE  ViewInv'
<1>0. /\ at \in [Handlers -> Positions] /\ job \in [Handlers -> Jobs]
      /\ flow \in [Flows -> Waits] /\ f \in Handlers /\ Flows \subseteq Handlers
      /\ Poll \notin Flows /\ Poll \in Handlers /\ "apply" \in Flows /\ faults \in Nat
  BY DEF PopupInv, PopupTypeOK, Handlers, Flows, Poll
<1> USE DEF ViewInv
<1>1. CASE Click(f)
  <2>1. /\ UNCHANGED <<desired, active, verdict, view, faults, reply>>
        /\ flow[f] = "idle" /\ at[f] = "idle"
        /\ mixed' = (Unwanted \/ \E g \in Flows \ {f} : flow[g] # "idle" \/ at[g] # "idle")
        /\ f = "apply" \/ chosen' = chosen
    BY <1>1 DEF Click, Launch, worker
  <2>2. PICK j \in Jobs, w \in {"main", "settings"} :
             Start(f, j, token) /\ flow' = [flow EXCEPT ![f] = w]
    BY <1>1 DEF Click, Launch, Jobs
  <2>3. /\ at'[f] \in {"seed", "write"} /\ flow'[f] = w
        /\ \A g \in Handlers \ {f} : at'[g] = at[g] /\ job'[g] = job[g]
        /\ \A g \in Flows \ {f} : flow'[g] = flow[g]
    BY <1>0, <2>2 DEF Start, Goto
  <2>4. JobFits'
    BY <1>0, <2>3 DEF JobFits
  <2>5. ActivatesDesired' /\ VerdictKnown'
    BY <1>0, <2>1, <2>3 DEF ActivatesDesired, VerdictKnown
  <2>6. ~mixed' => /\ active \in {NoPersona, desired}
                   /\ \A g \in Flows \ {f} : flow[g] = "idle" /\ at[g] = "idle"
    BY <2>1 DEF Unwanted
  <2>7. RunsAlone' /\ ReplyCurrent'
    BY <1>0, <2>1, <2>3, <2>6 DEF RunsAlone, ReplyCurrent
  <2>8. ViewCurrent'
    BY <2>3 DEF ViewCurrent, Rendered
  <2> QED BY <2>4, <2>5, <2>7, <2>8
<1>2. CASE AfterMessage(f) \/ AfterState(f)
  <2>1. /\ at[f] = "answer"
        /\ UNCHANGED <<desired, active, verdict, chosen, mixed, faults>>
    BY <1>2 DEF AfterMessage, AfterState, worker, history, bounds
  <2>2. CASE RenderState(reply[f].state) /\ AndThen(f, "metrics", token)
             /\ reply[f].state # NoState
    <3>1. ~mixed => Shows'
      BY <2>1, <2>2, RenderedShows
    <3> QED BY <2>1, <2>2, <3>1, NextMessageKeepsView DEF AndThen
  <2>3. CASE AndThen(f, "state", token)
    BY <2>1, <2>3, NextMessageKeepsView DEF AndThen
  <2>4. CASE Show("error") /\ Done(f)
    BY <2>1, <2>4, DoneKeepsView, ErrorShows
  <2>5. AfterState(f) /\ reply[f].ok => reply[f].state # NoState
    BY DEF AfterState, FlowFits, AnswerFits, PopupInv
  <2> QED BY <1>2, <2>2, <2>3, <2>4, <2>5 DEF AfterMessage, AfterState
<1>3. CASE AfterMetrics(f) \/ Unheard(f)
  <2>1. /\ at[f] = "answer" /\ Done(f) /\ flow[f] \in {"metrics", "idle"}
        /\ UNCHANGED <<desired, active, verdict, chosen, mixed, faults, view>>
    BY <1>3 DEF AfterMetrics, Unheard, worker, history, bounds
  <2>2. ~mixed => Rendered
    BY <2>1, AloneIsRendered DEF Rendered
  <2>3. ~mixed => Shows'
    BY <2>1, <2>2 DEF ViewCurrent, Shows, MessageFits
  <2> QED BY <2>1, <2>3, DoneKeepsView
<1>4. CASE f = "save" /\ SaveToken
  <2>1. at[f] = "answer" /\ UNCHANGED <<desired, active, verdict, chosen>>
    BY <1>4 DEF SaveToken, worker
  <2>2. CASE AndThen(f, "state", view.input) /\ UNCHANGED <<mixed, faults>>
    BY <2>1, <2>2, NextMessageKeepsView DEF AndThen
  <2>3. CASE Done(f) /\ mixed' = TRUE /\ faults' \in {faults, faults + 1}
    BY <2>1, <2>3, DoneKeepsView
  <2> QED BY <1>4, <2>2, <2>3 DEF SaveToken
<1> QED BY <1>1, <1>2, <1>3, <1>4 DEF FlowStep

LEMMA UserKeepsView ==
    ASSUME PopupInv, ViewInv,
           \/ StartPoll \/ Reopen \/ LoseWorker
           \/ \E p \in Personas : Select(p)
           \/ \E t \in Tokens : Type(t)
    PROVE  ViewInv'
<1>0. /\ at \in [Handlers -> Positions] /\ job \in [Handlers -> Jobs]
      /\ flow \in [Flows -> Waits] /\ Flows \subseteq Handlers /\ view \in Views
      /\ Poll \notin Flows /\ Poll \in Handlers /\ {"open", "apply"} \subseteq Flows
      /\ faults \in Nat /\ Handlers = Flows \cup {Poll}
  BY DEF PopupInv, PopupTypeOK, Handlers, Flows, Poll
<1> USE DEF ViewInv
<1>1. CASE StartPoll
  <2>1. /\ UNCHANGED <<desired, active, verdict, reply, flow, chosen, view, mixed, faults>>
        /\ job'[Poll] = "poll" /\ \A f \in Flows : at'[f] = at[f] /\ job'[f] = job[f]
    BY <1>0, <1>1 DEF StartPoll, Start, Goto, worker, popup, history, bounds
  <2>2. JobFits' /\ ActivatesDesired' /\ VerdictKnown'
    BY <1>0, <2>1 DEF JobFits, ActivatesDesired, VerdictKnown
  <2>3. RunsAlone' /\ ReplyCurrent'
    BY <2>1 DEF RunsAlone, ReplyCurrent, Current
  <2>4. ViewCurrent'
    BY <2>1 DEF ViewCurrent, Rendered, Shows, MessageFits
  <2> QED BY <2>2, <2>3, <2>4
<1>2. CASE Reopen
  <2>1. /\ UNCHANGED <<desired, active, verdict, chosen, faults>>
        /\ mixed' = (Unwanted \/ \E g \in Flows : at[g] # "idle")
        /\ flow' = [f \in Flows |-> IF f = "open" THEN "state" ELSE "idle"]
    BY <1>2 DEF Reopen, worker
  <2>2. /\ at'["open"] \in {"seed", "write"}
        /\ \A g \in Handlers \ {"open"} : at'[g] = at[g] /\ job'[g] = job[g]
    BY <1>0, <1>2 DEF Reopen, Start, Goto
  <2>3. JobFits' /\ ActivatesDesired' /\ VerdictKnown'
    BY <1>0, <2>1, <2>2 DEF JobFits, ActivatesDesired, VerdictKnown, Poll
  <2>4. ~mixed' => active \in {NoPersona, desired} /\ \A g \in Flows : at[g] = "idle"
    BY <2>1 DEF Unwanted
  <2>5. RunsAlone' /\ ReplyCurrent'
    BY <1>0, <2>1, <2>2, <2>4 DEF RunsAlone, ReplyCurrent
  <2>6. ViewCurrent'
    BY <1>0, <2>1 DEF ViewCurrent, Rendered
  <2> QED BY <2>3, <2>5, <2>6
<1>3. CASE LoseWorker
  <2>1. /\ UNCHANGED <<desired, chosen>> /\ active' = NoPersona /\ faults' = faults + 1
        /\ job'[Poll] = "poll" /\ \A f \in Flows : at'[f] = "idle" /\ flow'[f] = "idle"
    BY <1>0, <1>3 DEF LoseWorker
  <2>2. JobFits' /\ ActivatesDesired' /\ VerdictKnown'
    BY <1>0, <2>1 DEF JobFits, ActivatesDesired, VerdictKnown
  <2>3. RunsAlone' /\ ReplyCurrent'
    BY <1>0, <2>1 DEF RunsAlone, ReplyCurrent
  <2>4. ~mixed' => ~mixed /\ Rendered /\ view' = view
    BY <1>3 DEF LoseWorker, Rendered
  <2>5. ViewCurrent'
    BY <1>0, <2>1, <2>4 DEF ViewCurrent, Shows
  <2> QED BY <2>2, <2>3, <2>5
<1>4. CASE (\E p \in Personas : Select(p)) \/ (\E t \in Tokens : Type(t))
  <2>1. /\ UNCHANGED <<desired, active, verdict, reply, flow, chosen, mixed, faults, at, job>>
        /\ view'.shown = view.shown /\ view'.message = view.message
    BY <1>0, <1>4 DEF Select, Type, worker, handlers, history, Views
  <2>2. JobFits' /\ ActivatesDesired' /\ VerdictKnown'
    BY <2>1 DEF JobFits, ActivatesDesired, VerdictKnown
  <2>3. RunsAlone' /\ ReplyCurrent'
    BY <2>1 DEF RunsAlone, ReplyCurrent, Current
  <2>4. ViewCurrent'
    BY <2>1 DEF ViewCurrent, Rendered, Shows, MessageFits
  <2> QED BY <2>2, <2>3, <2>4
<1> QED BY <1>1, <1>2, <1>3, <1>4

LEMMA InitView == PopupInit => ViewInv
<1> SUFFICES ASSUME PopupInit PROVE ViewInv
  OBVIOUS
<1>1. /\ \A f \in Flows : /\ at[f] \in {"idle", "seed", "write"}
                          /\ at[f] # "idle" <=> f = "open"
                          /\ flow[f] = IF f = "open" THEN "state" ELSE "idle"
      /\ job[Poll] = "poll" /\ "open" \in Flows /\ "apply" \in Flows
      /\ desired = NoPersona /\ active = NoPersona
  BY DEF PopupInit, Flows, Handlers, Poll
<1>2. JobFits /\ ActivatesDesired /\ VerdictKnown
  BY <1>1 DEF JobFits, ActivatesDesired, VerdictKnown
<1>3. RunsAlone /\ ReplyCurrent /\ ViewCurrent
  BY <1>1 DEF RunsAlone, ReplyCurrent, ViewCurrent, Rendered
<1> QED BY <1>2, <1>3 DEF ViewInv

LEMMA ViewAlways == PopupSpec => []ViewInv
<1>1. PopupInv /\ ViewInv /\ [PopupNext]_pvars => ViewInv'
  <2> SUFFICES ASSUME PopupInv, ViewInv, [PopupNext]_pvars PROVE ViewInv'
    OBVIOUS
  <2>1. CASE PopupNext
    BY <2>1, HandlersKeepView, FlowsKeepView, UserKeepsView DEF PopupNext
  <2>2. CASE UNCHANGED pvars
    BY <2>2 DEF ViewInv, JobFits, ActivatesDesired, VerdictKnown, RunsAlone, ReplyCurrent,
       Current, ViewCurrent, Rendered, Shows, MessageFits, pvars, worker, handlers, popup,
       history, bounds
  <2> QED BY <2>1, <2>2
<1> QED BY <1>1, InitView, InvAlways, PTL DEF PopupSpec

(* Whatever failed in a flow that nothing overlapped, the popup names the  *)
(* persona that is desired now or says that something failed, although it  *)
(* asks only once (popup.ts:34-99, background.ts:88-123).                  *)
THEOREM ViewIsCurrentHolds == PopupSpec => []ViewIsCurrent
<1>1. ViewInv => ViewIsCurrent
  BY DEF ViewInv, ViewCurrent, Rendered, Shows, ViewIsCurrent
<1> QED BY <1>1, ViewAlways, PTL

(* Without faults the verdict it shows is that of the persona it names,    *)
(* although the worker keeps the verdict apart from the persona and across *)
(* a clear and a restart (background.ts:95-106, 204-222).                  *)
THEOREM VerdictFitsHolds == PopupSpec => []VerdictFits
<1>1. ViewInv => VerdictFits
  BY DEF ViewInv, ViewCurrent, Rendered, Shows, MessageFits, VerdictFits
<1> QED BY <1>1, ViewAlways, PTL
=============================================================================
