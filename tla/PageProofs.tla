----------------------------- MODULE PageProofs -----------------------------
(***************************************************************************)
(* Theorems about a page beside the service worker, for any number of      *)
(* personas, handlers, faults and navigations.                             *)
(***************************************************************************)
EXTENDS Page, SerialProofs

(* A page never disturbs the worker: with the page hidden, the composition *)
(* is the worker of module Background, so that its theorems hold here too. *)
THEOREM WorkerUndisturbed == PageSpec => Spec
<1>1. PageInit => Init
  BY DEF PageInit
<1>2. [PageNext]_pvars => [Next]_vars
  BY DEF PageNext, PageStep, Load, ReadActive, AnswerPage, PublishActivePersona, Tell,
     LoseAnswers, Close, Next, pvars
<1> QED BY <1>1, <1>2, PTL DEF PageSpec, Spec

(* A page never shows a persona that the proxy would refuse, whatever      *)
(* overlaps or fails (OnlyAcceptedShown).                                  *)
THEOREM OnlyAcceptedShownHolds == PageSpec => []OnlyAcceptedShown
<1> USE DEF OnlyAcceptedShown, MayShow
<1>1. PageInit => OnlyAcceptedShown
  BY DEF PageInit
<1>2. OnlyAcceptedShown /\ OnlyAccepted /\ OnlyAccepted' /\ [PageNext]_pvars
        => OnlyAcceptedShown'
  <2> SUFFICES ASSUME OnlyAcceptedShown, OnlyAccepted, OnlyAccepted', [PageNext]_pvars
               PROVE  MayShow(shown)' /\ MayShow(got)'
    OBVIOUS
  <2>1. MayShow(active) /\ MayShow(proxyPersona) /\ MayShow(told)'
    BY DEF OnlyAccepted, PostAccepted, ControlAllowed
  <2>2. CASE Load
    BY <2>1, <2>2 DEF Load, LoadSynchronousPersona, ApplyPersona
  <2>3. CASE ReadActive
    BY <2>1, <2>3 DEF ReadActive
  <2>4. CASE AnswerPage
    BY <2>4 DEF AnswerPage, IfReady
  <2>5. CASE PublishActivePersona
    BY <2>5 DEF PublishActivePersona, ApplyPersona
  <2>6. CASE Tell
    BY <2>1, <2>6 DEF Tell, Listen
  <2>7. CASE LoseAnswers
    BY <2>7 DEF LoseAnswers, ApplyPersona, pageVars
  <2>8. CASE Close
    BY <2>8 DEF Close
  <2>9. CASE UNCHANGED pageVars
    BY <2>9 DEF pageVars
  <2> QED BY <2>2, <2>3, <2>4, <2>5, <2>6, <2>7, <2>8, <2>9 DEF PageNext, PageStep, pvars
<1> QED BY <1>1, <1>2, WorkerUndisturbed, OnlyAcceptedHolds, PTL DEF PageSpec

(* Type correctness of the page: what it shows is a persona or nothing,    *)
(* also where the bootstrap finds no proxy (PageTypeOK).                   *)
THEOREM PageTypeCorrect == PageSpec => []PageTypeOK
<1> USE DEF PageTypeOK, PageStates
<1>1. PageInit => PageTypeOK
  BY DEF PageInit, MaybePersona
<1>2. PageTypeOK /\ TypeOK /\ TypeOK' /\ [PageNext]_pvars => PageTypeOK'
  <2> SUFFICES ASSUME PageTypeOK, TypeOK, TypeOK', [PageNext]_pvars PROVE PageTypeOK'
    OBVIOUS
  <2>1. /\ NoPersona \in MaybePersona /\ active \in MaybePersona
        /\ proxyPersona \in MaybePersona /\ told' \in MaybePersona
    BY DEF TypeOK, ProxyControlTypeOK, MaybePersona
  <2>2. CASE Load
    BY <2>1, <2>2 DEF Load, LoadSynchronousPersona, ApplyPersona
  <2>3. CASE ReadActive
    BY <2>1, <2>3 DEF ReadActive
  <2>4. CASE AnswerPage
    BY <2>1, <2>4 DEF AnswerPage, IfReady
  <2>5. CASE PublishActivePersona
    BY <2>1, <2>5 DEF PublishActivePersona, ApplyPersona
  <2>6. CASE Tell
    BY <2>1, <2>6 DEF Tell, Listen
  <2>7. CASE LoseAnswers
    BY <2>1, <2>7 DEF LoseAnswers, ApplyPersona, pageVars
  <2>8. CASE Close
    BY <2>1, <2>8 DEF Close
  <2>9. CASE UNCHANGED pageVars
    BY <2>9 DEF pageVars
  <2> QED BY <2>2, <2>3, <2>4, <2>5, <2>6, <2>7, <2>8, <2>9 DEF PageNext, PageStep, pvars
<1> QED BY <1>1, <1>2, WorkerUndisturbed, TypeCorrect, PTL DEF PageSpec

-----------------------------------------------------------------------------
(* Between the changes of an activation or a teardown and the broadcast    *)
(* that follows them, a page may be behind; otherwise what it shows, or is *)
(* about to show, is the active persona.                                   *)
Settled == ready /\ \A t \in Tasks : pc[t] \notin {"rollback", "actTell"}

PageFits ==
    Settled /\ ~raced =>
        /\ page = "live" => shown = active
        /\ page \in {"read", "answered"} => got = active

(* Without a broadcast the worker does not get there from elsewhere, nor   *)
(* change its persona there.                                               *)
LEMMA SilentSettled ==
    ASSUME TypeOK, OneActivation, SerialInv, NEW t, Tasks = {t}, Silent, Settled'
    PROVE  Settled /\ active' = active
<1>T. pc \in [Tasks -> Pcs] /\ t \in Tasks /\ \A u \in Tasks : u = t
  BY DEF TypeOK
<1>Q. ready => pc[t] \notin QuietPcs
  BY <1>T DEF SerialInv, ReadyApplied
<1> USE DEF Settled, QuietPcs, InstallPcs, Step, Goto, Send, Resume, Answered, Return,
        FetchProxyHealth, PostPersonaToProxy, DeletePersonaFromProxy, Rollback, session,
        flags, Begin
<1>1. CASE \E p \in Personas : StartSet(t, p)
  BY <1>1, <1>T DEF StartSet
<1>2. CASE StartClear(t) \/ StartPoll(t) \/ StartProxyError(t)
  BY <1>2, <1>T DEF StartClear, StartPoll, StartProxyError
<1>3. CASE DropActive(t) \/ DropRules(t) \/ DropPac(t) \/ SendDelete(t) \/ ClearDone(t)
  BY <1>3, <1>T, <1>Q DEF DropActive, DropRules, DropPac, SendDelete, ClearDone
<1>4. CASE ActHealth(t) \/ ActPost(t) \/ ActConfirm(t) \/ ActRules(t) \/ ActInstall(t)
  BY <1>4, <1>T, <1>Q DEF ActHealth, ActPost, ActConfirm, ActRules, ActInstall,
     FailActivation
<1>5. CASE ActVerify(t) \/ ActStore(t) \/ ActReady(t) \/ EndActivation(t)
  BY <1>5, <1>T, <1>Q DEF ActVerify, ActStore, ActReady, EndActivation
<1>6. CASE Validate(t) \/ VerdictLost(t) \/ VerdictInvalid(t) \/ SetDone(t)
  BY <1>6, <1>T, <1>Q DEF Validate, VerdictLost, VerdictInvalid, SetDone
<1>7. CASE VerdictValid(t) \/ PollHealth(t)
  <2>1. CASE Activate(t)
    <3>1. pc[t] \in {"verdict", "pollHealth"}
      BY <1>7 DEF VerdictValid, PollHealth
    <3> QED BY <2>1, <3>1, ActivateAlone
  <2>2. CASE ~Activate(t)
    BY <1>7, <2>2, <1>T DEF VerdictValid, PollHealth
  <2> QED BY <2>1, <2>2
<1>8. CASE PollActive(t) \/ PollReady(t) \/ PollPost(t)
  BY <1>8, <1>T DEF PollActive, PollReady, PollPost
<1>9. CASE PollSynced(t)
  <2>1. pc[t] = "pollSynced" /\ active' = active
    BY <1>9 DEF PollSynced
  <2>2. ready
    BY <2>1, <1>T DEF SerialInv, SeenIsActive, DecidedPcs, IfReady
  <2> QED BY <2>1, <2>2, <1>T
<1>10. CASE PollState(t) \/ PollMid(t) \/ PollBadge(t)
  BY <1>10, <1>T DEF PollState, PollMid, PollBadge
<1>11. CASE Answer(t) \/ Timeout(t)
  BY <1>11, <1>T DEF Answer, Serve, Refuse, Timeout
<1>12. CASE ServeLate \/ StopProxy \/ StartProxy
  BY <1>12, <1>T DEF ServeLate, StopProxy, StartProxy, bgVars
<1> QED BY <1>T, <1>1, <1>2, <1>3, <1>4, <1>5, <1>6, <1>7, <1>8, <1>9, <1>10, <1>11, <1>12
    DEF Silent, Work

(* A broadcast of a ready worker is about the persona that is active.      *)
LEMMA TellSettled ==
    ASSUME TypeOK, SerialInv, NEW t, Tasks = {t}, Broadcast(t), Settled'
    PROVE  told' = active /\ active' = active
<1>T. pc \in [Tasks -> Pcs] /\ t \in Tasks
  BY DEF TypeOK
<1>1. CASE TellNobody(t)
  <2>1. pc[t] = "awaitDelete" /\ ready
    BY <1>1 DEF TellNobody, Answered, Settled, flags
  <2> QED BY <2>1, <1>T DEF SerialInv, ReadyApplied, QuietPcs
<1>2. CASE ActTell(t)
  BY <1>2, <1>T DEF ActTell, Step, BroadcastPersona, SerialInv, InstallOrder, session
<1>3. CASE PollTell(t)
  BY <1>3, <1>T DEF PollTell, Step, BroadcastPersona, SerialInv, SeenIsActive, DecidedPcs,
     IfReady, session
<1> QED BY <1>1, <1>2, <1>3 DEF Broadcast

LEMMA PageStepFits ==
    ASSUME TypeOK, OneActivation, SerialInv, PageTypeOK, PageFits, NEW t, Tasks = {t},
           [PageNext]_pvars
    PROVE  PageFits'
<1> SUFFICES ASSUME Settled', ~raced'
             PROVE  /\ page' = "live" => shown' = active'
                    /\ page' \in {"read", "answered"} => got' = active'
  BY DEF PageFits
<1>1. CASE Load
  BY <1>1 DEF Load
<1>2. ASSUME UNCHANGED vars PROVE Settled /\ active' = active /\ ready
  BY <1>2 DEF Settled, vars, bgVars, session, flags, locals
<1>3. CASE ReadActive
  BY <1>2, <1>3 DEF ReadActive
<1>4. CASE AnswerPage
  BY <1>2, <1>4 DEF AnswerPage, IfReady, PageFits
<1>5. CASE PublishActivePersona
  BY <1>2, <1>5 DEF PublishActivePersona, ApplyPersona, PageFits
<1>6. CASE Tell
  <2>1. Broadcast(t) /\ Listen /\ page' = page /\ page \notin {"read", "answered"}
    BY <1>6 DEF Tell
  <2> QED BY <2>1, TellSettled DEF Listen
<1>7. CASE LoseAnswers \/ Close
  BY <1>7 DEF LoseAnswers, Close, RestartWorker, RestartBrowser, LoseWorker, Settled
<1>8. CASE Silent /\ UNCHANGED pageVars
  BY <1>8, SilentSettled DEF PageFits, pageVars
<1>9. CASE UNCHANGED pvars
  BY <1>2, <1>9 DEF PageFits, pvars, pageVars
<1> QED BY <1>1, <1>3, <1>4, <1>5, <1>6, <1>7, <1>8, <1>9 DEF PageNext, PageStep

(* With handlers one at a time, for any personas, faults and navigations:  *)
(* when none runs and the worker is ready, what a live page's JavaScript   *)
(* sees is the persona of the header rule (PageMatchesNetwork).            *)
THEOREM PageMatchesNetworkHolds ==
    ASSUME NEW t, Tasks = {t} PROVE PageSpec => []PageMatchesNetwork
<1>1. Init => SerialInv
  BY InitSerial
<1>2. TypeOK /\ OneActivation /\ SerialInv /\ [Next]_vars => SerialInv'
  BY StepSerial
<1>3. Spec => []SerialInv
  BY <1>1, <1>2, TypeCorrect, OneActivationHolds, PTL DEF Spec
<1>4. PageInit => PageFits
  BY DEF PageInit, PageFits
<1>5. /\ TypeOK /\ OneActivation /\ SerialInv /\ PageTypeOK /\ PageFits
      /\ [PageNext]_pvars
      => PageFits'
  BY PageStepFits
<1>6. PageFits /\ SerialInv => PageMatchesNetwork
  BY DEF PageFits, Settled, SerialInv, ReadyApplied, PageMatchesNetwork, AllIdle
<1> QED BY <1>3, <1>4, <1>5, <1>6, WorkerUndisturbed, TypeCorrect, OneActivationHolds,
        PageTypeCorrect, PTL DEF PageSpec
=============================================================================
