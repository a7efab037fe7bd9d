-------------------------- MODULE BackgroundProofs --------------------------
(***************************************************************************)
(* Theorems about the service worker for any number of personas, handlers  *)
(* and faults.                                                             *)
(***************************************************************************)
EXTENDS Background, TLAPS

USE NoPersonaAssumption, FailedAssumption, ProxyAcceptsAssumption,
    AuthAssumption, CliPersonaAssumption, NoTaskAssumption,
    WaitingAssumption, FaultsAssumption

(* The initial state is well typed.                                        *)
LEMMA InitType == ASSUME Init PROVE TypeOK
<1>1. ProxyControlTypeOK
  BY Zenon DEF Init, ProxyControlInit, ProxyControlTypeOK, MaybePersona
<1>2. "idle" \in Pcs /\ "none" \in Kinds /\ "none" \in Verdicts /\ "UNSET" \in BadgeStates
  BY DEF Pcs, Kinds, Verdicts, BadgeStates
<1>3. faultsLeft \in 0 .. MaxFaults
  BY DEF Init
<1>4. ready \in BOOLEAN /\ reachable \in BOOLEAN /\ pac \in BOOLEAN
  BY DEF Init
<1>5. /\ active \in MaybePersona /\ desired \in MaybePersona
      /\ dnr \in MaybePersona /\ told \in MaybePersona /\ late \in SUBSET MaybePersona
  BY DEF Init, MaybePersona
<1>6. /\ verdict \in Verdicts /\ storedVerdict \in Verdicts
      /\ badge \in BadgeStates /\ inFlight \in Tasks \cup {NoTask}
  BY <1>2 DEF Init
<1>7. /\ pc \in [Tasks -> Pcs] /\ kind \in [Tasks -> Kinds]
      /\ arg \in [Tasks -> MaybePersona] /\ seen \in [Tasks -> MaybePersona]
      /\ reply \in [Tasks -> MaybePersona \cup {Failed, Waiting}]
  BY <1>2 DEF Init, MaybePersona
<1> QED BY <1>1, <1>3, <1>4, <1>5, <1>6, <1>7 DEF TypeOK

(* A step of a handler keeps the types.                                    *)
LEMMA ContinueType == ASSUME TypeOK, NEW t \in Tasks, Continue(t) PROVE TypeOK'
<1> USE DEF TypeOK, ProxyControlTypeOK, MaybePersona, Step, Goto, Send,
       FetchProxyHealth, PostPersonaToProxy, ConfigureProxy, ClearProxySettings,
       ApplyDynamicRules, ClearDynamicRules, BroadcastPersona, UpdateBadge,
       DeletePersonaFromProxy, Resume, Answered, Return, session, flags, validation, network,
       locals, proxyVars
<1>P. /\ {"idle", "deactivate", "rollback", "clearPac", "sendDelete", "awaitDelete"} \subseteq Pcs
      /\ {"actHealth", "actPost", "actConfirm", "actRules", "actInstall", "actVerify"} \subseteq Pcs
      /\ {"actStore", "actReady", "actTell", "actDone", "actFailed", "join"} \subseteq Pcs
      /\ {"validate", "verdict", "setActive", "setDegraded", "clearBadge"} \subseteq Pcs
      /\ {"pollActive", "pollReady", "pollHealth", "pollPost", "pollSynced"} \subseteq Pcs
      /\ {"pollTell", "pollState", "pollMid", "pollBadge"} \subseteq Pcs
  BY DEF Pcs, HttpPcs, PostPcs, ReadPcs, TeardownPcs, ActivationPcs
<1>1. CASE DropActive(t) BY <1>1, <1>P DEF DropActive
<1>2. CASE DropRules(t) BY <1>2, <1>P DEF DropRules, Rollback, Verdicts
<1>3. CASE DropPac(t) BY <1>3, <1>P DEF DropPac
<1>4. CASE SendDelete(t) BY <1>4, <1>P DEF SendDelete
<1>5. CASE TellNobody(t) BY <1>5, <1>P DEF TellNobody, AfterTeardown, Kinds
<1>6. CASE ClearDone(t) BY <1>6, <1>P DEF ClearDone, Kinds, BadgeStates
<1>7. CASE ActHealth(t)
  <2>1. ready' \in BOOLEAN /\ reachable' \in BOOLEAN
    BY <1>7, Zenon DEF ActHealth, FailActivation, Rollback, ClearDynamicRules,
       ConfigureProxy
  <2> QED BY <1>7, <1>P, <2>1 DEF ActHealth, FailActivation, Rollback, ClearDynamicRules,
     ConfigureProxy
<1>8. CASE ActPost(t)
  <2>1. ready' \in BOOLEAN /\ reachable' \in BOOLEAN
    BY <1>8, Zenon DEF ActPost, FailActivation, Rollback, ClearDynamicRules, ConfigureProxy
  <2> QED BY <1>8, <1>P, <2>1 DEF ActPost, FailActivation, Rollback, ClearDynamicRules,
     ConfigureProxy
<1>9. CASE ActConfirm(t)
  <2>1. ready' \in BOOLEAN /\ pac' \in BOOLEAN
    BY <1>9, Zenon DEF ActConfirm, AfterRefusal, FailActivation, Rollback,
       ClearDynamicRules, ConfigureProxy
  <2> QED BY <1>9, <1>P, <2>1 DEF ActConfirm, AfterRefusal, FailActivation, Rollback,
     Refused, SpendFault
<1>10. CASE ActRules(t) BY <1>10, <1>P DEF ActRules
<1>11. CASE ActInstall(t) BY <1>11, <1>P DEF ActInstall, AfterRefusal, Refused, SpendFault
<1>12. CASE ActVerify(t) BY <1>12, <1>P DEF ActVerify
<1>13. CASE ActStore(t)
  <2>1. ready' \in BOOLEAN /\ reachable' \in BOOLEAN
    BY <1>13, Zenon DEF ActStore, AfterRefusal, Rollback, ClearDynamicRules
  <2> QED BY <1>13, <1>P, <2>1 DEF ActStore, AfterRefusal, Rollback, Refused, SpendFault
<1>14. CASE ActReady(t) BY <1>14, <1>P DEF ActReady
<1>15. CASE ActTell(t) BY <1>15, <1>P DEF ActTell
<1>16. CASE EndActivation(t) BY <1>16, <1>P DEF EndActivation, AfterActivation
<1>17. CASE Validate(t) BY <1>17, <1>P DEF Validate, Verdicts
<1>18. CASE VerdictLost(t) BY <1>18, <1>P DEF VerdictLost, Kinds
<1>19. CASE VerdictInvalid(t) BY <1>19, <1>P DEF VerdictInvalid, Kinds, BadgeStates
<1>20. CASE VerdictValid(t)
  <2>1. ready' \in BOOLEAN /\ reachable' \in BOOLEAN
    BY <1>20, Zenon DEF VerdictValid, Activate, Rollback
  <2> QED BY <1>20, <1>P, <2>1 DEF VerdictValid, Activate, Rollback
<1>21. CASE SetDone(t) BY <1>21, <1>P DEF SetDone, Kinds, BadgeStates
<1>22. CASE PollActive(t) BY <1>22, <1>P DEF PollActive
<1>23. CASE PollReady(t) BY <1>23, <1>P DEF PollReady, IfReady
<1>24. CASE PollHealth(t)
  <2>1. ready' \in BOOLEAN /\ reachable' \in BOOLEAN
    BY <1>24, Zenon DEF PollHealth, Activate, Rollback
  <2> QED BY <1>24, <1>P, <2>1 DEF PollHealth, Activate, Rollback
<1>25. CASE PollPost(t) BY <1>25, <1>P DEF PollPost
<1>26. CASE PollSynced(t)
  <2>1. ready' \in BOOLEAN /\ reachable' \in BOOLEAN BY <1>26, Zenon DEF PollSynced
  <2> QED BY <1>26, <1>P, <2>1 DEF PollSynced
<1>27. CASE PollTell(t) BY <1>27, <1>P DEF PollTell
<1>28. CASE PollState(t) BY <1>28, <1>P DEF PollState
<1>29. CASE PollMid(t) BY <1>29, <1>P DEF PollMid, IfReady
<1>30. CASE PollBadge(t) BY <1>30, <1>P DEF PollBadge, RuntimeState, Kinds, BadgeStates
<1> QED BY <1>1, <1>2, <1>3, <1>4, <1>5, <1>6, <1>7, <1>8, <1>9, <1>10, <1>11, <1>12,
        <1>13, <1>14, <1>15, <1>16, <1>17, <1>18, <1>19, <1>20, <1>21, <1>22, <1>23,
        <1>24, <1>25, <1>26, <1>27, <1>28, <1>29, <1>30 DEF Continue, Work, Broadcast

(* So does every other step.                                               *)
LEMMA OthersType == ASSUME TypeOK, Next, ~ \E t \in Tasks : Continue(t) PROVE TypeOK'
<1> USE DEF TypeOK, ProxyControlTypeOK, MaybePersona, Goto, Begin, Send,
       FetchProxyHealth, PostPersonaToProxy, DeletePersonaFromProxy, SpendFault, session,
       flags, validation, network, locals, proxyVars, bgVars
<1>P. "idle" \in Pcs /\ "deactivate" \in Pcs /\ "rollback" \in Pcs /\ "pollActive" \in Pcs
  BY DEF Pcs, TeardownPcs
<1>K. Kinds = {"none", "set", "clear", "poll", "error"}
  BY DEF Kinds
<1>1. ASSUME NEW t \in Tasks, NEW p \in Personas, StartSet(t, p) PROVE TypeOK'
  BY <1>1, <1>P, <1>K DEF StartSet
<1>2. ASSUME NEW t \in Tasks, StartClear(t) PROVE TypeOK'
  BY <1>2, <1>P, <1>K DEF StartClear
<1>3. ASSUME NEW t \in Tasks, StartPoll(t) PROVE TypeOK'
  BY <1>3, <1>P, <1>K DEF StartPoll
<1>F. ASSUME NEW f, SpendFault(f) PROVE faultsLeft' \in 0 .. MaxFaults
  BY <1>F
<1>4. ASSUME NEW t \in Tasks, StartProxyError(t) PROVE TypeOK'
  <2>1. faultsLeft' \in 0 .. MaxFaults
    BY <1>4, <1>F DEF StartProxyError
  <2>2. ready' \in BOOLEAN /\ reachable' \in BOOLEAN
    BY <1>4 DEF StartProxyError
  <2> QED BY <1>4, <1>P, <1>K, <2>1, <2>2 DEF StartProxyError
<1>5. ASSUME NEW t \in Tasks, Serve(t) PROVE TypeOK'
  BY <1>5 DEF Serve, HandlePersonaPost, HandlePersonaDelete, HandlePersonaRead,
     PostReply, ReadReply, Posted, proxyControlVars
<1>6. ASSUME NEW t \in Tasks, Refuse(t) PROVE TypeOK'
  BY <1>6 DEF Refuse
<1>7. ASSUME NEW t \in Tasks, Timeout(t) PROVE TypeOK'
  BY <1>7 DEF Timeout, Writing, Leftover, Posted
<1>8. ASSUME ServeLate PROVE TypeOK'
  BY <1>8 DEF ServeLate, HandlePersonaPost, HandlePersonaDelete
<1>9. ASSUME StopProxy PROVE TypeOK'
  <2>1. faultsLeft' \in 0 .. MaxFaults
    BY <1>9, <1>F DEF StopProxy
  <2>2. ProxyControlTypeOK' /\ late' \in SUBSET MaybePersona
    BY <1>9 DEF StopProxy, Stop
  <2> QED BY <1>9, <2>1, <2>2 DEF StopProxy
<1>10. ASSUME StartProxy PROVE TypeOK'
  BY <1>10 DEF StartProxy, Start
<1>11. ASSUME RestartWorker \/ RestartBrowser PROVE TypeOK'
  <2>1. faultsLeft' \in 0 .. MaxFaults
    BY <1>11, <1>F DEF RestartWorker, RestartBrowser
  <2>2. LoseWorker
    BY <1>11 DEF RestartWorker, RestartBrowser
  <2>3. \A t \in Tasks : Leftover(t) \in MaybePersona
    BY DEF Leftover, Posted
  <2>4. late' \in SUBSET MaybePersona
    BY <2>2, <2>3 DEF LoseWorker
  <2>5. /\ active' \in MaybePersona /\ desired' \in MaybePersona
        /\ told' \in MaybePersona /\ badge' \in BadgeStates
    BY <1>11 DEF RestartWorker, RestartBrowser, BadgeStates
  <2>6. /\ pc' \in [Tasks -> Pcs] /\ kind' \in [Tasks -> Kinds]
        /\ arg' \in [Tasks -> MaybePersona] /\ seen' \in [Tasks -> MaybePersona]
        /\ reply' \in [Tasks -> MaybePersona \cup {Failed, Waiting}]
    BY <2>2, <1>P, <1>K DEF LoseWorker
  <2>7. ready' \in BOOLEAN /\ reachable' \in BOOLEAN /\ verdict' \in Verdicts
    BY <2>2 DEF LoseWorker, Verdicts
  <2>8. UNCHANGED <<storedVerdict, network, proxyUp, proxyPersona>> /\ inFlight' = NoTask
    BY <2>2 DEF LoseWorker
  <2> QED BY <2>1, <2>4, <2>5, <2>6, <2>7, <2>8
<1> QED BY <1>1, <1>2, <1>3, <1>4, <1>5, <1>6, <1>7, <1>8, <1>9, <1>10, <1>11 DEF Next,
   Silent, Continue,
   Answer

(* Every variable keeps its type (TypeOK).                                 *)
THEOREM TypeCorrect == Spec => []TypeOK
<1>1. Init => TypeOK
  BY InitType
<1>2. TypeOK /\ [Next]_vars => TypeOK'
  <2> SUFFICES ASSUME TypeOK, [Next]_vars PROVE TypeOK'
    OBVIOUS
  <2>1. CASE Next
    BY <2>1, ContinueType, OthersType
  <2>2. CASE UNCHANGED vars
    BY <2>2 DEF TypeOK, ProxyControlTypeOK, vars, bgVars, session, flags, validation,
       network, locals, proxyVars
  <2> QED BY <2>1, <2>2
<1> QED BY <1>1, <1>2, PTL DEF Spec

-----------------------------------------------------------------------------
(* Initially nothing is activated.                                         *)
LEMMA InitOne == ASSUME Init PROVE OneActivation
  BY NoTaskAssumption DEF Init, OneActivation, ActivationPcs

(* A step of a handler keeps activationInFlight in agreement with the positions.*)
LEMMA ContinueOne ==
  ASSUME TypeOK, OneActivation, NEW t \in Tasks, Continue(t) PROVE OneActivation'
<1> USE DEF OneActivation, ActivationPcs, TeardownPcs, Step, Goto, Send,
       FetchProxyHealth, PostPersonaToProxy, DeletePersonaFromProxy, Resume, Answered, Return
<1>T. pc \in [Tasks -> Pcs] /\ inFlight \in Tasks \cup {NoTask}
  BY DEF TypeOK
<1>1. CASE DropActive(t) BY <1>1, <1>T DEF DropActive
<1>2. CASE DropRules(t) BY <1>2, <1>T DEF DropRules
<1>3. CASE DropPac(t) BY <1>3, <1>T DEF DropPac
<1>4. CASE SendDelete(t) BY <1>4, <1>T DEF SendDelete
<1>5. CASE TellNobody(t) BY <1>5, <1>T DEF TellNobody, AfterTeardown
<1>6. CASE ClearDone(t) BY <1>6, <1>T DEF ClearDone
<1>7. CASE ActHealth(t) BY <1>7, <1>T DEF ActHealth, FailActivation
<1>8. CASE ActPost(t) BY <1>8, <1>T DEF ActPost, FailActivation
<1>9. CASE ActConfirm(t) BY <1>9, <1>T DEF ActConfirm, AfterRefusal, FailActivation
<1>10. CASE ActRules(t) BY <1>10, <1>T DEF ActRules
<1>11. CASE ActInstall(t) BY <1>11, <1>T DEF ActInstall, AfterRefusal
<1>12. CASE ActVerify(t) BY <1>12, <1>T DEF ActVerify
<1>13. CASE ActStore(t) BY <1>13, <1>T DEF ActStore, AfterRefusal
<1>14. CASE ActReady(t) BY <1>14, <1>T DEF ActReady
<1>15. CASE ActTell(t) BY <1>15, <1>T DEF ActTell
<1>16. CASE EndActivation(t) BY <1>16, <1>T DEF EndActivation, AfterActivation
<1>17. CASE Validate(t) BY <1>17, <1>T DEF Validate
<1>18. CASE VerdictLost(t) BY <1>18, <1>T DEF VerdictLost
<1>19. CASE VerdictInvalid(t) BY <1>19, <1>T DEF VerdictInvalid
<1>20. CASE VerdictValid(t) BY <1>20, <1>T DEF VerdictValid, Activate, InProgress
<1>21. CASE SetDone(t) BY <1>21, <1>T DEF SetDone
<1>22. CASE PollActive(t) BY <1>22, <1>T DEF PollActive
<1>23. CASE PollReady(t) BY <1>23, <1>T DEF PollReady
<1>24. CASE PollHealth(t) BY <1>24, <1>T DEF PollHealth, Activate, InProgress
<1>25. CASE PollPost(t) BY <1>25, <1>T DEF PollPost
<1>26. CASE PollSynced(t) BY <1>26, <1>T DEF PollSynced
<1>27. CASE PollTell(t) BY <1>27, <1>T DEF PollTell
<1>28. CASE PollState(t) BY <1>28, <1>T DEF PollState
<1>29. CASE PollMid(t) BY <1>29, <1>T DEF PollMid
<1>30. CASE PollBadge(t) BY <1>30, <1>T DEF PollBadge
<1> QED BY <1>1, <1>2, <1>3, <1>4, <1>5, <1>6, <1>7, <1>8, <1>9, <1>10, <1>11, <1>12,
   <1>13, <1>14, <1>15, <1>16, <1>17, <1>18, <1>19, <1>20, <1>21, <1>22, <1>23, <1>24, <1>25,
   <1>26, <1>27, <1>28, <1>29, <1>30 DEF Continue, Work, Broadcast

(* No other step moves activationInFlight, but a restart, which resets it. *)
LEMMA OthersOne ==
  ASSUME TypeOK, OneActivation, Next, ~ \E t \in Tasks : Continue(t)
  PROVE  OneActivation'
<1> USE DEF OneActivation, ActivationPcs, TeardownPcs, Begin, Goto, bgVars
<1>T. pc \in [Tasks -> Pcs] /\ inFlight \in Tasks \cup {NoTask}
  BY DEF TypeOK
<1>1. ASSUME NEW t \in Tasks, NEW p \in Personas, StartSet(t, p) PROVE OneActivation'
  BY <1>1, <1>T DEF StartSet
<1>2. ASSUME NEW t \in Tasks, StartClear(t) PROVE OneActivation'
  BY <1>2, <1>T DEF StartClear
<1>3. ASSUME NEW t \in Tasks, StartPoll(t) PROVE OneActivation'
  BY <1>3, <1>T DEF StartPoll
<1>4. ASSUME NEW t \in Tasks, StartProxyError(t) PROVE OneActivation'
  BY <1>4, <1>T DEF StartProxyError
<1>5. ASSUME NEW t \in Tasks, Answer(t) \/ Timeout(t) PROVE OneActivation'
  BY <1>5 DEF Answer, Serve, Refuse, Timeout
<1>6. ASSUME ServeLate \/ StopProxy \/ StartProxy PROVE OneActivation'
  BY <1>6 DEF ServeLate, StopProxy, StartProxy
<1>7. ASSUME RestartWorker \/ RestartBrowser PROVE OneActivation'
  BY <1>7, NoTaskAssumption DEF RestartWorker, RestartBrowser, LoseWorker
<1> QED BY <1>1, <1>2, <1>3, <1>4, <1>5, <1>6, <1>7 DEF Next, Silent, Continue

(* At most one activation runs, activationInFlight says which, and no task *)
(* waits for an activation that is over (OneActivation), however many      *)
(* handlers overlap and wherever the worker is restarted.                  *)
THEOREM OneActivationHolds == Spec => []OneActivation
<1>1. Init => OneActivation
  BY InitOne
<1>2. TypeOK /\ OneActivation /\ [Next]_vars => OneActivation'
  <2> SUFFICES ASSUME TypeOK, OneActivation, [Next]_vars PROVE OneActivation'
    OBVIOUS
  <2>1. CASE Next
    BY <2>1, ContinueOne, OthersOne
  <2>2. CASE UNCHANGED vars
    BY <2>2 DEF OneActivation, vars, bgVars
  <2> QED BY <2>1, <2>2
<1> QED BY <1>1, <1>2, TypeCorrect, PTL DEF Spec

-----------------------------------------------------------------------------
(* OnlyAccepted is not inductive by itself: the persona that an activation *)
(* installs must have been posted successfully before, and the one that a  *)
(* poll broadcasts must come from session storage.                         *)

AfterPost == {"actConfirm", "actRules", "actInstall", "actVerify", "actStore",
              "actReady", "actTell"}

PostedFirst ==
    \A t \in Tasks :
      /\ pc[t] = "actPost" /\ reply[t] \notin {Waiting, Failed} => PostAccepted(arg[t])
      /\ pc[t] \in AfterPost => PostAccepted(arg[t])

ResyncPcs == {"pollReady", "pollHealth", "pollPost", "pollSynced", "pollTell"}

StoredFirst ==
    \A t \in Tasks :
      pc[t] \in ResyncPcs /\ seen[t] # NoPersona => PostAccepted(seen[t])

AcceptedInv == OnlyAccepted /\ PostedFirst /\ StoredFirst

(* Initially no layer carries a persona.                                   *)
LEMMA InitAccepted == ASSUME Init PROVE AcceptedInv
<1>1. \A t \in Tasks : pc[t] = "idle"
  BY DEF Init
<1>2. proxyPersona \in {NoPersona, CliPersona}
  BY DEF Init, ProxyControlInit
<1> QED BY <1>1, <1>2 DEF Init, AcceptedInv, OnlyAccepted, PostedFirst, StoredFirst,
        AfterPost, ResyncPcs

(* A step of a handler installs only what was accepted.                    *)
LEMMA ContinueAccepted ==
  ASSUME TypeOK, OneActivation, AcceptedInv, NEW t \in Tasks, Continue(t)
  PROVE  AcceptedInv'
<1> USE DEF AcceptedInv, OnlyAccepted, PostedFirst, StoredFirst, AfterPost, ResyncPcs,
       Step, ConfigureProxy, ClearProxySettings, ApplyDynamicRules, ClearDynamicRules,
       BroadcastPersona, Goto, Send, FetchProxyHealth, PostPersonaToProxy,
       DeletePersonaFromProxy, Resume, Answered, Return, session, flags, network, locals,
       proxyVars
<1>T. /\ pc \in [Tasks -> Pcs] /\ arg \in [Tasks -> MaybePersona]
      /\ seen \in [Tasks -> MaybePersona]
      /\ reply \in [Tasks -> MaybePersona \cup {Failed, Waiting}]
  BY DEF TypeOK
<1>1. CASE DropActive(t) BY <1>1, <1>T DEF DropActive
<1>2. CASE DropRules(t) BY <1>2, <1>T DEF DropRules, Rollback
<1>3. CASE DropPac(t) BY <1>3, <1>T DEF DropPac
<1>4. CASE SendDelete(t) BY <1>4, <1>T DEF SendDelete
<1>5. CASE TellNobody(t) BY <1>5, <1>T DEF TellNobody, AfterTeardown
<1>6. CASE ClearDone(t) BY <1>6, <1>T DEF ClearDone
<1>7. CASE ActHealth(t)
  BY <1>7, <1>T DEF ActHealth, FailActivation, Rollback, ClearDynamicRules, ConfigureProxy
<1>8. CASE ActPost(t)
  BY <1>8, <1>T DEF ActPost, FailActivation, Rollback, ClearDynamicRules, ConfigureProxy
<1>9. CASE ActConfirm(t)
  BY <1>9, <1>T DEF ActConfirm, AfterRefusal, FailActivation, Rollback, Refused
<1>10. CASE ActRules(t) BY <1>10, <1>T DEF ActRules
<1>11. CASE ActInstall(t) BY <1>11, <1>T DEF ActInstall, AfterRefusal, Refused
<1>12. CASE ActVerify(t) BY <1>12, <1>T DEF ActVerify
<1>13. CASE ActStore(t) BY <1>13, <1>T DEF ActStore, AfterRefusal, Rollback, Refused
<1>14. CASE ActReady(t) BY <1>14, <1>T DEF ActReady
<1>15. CASE ActTell(t) BY <1>15, <1>T DEF ActTell
<1>16. CASE EndActivation(t) BY <1>16, <1>T DEF EndActivation, AfterActivation
<1>17. CASE Validate(t) BY <1>17, <1>T DEF Validate
<1>18. CASE VerdictLost(t) BY <1>18, <1>T DEF VerdictLost
<1>19. CASE VerdictInvalid(t) BY <1>19, <1>T DEF VerdictInvalid
<1>20. CASE VerdictValid(t) BY <1>20, <1>T DEF VerdictValid, Activate, Rollback
<1>21. CASE SetDone(t) BY <1>21, <1>T DEF SetDone
<1>22. CASE PollActive(t) BY <1>22, <1>T DEF PollActive
<1>23. CASE PollReady(t) BY <1>23, <1>T DEF PollReady, IfReady
<1>24. CASE PollHealth(t) BY <1>24, <1>T DEF PollHealth, Activate, Rollback
<1>25. CASE PollPost(t) BY <1>25, <1>T DEF PollPost
<1>26. CASE PollSynced(t) BY <1>26, <1>T DEF PollSynced
<1>27. CASE PollTell(t) BY <1>27, <1>T DEF PollTell
<1>28. CASE PollState(t) BY <1>28, <1>T DEF PollState
<1>29. CASE PollMid(t) BY <1>29, <1>T DEF PollMid, IfReady
<1>30. CASE PollBadge(t) BY <1>30, <1>T DEF PollBadge
<1> QED BY <1>1, <1>2, <1>3, <1>4, <1>5, <1>6, <1>7, <1>8, <1>9, <1>10, <1>11, <1>12,
   <1>13, <1>14, <1>15, <1>16, <1>17, <1>18, <1>19, <1>20, <1>21, <1>22, <1>23, <1>24, <1>25,
   <1>26, <1>27, <1>28, <1>29, <1>30 DEF Continue, Work, Broadcast

(* The proxy stores only what it accepts, late requests included.          *)
LEMMA OthersAccepted ==
  ASSUME TypeOK, AcceptedInv, Next, ~ \E t \in Tasks : Continue(t)
  PROVE  AcceptedInv'
<1> USE DEF AcceptedInv, OnlyAccepted, PostedFirst, StoredFirst, AfterPost, ResyncPcs,
       Begin, Goto, session, flags, network, locals, proxyVars, bgVars
<1>T. /\ pc \in [Tasks -> Pcs] /\ arg \in [Tasks -> MaybePersona]
      /\ seen \in [Tasks -> MaybePersona]
      /\ reply \in [Tasks -> MaybePersona \cup {Failed, Waiting}]
  BY DEF TypeOK
<1>1. ASSUME NEW t \in Tasks, NEW p \in Personas, StartSet(t, p) PROVE AcceptedInv'
  BY <1>1, <1>T DEF StartSet
<1>2. ASSUME NEW t \in Tasks, StartClear(t) PROVE AcceptedInv'
  BY <1>2, <1>T DEF StartClear
<1>3. ASSUME NEW t \in Tasks, StartPoll(t) PROVE AcceptedInv'
  BY <1>3, <1>T DEF StartPoll
<1>4. ASSUME NEW t \in Tasks, StartProxyError(t) PROVE AcceptedInv'
  BY <1>4, <1>T DEF StartProxyError
<1>5. ASSUME NEW t \in Tasks, Serve(t) PROVE AcceptedInv'
  BY <1>5, <1>T DEF Serve, HandlePersonaPost, HandlePersonaDelete, HandlePersonaRead,
     PostReply, Posted, PostPcs, ReadPcs, proxyControlVars
<1>6. ASSUME NEW t \in Tasks, Refuse(t) PROVE AcceptedInv'
  BY <1>6, <1>T DEF Refuse
<1>7. ASSUME NEW t \in Tasks, Timeout(t) PROVE AcceptedInv'
  BY <1>7, <1>T DEF Timeout
<1>8. ASSUME ServeLate PROVE AcceptedInv'
  BY <1>8 DEF ServeLate, HandlePersonaPost, HandlePersonaDelete
<1>9. ASSUME StopProxy \/ StartProxy PROVE AcceptedInv'
  BY <1>9 DEF StopProxy, Stop, StartProxy, Start
<1>10. ASSUME RestartWorker \/ RestartBrowser PROVE AcceptedInv'
  BY <1>10 DEF RestartWorker, RestartBrowser, LoseWorker
<1> QED BY <1>1, <1>2, <1>3, <1>4, <1>5, <1>6, <1>7, <1>8, <1>9, <1>10 DEF Next, Silent,
   Continue, Answer

(* No layer ever carries a persona that the proxy would refuse, and an     *)
(* unauthorised extension applies nothing at all (OnlyAccepted).           *)
THEOREM OnlyAcceptedHolds == Spec => []OnlyAccepted
<1>1. Init => AcceptedInv
  BY InitAccepted
<1>2. TypeOK /\ OneActivation /\ AcceptedInv /\ [Next]_vars => AcceptedInv'
  <2> SUFFICES ASSUME TypeOK, OneActivation, AcceptedInv, [Next]_vars PROVE AcceptedInv'
    OBVIOUS
  <2>1. CASE Next
    BY <2>1, ContinueAccepted, OthersAccepted
  <2>2. CASE UNCHANGED vars
    BY <2>2 DEF AcceptedInv, OnlyAccepted, PostedFirst, StoredFirst, vars, bgVars,
       session, network, locals, proxyVars
  <2> QED BY <2>1, <2>2
<1>3. AcceptedInv => OnlyAccepted
  BY DEF AcceptedInv
<1> QED BY <1>1, <1>2, <1>3, TypeCorrect, OneActivationHolds, PTL DEF Spec

-----------------------------------------------------------------------------
(* With proxy routing disabled an activation goes from its start to its    *)
(* catch block, and a poll never sees an active persona.                   *)

InsidePcs == {"actHealth", "actPost", "actDone"} \cup AfterPost

DisabledInv ==
    ~ProxyEnabled =>
      /\ LayersOff /\ active = NoPersona /\ ~ready
      /\ \A t \in Tasks :
           /\ pc[t] \notin InsidePcs \cup {"pollPost", "pollSynced", "pollTell"}
           /\ pc[t] \in ResyncPcs => seen[t] = NoPersona

(* A handler reaches no layer while routing is disabled.                   *)
LEMMA ContinueDisabled ==
  ASSUME TypeOK, DisabledInv, NEW t \in Tasks, Continue(t)
  PROVE  DisabledInv'
<1> SUFFICES ASSUME ~ProxyEnabled PROVE DisabledInv'
  BY DEF DisabledInv
<1> USE DEF DisabledInv, LayersOff, InsidePcs, AfterPost, ResyncPcs, Step, Goto, Send,
       Resume, Answered, Return, FetchProxyHealth, PostPersonaToProxy, DeletePersonaFromProxy,
       ClearProxySettings, ClearDynamicRules, BroadcastPersona, Rollback, session, flags,
       network, locals, proxyVars
<1>T. pc \in [Tasks -> Pcs] /\ seen \in [Tasks -> MaybePersona]
  BY DEF TypeOK
<1>1. CASE DropActive(t) BY <1>1, <1>T DEF DropActive
<1>2. CASE DropRules(t) BY <1>2, <1>T DEF DropRules
<1>3. CASE DropPac(t) BY <1>3, <1>T DEF DropPac
<1>4. CASE SendDelete(t) BY <1>4, <1>T DEF SendDelete
<1>5. CASE TellNobody(t) BY <1>5, <1>T DEF TellNobody, AfterTeardown
<1>6. CASE ClearDone(t) BY <1>6, <1>T DEF ClearDone
<1>7. CASE ActHealth(t) BY <1>7, <1>T DEF ActHealth, FailActivation
<1>8. CASE ActPost(t) BY <1>8, <1>T DEF ActPost, FailActivation
<1>9. CASE ActConfirm(t) BY <1>9, <1>T DEF ActConfirm, AfterRefusal, FailActivation
<1>10. CASE ActRules(t) BY <1>10, <1>T DEF ActRules
<1>11. CASE ActInstall(t) BY <1>11, <1>T DEF ActInstall, AfterRefusal
<1>12. CASE ActVerify(t) BY <1>12, <1>T DEF ActVerify
<1>13. CASE ActStore(t) BY <1>13, <1>T DEF ActStore, AfterRefusal
<1>14. CASE ActReady(t) BY <1>14, <1>T DEF ActReady
<1>15. CASE ActTell(t) BY <1>15, <1>T DEF ActTell
<1>16. CASE EndActivation(t) BY <1>16, <1>T DEF EndActivation, AfterActivation
<1>17. CASE Validate(t) BY <1>17, <1>T DEF Validate
<1>18. CASE VerdictLost(t) BY <1>18, <1>T DEF VerdictLost
<1>19. CASE VerdictInvalid(t) BY <1>19, <1>T DEF VerdictInvalid
<1>20. CASE VerdictValid(t) BY <1>20, <1>T DEF VerdictValid, Activate, RoutingDisabled
<1>21. CASE SetDone(t) BY <1>21, <1>T DEF SetDone
<1>22. CASE PollActive(t) BY <1>22, <1>T DEF PollActive
<1>23. CASE PollReady(t) BY <1>23, <1>T DEF PollReady, IfReady
<1>24. CASE PollHealth(t)
  BY <1>24, <1>T DEF PollHealth, Activate, RoutingDisabled, PollDecision
<1>25. CASE PollPost(t) BY <1>25, <1>T DEF PollPost
<1>26. CASE PollSynced(t) BY <1>26, <1>T DEF PollSynced
<1>27. CASE PollTell(t) BY <1>27, <1>T DEF PollTell
<1>28. CASE PollState(t) BY <1>28, <1>T DEF PollState
<1>29. CASE PollMid(t) BY <1>29, <1>T DEF PollMid, IfReady
<1>30. CASE PollBadge(t) BY <1>30, <1>T DEF PollBadge
<1> QED
  BY <1>1, <1>2, <1>3, <1>4, <1>5, <1>6, <1>7, <1>8, <1>9, <1>10, <1>11, <1>12, <1>13,
     <1>14, <1>15, <1>16, <1>17, <1>18, <1>19, <1>20, <1>21, <1>22, <1>23, <1>24, <1>25,
     <1>26, <1>27, <1>28, <1>29, <1>30 DEF Continue, Work, Broadcast

(* No other step touches a layer.                                          *)
LEMMA OthersDisabled ==
  ASSUME TypeOK, DisabledInv, Next, ~ \E t \in Tasks : Continue(t)
  PROVE  DisabledInv'
<1> USE DEF DisabledInv, LayersOff, InsidePcs, AfterPost, ResyncPcs, Begin, Goto,
       session, flags, network, locals, bgVars
<1>T. pc \in [Tasks -> Pcs] /\ seen \in [Tasks -> MaybePersona]
  BY DEF TypeOK
<1>1. ASSUME NEW t \in Tasks, NEW p \in Personas, StartSet(t, p) PROVE DisabledInv'
  BY <1>1, <1>T DEF StartSet
<1>2. ASSUME NEW t \in Tasks, StartClear(t) PROVE DisabledInv'
  BY <1>2, <1>T DEF StartClear
<1>3. ASSUME NEW t \in Tasks, StartPoll(t) PROVE DisabledInv'
  BY <1>3, <1>T DEF StartPoll
<1>4. ASSUME NEW t \in Tasks, StartProxyError(t) PROVE DisabledInv'
  BY <1>4, <1>T DEF StartProxyError
<1>5. ASSUME UNCHANGED <<pc, seen, active, ready, network, told>> PROVE DisabledInv'
  BY <1>5
<1>6. ASSUME NEW t \in Tasks, Answer(t) \/ Timeout(t) PROVE DisabledInv'
  BY <1>5, <1>6 DEF Answer, Serve, Refuse, Timeout
<1>7. ASSUME ServeLate \/ StopProxy \/ StartProxy PROVE DisabledInv'
  BY <1>5, <1>7 DEF ServeLate, StopProxy, StartProxy
<1>8. ASSUME RestartWorker \/ RestartBrowser PROVE DisabledInv'
  BY <1>8 DEF RestartWorker, RestartBrowser, LoseWorker
<1> QED BY <1>1, <1>2, <1>3, <1>4, <1>6, <1>7, <1>8 DEF Next, Silent, Continue

(* With settings.proxyEnabled false no layer is ever touched, for any      *)
(* number of handlers and faults (NothingWhenDisabled).                    *)
THEOREM NothingWhenDisabledHolds == Spec => []NothingWhenDisabled
<1>1. Init => DisabledInv
  BY DEF Init, DisabledInv, LayersOff, InsidePcs, AfterPost, ResyncPcs
<1>2. TypeOK /\ DisabledInv /\ [Next]_vars => DisabledInv'
  <2> SUFFICES ASSUME TypeOK, DisabledInv, [Next]_vars PROVE DisabledInv'
    OBVIOUS
  <2>1. CASE Next
    BY <2>1, ContinueDisabled, OthersDisabled
  <2>2. CASE UNCHANGED vars
    BY <2>2 DEF DisabledInv, LayersOff, vars, bgVars, session, flags, network, locals
  <2> QED BY <2>1, <2>2
<1>3. DisabledInv => NothingWhenDisabled
  BY DEF DisabledInv, NothingWhenDisabled
<1> QED BY <1>1, <1>2, <1>3, TypeCorrect, PTL DEF Spec

-----------------------------------------------------------------------------
(* The worker implements SingleFlight.  These are the positions that the   *)
(* refinement mapping tells apart.                                         *)
Seen == {"join", "setActive", "setDegraded"}

(* A step between two other positions is a stutter of SingleFlight.        *)
LEMMA Stutter ==
  ASSUME TypeOK, NEW t \in Tasks, NEW to, pc' = [pc EXCEPT ![t] = to],
         pc[t] \notin Seen, to \notin Seen, inFlight' = inFlight
  PROVE  UNCHANGED Flight!vars
<1>1. pc \in [Tasks -> Pcs]
  BY DEF TypeOK
<1>2. \A u \in Tasks : pc'[u] = pc[u] \/ (pc[u] \notin Seen /\ pc'[u] \notin Seen)
  BY <1>1
<1>3. Joiners' = Joiners
  BY <1>2 DEF Joiners, Seen
<1>4. Results' = Results
  BY <1>2 DEF Results, Seen
<1> QED BY <1>3, <1>4 DEF Flight!vars

(* A handler that acts on its result.                                      *)
LEMMA ActStep ==
  ASSUME TypeOK, NEW t \in Tasks, pc[t] \in {"setActive", "setDegraded"},
         pc' = [pc EXCEPT ![t] = "idle"], inFlight' = inFlight
  PROVE  Flight!Act(t)
<1>1. pc \in [Tasks -> Pcs]
  BY DEF TypeOK
<1>2. Joiners' = Joiners
  BY <1>1 DEF Joiners
<1>3. Results' = [Results EXCEPT ![t] = "none"]
  BY <1>1 DEF Results
<1> QED BY <1>2, <1>3 DEF Flight!Act

(* A handler that calls activatePersonaStrict leads or joins.              *)
LEMMA ActivateStep ==
  ASSUME TypeOK, OneActivation, NEW t \in Tasks, pc[t] \in {"verdict", "pollHealth"}, Activate(t)
  PROVE  Flight!Lead(t) \/ Flight!Join(t)
<1>1. pc \in [Tasks -> Pcs]
  BY DEF TypeOK
<1>2. CASE InProgress /\ Resume(t, "join") /\ UNCHANGED inFlight
  <2>1. inFlight \notin {NoTask, t}
    BY <1>2 DEF InProgress, OneActivation, ActivationPcs
  <2>2. Joiners' = Joiners \cup {t}
    BY <1>1, <1>2 DEF Joiners, Resume, Goto
  <2>3. Results' = Results
    BY <1>1, <1>2 DEF Results, Resume, Goto
  <2> QED BY <1>2, <2>1, <2>2, <2>3 DEF Flight!Join
<1>3. CASE ~InProgress /\ inFlight' = t /\ \E to \in {"clearPac", "actHealth"} : Goto(t, to)
  <2>1. PICK to \in {"clearPac", "actHealth"} : pc' = [pc EXCEPT ![t] = to]
    BY <1>3 DEF Goto
  <2>2. \A u \in Tasks : pc'[u] = pc[u] \/ (pc[u] \notin Seen /\ pc'[u] \notin Seen)
    BY <1>1, <2>1 DEF Seen
  <2>3. Joiners' = Joiners /\ Results' = Results
    BY <2>2 DEF Joiners, Results, Seen
  <2> QED BY <1>3, <2>3 DEF Flight!Lead, InProgress
<1> QED BY <1>2, <1>3 DEF Activate, Resume, FetchProxyHealth, Send

(* The end of an activation returns to the leader and all its joiners.     *)
LEMMA FinishStep ==
  ASSUME TypeOK, OneActivation, NEW t \in Tasks, EndActivation(t)
  PROVE  \E r \in {"applied", "failed"} : Flight!Finish(r)
<1>1. pc \in [Tasks -> Pcs] /\ kind \in [Tasks -> Kinds]
  BY DEF TypeOK
<1>2. inFlight = t /\ t # NoTask
  BY NoTaskAssumption DEF EndActivation, OneActivation, ActivationPcs, TeardownPcs
<1> DEFINE ok == pc[t] = "actDone"
           r == IF ok THEN "applied" ELSE "failed"
           C == {u \in Joiners \cup {t} : kind[u] = "set"}
<1>3. \A u \in Tasks : pc'[u] = IF u = t \/ pc[u] = "join" THEN AfterActivation(u, ok) ELSE pc[u]
  BY DEF EndActivation
<1>4. \A u \in Tasks : AfterActivation(u, ok) \in {"pollState", "setActive", "setDegraded"}
  BY DEF AfterActivation
<1>5. Joiners' = {}
  BY <1>3, <1>4 DEF Joiners
<1>6. Results' = [u \in Tasks |-> IF u \in C THEN r ELSE Results[u]]
  BY <1>1, <1>3 DEF Results, Joiners, AfterActivation, EndActivation
<1>7. C \in SUBSET (Joiners \cup {inFlight})
  BY <1>2
<1>8. inFlight' = NoTask
  BY DEF EndActivation
<1>9. Flight!Finish(r)
  BY <1>2, <1>5, <1>6, <1>7, <1>8 DEF Flight!Finish
<1> QED BY <1>9

(* A step of a handler is a step of SingleFlight, or a stutter.            *)
LEMMA ContinueFlight ==
  ASSUME TypeOK, OneActivation, NEW t \in Tasks, Continue(t)
  PROVE  Flight!Next \/ UNCHANGED Flight!vars
<1> USE DEF Step, Goto, Send, Resume, Return, Seen, FetchProxyHealth,
       PostPersonaToProxy, DeletePersonaFromProxy, Answered
<1>1. CASE DropActive(t) BY <1>1, Stutter DEF DropActive
<1>2. CASE DropRules(t) BY <1>2, Stutter DEF DropRules
<1>3. CASE DropPac(t) BY <1>3, Stutter DEF DropPac
<1>4. CASE SendDelete(t) BY <1>4, Stutter DEF SendDelete
<1>5. CASE TellNobody(t)
  <2>1. AfterTeardown(t) \notin Seen
    BY DEF AfterTeardown
  <2> QED BY <1>5, <2>1, Stutter DEF TellNobody
<1>6. CASE ClearDone(t) BY <1>6, Stutter DEF ClearDone
<1>7. CASE ActHealth(t) BY <1>7, Stutter DEF ActHealth, FailActivation
<1>8. CASE ActPost(t) BY <1>8, Stutter DEF ActPost, FailActivation
<1>9. CASE ActConfirm(t) BY <1>9, Stutter DEF ActConfirm, FailActivation, AfterRefusal
<1>10. CASE ActRules(t) BY <1>10, Stutter DEF ActRules
<1>11. CASE ActInstall(t) BY <1>11, Stutter DEF ActInstall, AfterRefusal
<1>12. CASE ActVerify(t) BY <1>12, Stutter DEF ActVerify
<1>13. CASE ActStore(t) BY <1>13, Stutter DEF ActStore, AfterRefusal
<1>14. CASE ActReady(t) BY <1>14, Stutter DEF ActReady
<1>15. CASE ActTell(t) BY <1>15, Stutter DEF ActTell
<1>16. CASE EndActivation(t) BY <1>16, FinishStep DEF Flight!Next
<1>17. CASE Validate(t) BY <1>17, Stutter DEF Validate
<1>18. CASE VerdictLost(t) BY <1>18, Stutter DEF VerdictLost
<1>19. CASE VerdictInvalid(t) BY <1>19, Stutter DEF VerdictInvalid
<1>20. CASE VerdictValid(t) BY <1>20, ActivateStep DEF VerdictValid, Flight!Next
<1>21. CASE SetDone(t) BY <1>21, ActStep DEF SetDone, Flight!Next
<1>22. CASE PollActive(t) BY <1>22, Stutter DEF PollActive
<1>23. CASE PollReady(t) BY <1>23, Stutter DEF PollReady
<1>24. CASE PollHealth(t)
  <2>1. pc[t] = "pollHealth"
    BY <1>24 DEF PollHealth
  <2>2. CASE Activate(t)
    BY <2>1, <2>2, ActivateStep DEF Flight!Next
  <2>3. CASE inFlight' = inFlight /\ \E to \in {"deactivate", "pollPost", "pollState"} : Goto(t, to)
    BY <2>1, <2>3, Stutter
  <2> QED BY <1>24, <2>2, <2>3 DEF PollHealth
<1>25. CASE PollPost(t) BY <1>25, Stutter DEF PollPost
<1>26. CASE PollSynced(t) BY <1>26, Stutter DEF PollSynced
<1>27. CASE PollTell(t) BY <1>27, Stutter DEF PollTell
<1>28. CASE PollState(t) BY <1>28, Stutter DEF PollState
<1>29. CASE PollMid(t) BY <1>29, Stutter DEF PollMid
<1>30. CASE PollBadge(t) BY <1>30, Stutter DEF PollBadge
<1> QED
  BY <1>1, <1>2, <1>3, <1>4, <1>5, <1>6, <1>7, <1>8, <1>9, <1>10, <1>11, <1>12,
     <1>13, <1>14, <1>15, <1>16, <1>17, <1>18, <1>19, <1>20, <1>21, <1>22, <1>23,
     <1>24, <1>25, <1>26, <1>27, <1>28, <1>29, <1>30 DEF Continue, Work, Broadcast

(* Every other step is a stutter, but a restart, where all callers vanish. *)
LEMMA OthersFlight ==
  ASSUME TypeOK, OneActivation, Next, ~ \E t \in Tasks : Continue(t)
  PROVE  Flight!Next \/ UNCHANGED Flight!vars
<1> USE DEF Begin, Goto, Seen, bgVars
<1>1. ASSUME NEW t \in Tasks, NEW p \in Personas, StartSet(t, p) PROVE UNCHANGED Flight!vars
  BY <1>1, Stutter DEF StartSet
<1>2. ASSUME NEW t \in Tasks, StartClear(t) PROVE UNCHANGED Flight!vars
  BY <1>2, Stutter DEF StartClear
<1>3. ASSUME NEW t \in Tasks, StartPoll(t) PROVE UNCHANGED Flight!vars
  BY <1>3, Stutter DEF StartPoll
<1>4. ASSUME NEW t \in Tasks, StartProxyError(t) PROVE UNCHANGED Flight!vars
  BY <1>4, Stutter DEF StartProxyError
<1>5. ASSUME UNCHANGED <<pc, inFlight>> PROVE UNCHANGED Flight!vars
  BY <1>5 DEF Flight!vars, Joiners, Results
<1>6. ASSUME NEW t \in Tasks, Answer(t) \/ Timeout(t) PROVE UNCHANGED Flight!vars
  BY <1>5, <1>6 DEF Answer, Serve, Refuse, Timeout
<1>7. ASSUME ServeLate \/ StopProxy \/ StartProxy PROVE UNCHANGED Flight!vars
  BY <1>5, <1>7 DEF ServeLate, StopProxy, StartProxy
<1>8. ASSUME RestartWorker \/ RestartBrowser PROVE Flight!Vanish
  <2>1. inFlight' = NoTask /\ pc' = [t \in Tasks |-> "idle"]
    BY <1>8 DEF RestartWorker, RestartBrowser, LoseWorker
  <2>2. Joiners' = {} /\ Results' = [t \in Tasks |-> "none"]
    BY <2>1 DEF Joiners, Results
  <2> QED BY <2>1, <2>2 DEF Flight!Vanish
<1> QED BY <1>1, <1>2, <1>3, <1>4, <1>6, <1>7, <1>8 DEF Next, Silent, Continue, Flight!Next

(* Callers of activatePersonaStrict get what SingleFlight promises: one    *)
(* activation at a time, and the same result for the one that runs it and  *)
(* all that joined it (ImplementsSingleFlight).                            *)
THEOREM SingleFlightHolds == Spec => ImplementsSingleFlight
<1>1. Init => Flight!Init
  BY DEF Init, Flight!Init, Joiners, Results
<1>2. TypeOK /\ OneActivation /\ [Next]_vars => [Flight!Next]_(Flight!vars)
  <2> SUFFICES ASSUME TypeOK, OneActivation, [Next]_vars
               PROVE  Flight!Next \/ UNCHANGED Flight!vars
    OBVIOUS
  <2>1. CASE Next
    BY <2>1, ContinueFlight, OthersFlight
  <2>2. CASE UNCHANGED vars
    BY <2>2 DEF Flight!vars, Joiners, Results, vars, bgVars
  <2> QED BY <2>1, <2>2
<1> QED BY <1>1, <1>2, TypeCorrect, OneActivationHolds, PTL
     DEF Spec, ImplementsSingleFlight, Flight!Spec
=============================================================================
