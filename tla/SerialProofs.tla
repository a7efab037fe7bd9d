---------------------------- MODULE SerialProofs ----------------------------
(***************************************************************************)
(* What holds when the handlers of the service worker run one at a time,   *)
(* for any number of personas and faults.                                  *)
(***************************************************************************)
EXTENDS BackgroundProofs

USE NoPersonaAssumption, NoTaskAssumption

(* The invariant says for every position of the handler what the layers    *)
(* carry there.                                                            *)

InstallPcs == {"actRules", "actInstall", "actVerify", "actStore", "actReady"}

(* Where lastNetworkReady is down: after a rollback, until ActReady.       *)
QuietPcs == {"clearPac", "sendDelete", "awaitDelete", "validate", "verdict", "actHealth",
             "actPost", "actConfirm", "actFailed"} \cup InstallPcs

DecidedPcs == {"pollPost", "pollSynced", "pollTell"}

ReadyApplied ==
    ready => \A t \in Tasks :
               /\ pc[t] \notin QuietPcs
               /\ pc[t] # "rollback" => active # NoPersona /\ dnr = active /\ pac
               /\ pc[t] \notin {"rollback", "actTell"} => told = active

InstallOrder ==
    \A t \in Tasks :
      /\ pc[t] \in InstallPcs => pac
      /\ pc[t] \in {"actVerify", "actStore", "actReady"} => dnr = arg[t]
      /\ pc[t] \in {"actReady", "actTell"} => active = arg[t]
      /\ pc[t] = "actTell" => ready

PollPcs == {"pollActive", "pollState", "pollMid", "pollBadge"} \cup ResyncPcs

SomePersona ==
    \A t \in Tasks :
      /\ pc[t] \in {"validate", "verdict"} => kind[t] = "set"
      /\ pc[t] \in PollPcs => kind[t] # "set"
      /\ kind[t] = "set" \/ pc[t] \in {"actHealth", "actPost", "actConfirm"} \cup InstallPcs
           => arg[t] # NoPersona

SeenIsActive ==
    \A t \in Tasks :
      /\ pc[t] = "pollReady" => seen[t] = active
      /\ pc[t] \in {"pollHealth"} \cup DecidedPcs => seen[t] = IfReady(active)
      /\ pc[t] \in DecidedPcs => seen[t] # NoPersona

SerialInv == ReadyApplied /\ InstallOrder /\ SomePersona /\ SeenIsActive

(* As long as the worker lives: without lastNetworkReady nothing is left.  *)
OffInv ==
    ~ready => \A t \in Tasks :
                /\ pc[t] \notin TeardownPcs \cup InstallPcs => LayersOff
                /\ pc[t] \in {"clearPac", "sendDelete", "awaitDelete"} => dnr = NoPersona
                /\ pc[t] \in {"sendDelete", "awaitDelete"} => ~pac

(* Both invariants hold initially.                                         *)
LEMMA InitSerial == ASSUME Init PROVE SerialInv /\ OffInv
  BY DEF Init, SerialInv, ReadyApplied, InstallOrder, SomePersona, SeenIsActive, OffInv,
     LayersOff, TeardownPcs, InstallPcs, DecidedPcs, PollPcs, ResyncPcs

(* A handler that runs alone finds no activation to join.                  *)
LEMMA ActivateAlone ==
  ASSUME TypeOK, OneActivation, NEW t, Tasks = {t}, pc[t] \in {"verdict", "pollHealth"},
         Activate(t)
  PROVE  /\ ready' = FALSE
         /\ pac' = pac /\ inFlight' = t
         /\ \/ dnr' = NoPersona /\ pc' = [pc EXCEPT ![t] = "clearPac"]
            \/ dnr' = dnr /\ pc' = [pc EXCEPT ![t] = "actHealth"]
<1>1. ~InProgress
  BY DEF TypeOK, InProgress, OneActivation, ActivationPcs
<1> QED BY <1>1 DEF Activate, Rollback, ClearDynamicRules, Resume, FetchProxyHealth, Send,
   Goto, network

(* A step of the handler keeps the annotation of its positions.            *)
LEMMA ContinueSerial ==
  ASSUME TypeOK, OneActivation, SerialInv, NEW t, Tasks = {t}, Continue(t)
  PROVE  SerialInv'
<1> USE DEF SerialInv, ReadyApplied, InstallOrder, SomePersona, SeenIsActive, IfReady,
       PollPcs, ResyncPcs, InstallPcs, QuietPcs, DecidedPcs, Step, Goto, Send, Resume,
       Answered, Return, FetchProxyHealth, PostPersonaToProxy, DeletePersonaFromProxy,
       ConfigureProxy, ClearProxySettings, ApplyDynamicRules, ClearDynamicRules,
       BroadcastPersona, Rollback, Refused, session, flags, network, locals, proxyVars
<1>T. /\ pc \in [Tasks -> Pcs] /\ kind \in [Tasks -> Kinds] /\ arg \in [Tasks -> MaybePersona]
      /\ seen \in [Tasks -> MaybePersona] /\ \A u \in Tasks : u = t
  BY DEF TypeOK
<1>1. CASE DropActive(t) BY <1>1, <1>T DEF DropActive
<1>2. CASE DropRules(t) BY <1>2, <1>T DEF DropRules
<1>3. CASE DropPac(t) BY <1>3, <1>T DEF DropPac
<1>4. CASE SendDelete(t) BY <1>4, <1>T DEF SendDelete
<1>5. CASE TellNobody(t) BY <1>5, <1>T DEF TellNobody, AfterTeardown
<1>6. CASE ClearDone(t) BY <1>6, <1>T DEF ClearDone
<1>7. CASE ActHealth(t) BY <1>7, <1>T DEF ActHealth, FailActivation
<1>8. CASE ActPost(t) BY <1>8, <1>T DEF ActPost, FailActivation
<1>9. CASE ActConfirm(t) BY <1>9, <1>T DEF ActConfirm, AfterRefusal, FailActivation
<1>10. CASE ActRules(t) BY <1>10, <1>T DEF ActRules
<1>11. CASE ActInstall(t) BY <1>11, <1>T DEF ActInstall, AfterRefusal
<1>12. CASE ActVerify(t) BY <1>12, <1>T DEF ActVerify
<1>13. CASE ActStore(t)
  <2>1. ~ready
    BY <1>13, <1>T DEF ActStore
  <2>2. CASE seen[t] = NoPersona
    <3>1. ready' = FALSE /\ pc' = [pc EXCEPT ![t] = "clearPac"]
      BY <1>13, <2>2 DEF ActStore
    <3> QED BY <1>13, <1>T, <3>1 DEF ActStore
  <2>3. CASE active' = arg[t] /\ Goto(t, "actReady") /\ UNCHANGED <<ready, network>>
    BY <1>13, <1>T, <2>1, <2>3 DEF ActStore
  <2>4. CASE Goto(t, "rollback") /\ UNCHANGED <<active, ready, network>>
    BY <1>13, <1>T, <2>1, <2>4 DEF ActStore
  <2> QED BY <1>13, <2>2, <2>3, <2>4 DEF ActStore, AfterRefusal
<1>14. CASE ActReady(t) BY <1>14, <1>T DEF ActReady
<1>15. CASE ActTell(t) BY <1>15, <1>T DEF ActTell
<1>16. CASE EndActivation(t) BY <1>16, <1>T DEF EndActivation, AfterActivation
<1>17. CASE Validate(t) BY <1>17, <1>T DEF Validate
<1>18. CASE VerdictLost(t) BY <1>18, <1>T DEF VerdictLost
<1>19. CASE VerdictInvalid(t) BY <1>19, <1>T DEF VerdictInvalid
<1>20. CASE VerdictValid(t)
  <2>1. pc[t] = "verdict" /\ Activate(t)
    BY <1>20 DEF VerdictValid
  <2>2. /\ ready' = FALSE /\ pac' = pac
        /\ \E to \in {"clearPac", "actHealth"} : pc' = [pc EXCEPT ![t] = to]
    BY <2>1, ActivateAlone
  <2> QED BY <1>20, <1>T, <2>1, <2>2 DEF VerdictValid
<1>21. CASE SetDone(t) BY <1>21, <1>T DEF SetDone
<1>22. CASE PollActive(t) BY <1>22, <1>T DEF PollActive
<1>23. CASE PollReady(t) BY <1>23, <1>T DEF PollReady, IfReady
<1>24. CASE PollHealth(t)
  <2>1. pc[t] = "pollHealth"
    BY <1>24 DEF PollHealth
  <2>2. CASE PollDecision(seen[t], arg[t], reply[t]) = "activate" /\ Activate(t)
    <3>1. arg[t] # NoPersona
      BY <2>2 DEF PollDecision
    <3>2. /\ ready' = FALSE /\ pac' = pac
          /\ \E to \in {"clearPac", "actHealth"} : pc' = [pc EXCEPT ![t] = to]
      BY <2>1, <2>2, ActivateAlone
    <3> QED BY <1>24, <1>T, <2>1, <3>1, <3>2 DEF PollHealth
  <2>3. CASE /\ UNCHANGED <<ready, network>>
             /\ \/ Goto(t, "deactivate") \/ Goto(t, "pollState")
                \/ Goto(t, "pollPost") /\ seen[t] # NoPersona
    BY <1>24, <1>T, <2>1, <2>3 DEF PollHealth
  <2> QED BY <1>24, <2>2, <2>3 DEF PollHealth, PollDecision
<1>25. CASE PollPost(t) BY <1>25, <1>T DEF PollPost
<1>26. CASE PollSynced(t) BY <1>26, <1>T DEF PollSynced
<1>27. CASE PollTell(t) BY <1>27, <1>T DEF PollTell
<1>28. CASE PollState(t) BY <1>28, <1>T DEF PollState
<1>29. CASE PollMid(t) BY <1>29, <1>T DEF PollMid, IfReady
<1>30. CASE PollBadge(t) BY <1>30, <1>T DEF PollBadge
<1> QED
  BY <1>1, <1>2, <1>3, <1>4, <1>5, <1>6, <1>7, <1>8, <1>9, <1>10, <1>11, <1>12, <1>13,
     <1>14, <1>15, <1>16, <1>17, <1>18, <1>19, <1>20, <1>21, <1>22, <1>23, <1>24, <1>25,
     <1>26, <1>27, <1>28, <1>29, <1>30 DEF Continue, Work, Broadcast

(* Starting a handler, the proxy and the faults keep it.                   *)
LEMMA OthersSerial ==
  ASSUME TypeOK, SerialInv, NEW t, Tasks = {t}, Next, ~ Continue(t)
  PROVE  SerialInv'
<1> USE DEF SerialInv, ReadyApplied, InstallOrder, SomePersona, SeenIsActive, IfReady,
       PollPcs, ResyncPcs, InstallPcs, QuietPcs, DecidedPcs, Begin, Goto, session, flags,
       network, locals, proxyVars, bgVars
<1>T. /\ pc \in [Tasks -> Pcs] /\ kind \in [Tasks -> Kinds] /\ arg \in [Tasks -> MaybePersona]
      /\ seen \in [Tasks -> MaybePersona] /\ \A u \in Tasks : u = t
  BY DEF TypeOK
<1>1. ASSUME NEW p \in Personas, StartSet(t, p) PROVE SerialInv'
  BY <1>1, <1>T DEF StartSet
<1>2. ASSUME StartClear(t) PROVE SerialInv'
  BY <1>2, <1>T DEF StartClear
<1>3. ASSUME StartPoll(t) PROVE SerialInv'
  BY <1>3, <1>T DEF StartPoll
<1>4. ASSUME StartProxyError(t) PROVE SerialInv'
  BY <1>4, <1>T DEF StartProxyError
<1>5. ASSUME UNCHANGED <<pc, kind, arg, seen, active, ready, network, told>> PROVE SerialInv'
  BY <1>5
<1>6. ASSUME Answer(t) \/ Timeout(t) PROVE SerialInv'
  BY <1>5, <1>6 DEF Answer, Serve, Refuse, Timeout
<1>7. ASSUME ServeLate \/ StopProxy \/ StartProxy PROVE SerialInv'
  BY <1>5, <1>7 DEF ServeLate, StopProxy, StartProxy
<1>8. ASSUME RestartWorker \/ RestartBrowser PROVE SerialInv'
  BY <1>8, <1>T DEF RestartWorker, RestartBrowser, LoseWorker
<1> QED BY <1>1, <1>2, <1>3, <1>4, <1>6, <1>7, <1>8, <1>T DEF Next, Silent, Continue

(* Hence every step does.                                                  *)
LEMMA StepSerial ==
  ASSUME TypeOK, OneActivation, SerialInv, NEW t, Tasks = {t}, [Next]_vars
  PROVE  SerialInv'
<1>1. CASE Next
  BY <1>1, ContinueSerial, OthersSerial
<1>2. CASE UNCHANGED vars
  BY <1>2 DEF SerialInv, ReadyApplied, InstallOrder, SomePersona, SeenIsActive, IfReady,
     PollPcs,
        ResyncPcs, InstallPcs, QuietPcs, DecidedPcs,
     vars, bgVars, session, flags, network, locals
<1> QED BY <1>1, <1>2

(* With handlers one at a time: when none runs, lastNetworkReady means     *)
(* that all layers carry the stored persona (ReadyMeansShown).             *)
THEOREM ReadyMeansShownHolds == ASSUME NEW t, Tasks = {t} PROVE Spec => []ReadyMeansShown
<1>1. Init => SerialInv
  BY InitSerial
<1>2. TypeOK /\ OneActivation /\ SerialInv /\ [Next]_vars => SerialInv'
  BY StepSerial
<1>3. SerialInv => ReadyMeansShown
  BY DEF SerialInv, ReadyApplied, ReadyMeansShown, AllIdle, Shown
<1> QED BY <1>1, <1>2, <1>3, TypeCorrect, OneActivationHolds, PTL DEF Spec

(* With handlers one at a time: the tabs are told of a persona only once   *)
(* header rule, PAC script and session storage are there (NetworkFirst).   *)
THEOREM NetworkFirstHolds == ASSUME NEW t, Tasks = {t} PROVE Spec => NetworkFirst
<1> DEFINE First == \A p \in Personas : told' = p /\ told # p => pac /\ dnr = p /\ active = p
<1>1. Init => SerialInv
  BY InitSerial
<1>2. TypeOK /\ OneActivation /\ SerialInv /\ [Next]_vars => SerialInv'
  BY StepSerial
<1>3. TypeOK /\ SerialInv /\ [Next]_vars => [First]_vars
  <2> SUFFICES ASSUME TypeOK, SerialInv, Next PROVE First
    OBVIOUS
  <2>1. CASE ActTell(t)
    BY <2>1 DEF ActTell, Step, BroadcastPersona, SerialInv, ReadyApplied, InstallOrder,
       TypeOK
  <2>2. CASE PollTell(t)
    BY <2>2 DEF PollTell, Step, BroadcastPersona, SerialInv, ReadyApplied, SeenIsActive,
       DecidedPcs, IfReady
  <2>3. CASE told' \in {told, NoPersona}
    BY <2>3
  <2>4. CASE Continue(t) /\ ~ActTell(t) /\ ~PollTell(t)
    BY <2>3, <2>4 DEF Continue, Work, Broadcast, BroadcastPersona, DropActive, DropRules,
       DropPac,
       SendDelete, TellNobody, ClearDone, ActHealth, ActPost, ActConfirm, ActRules,
       ActInstall, ActVerify, ActStore, ActReady, EndActivation, Validate, VerdictLost,
       VerdictInvalid, VerdictValid, SetDone, PollActive, PollReady, PollHealth, PollPost,
       PollSynced, PollState, PollMid, PollBadge
  <2>5. CASE \E u \in Tasks : Answer(u) \/ Timeout(u)
    BY <2>3, <2>5 DEF Answer, Serve, Refuse, Timeout
  <2>6. CASE \E u \in Tasks : StartClear(u) \/ StartPoll(u) \/ StartProxyError(u)
                              \/ \E p \in Personas : StartSet(u, p)
    BY <2>3, <2>6 DEF StartClear, StartPoll, StartProxyError, StartSet
  <2>7. CASE ServeLate \/ StopProxy \/ StartProxy \/ RestartWorker \/ RestartBrowser
    BY <2>3, <2>7 DEF ServeLate, StopProxy, StartProxy, RestartWorker, RestartBrowser,
       bgVars
  <2> QED BY <2>1, <2>2, <2>4, <2>5, <2>6, <2>7 DEF Next, Silent, Continue
<1> QED BY <1>1, <1>2, <1>3, TypeCorrect, OneActivationHolds, PTL DEF Spec, NetworkFirst

-----------------------------------------------------------------------------
(* A step of the handler leaves no layer behind.                           *)
LEMMA ContinueOff ==
  ASSUME TypeOK, OneActivation, SerialInv, OffInv, NEW t, Tasks = {t}, Continue(t)
  PROVE  OffInv'
<1> USE DEF OffInv, LayersOff, TeardownPcs, InstallPcs, Step, Goto, Send, Resume,
       Answered, Return, FetchProxyHealth, PostPersonaToProxy, DeletePersonaFromProxy,
       ConfigureProxy, ClearProxySettings, ApplyDynamicRules, ClearDynamicRules,
       BroadcastPersona, Rollback, Refused, session, flags, network, locals, proxyVars
<1>T. /\ pc \in [Tasks -> Pcs] /\ \A u \in Tasks : u = t
      /\ pc[t] \in QuietPcs => ~ready
      /\ pc[t] = "actTell" => ready
      /\ pc[t] \in {"pollTell", "pollSynced"} => ready
      /\ pc[t] = "pollHealth" /\ seen[t] = NoPersona => ~ready
  BY DEF TypeOK, SerialInv, ReadyApplied, InstallOrder, SeenIsActive, DecidedPcs, IfReady
<1>Q. QuietPcs = {"clearPac", "sendDelete", "awaitDelete", "validate", "verdict", "actHealth",
                  "actPost", "actConfirm", "actFailed"} \cup InstallPcs
  BY DEF QuietPcs
<1>1. CASE DropActive(t) BY <1>1, <1>T, <1>Q DEF DropActive
<1>2. CASE DropRules(t) BY <1>2, <1>T, <1>Q DEF DropRules
<1>3. CASE DropPac(t) BY <1>3, <1>T, <1>Q DEF DropPac
<1>4. CASE SendDelete(t) BY <1>4, <1>T, <1>Q DEF SendDelete
<1>5. CASE TellNobody(t) BY <1>5, <1>T, <1>Q DEF TellNobody, AfterTeardown
<1>6. CASE ClearDone(t) BY <1>6, <1>T, <1>Q DEF ClearDone
<1>7. CASE ActHealth(t) BY <1>7, <1>T, <1>Q DEF ActHealth, FailActivation
<1>8. CASE ActPost(t) BY <1>8, <1>T, <1>Q DEF ActPost, FailActivation
<1>9. CASE ActConfirm(t) BY <1>9, <1>T, <1>Q DEF ActConfirm, AfterRefusal, FailActivation
<1>10. CASE ActRules(t) BY <1>10, <1>T, <1>Q DEF ActRules
<1>11. CASE ActInstall(t) BY <1>11, <1>T, <1>Q DEF ActInstall, AfterRefusal
<1>12. CASE ActVerify(t) BY <1>12, <1>T, <1>Q DEF ActVerify
<1>13. CASE ActStore(t)
  <2>1. pc[t] = "actStore"
    BY <1>13 DEF ActStore
  <2>2. CASE dnr' = NoPersona /\ Goto(t, "clearPac")
    BY <1>T, <2>1, <2>2
  <2>3. CASE Goto(t, "actReady") \/ Goto(t, "rollback")
    BY <1>T, <2>1, <2>3
  <2> QED BY <1>13, <2>2, <2>3 DEF ActStore, AfterRefusal
<1>14. CASE ActReady(t) BY <1>14, <1>T, <1>Q DEF ActReady
<1>15. CASE ActTell(t) BY <1>15, <1>T, <1>Q DEF ActTell
<1>16. CASE EndActivation(t) BY <1>16, <1>T, <1>Q DEF EndActivation, AfterActivation
<1>17. CASE Validate(t) BY <1>17, <1>T, <1>Q DEF Validate
<1>18. CASE VerdictLost(t) BY <1>18, <1>T, <1>Q DEF VerdictLost
<1>19. CASE VerdictInvalid(t) BY <1>19, <1>T, <1>Q DEF VerdictInvalid
<1>A. ASSUME pc[t] \in {"verdict", "pollHealth"}, ~ready, Activate(t), told' = told
      PROVE  OffInv'
  <2>1. dnr' \in {dnr, NoPersona} /\ pac' = pac /\ \E to \in {"clearPac", "actHealth"} : Goto(t, to)
    BY <1>A, ActivateAlone
  <2>2. LayersOff
    BY <1>A, <1>T
  <2> QED BY <1>A, <1>T, <2>1, <2>2
<1>20. CASE VerdictValid(t) BY <1>20, <1>A, <1>T, <1>Q DEF VerdictValid
<1>21. CASE SetDone(t) BY <1>21, <1>T, <1>Q DEF SetDone
<1>22. CASE PollActive(t) BY <1>22, <1>T, <1>Q DEF PollActive
<1>23. CASE PollReady(t) BY <1>23, <1>T, <1>Q DEF PollReady, IfReady
<1>24. CASE PollHealth(t)
  <2>1. pc[t] = "pollHealth"
    BY <1>24 DEF PollHealth
  <2>2. CASE PollDecision(seen[t], arg[t], reply[t]) = "activate" /\ Activate(t)
    BY <1>24, <1>A, <1>T, <2>1, <2>2 DEF PollHealth, PollDecision
  <2>3. CASE /\ UNCHANGED <<ready, network>>
             /\ \/ Goto(t, "deactivate") \/ Goto(t, "pollState")
                \/ Goto(t, "pollPost")
    BY <1>24, <1>T, <2>1, <2>3 DEF PollHealth
  <2> QED BY <1>24, <2>2, <2>3 DEF PollHealth
<1>25. CASE PollPost(t) BY <1>25, <1>T, <1>Q DEF PollPost
<1>26. CASE PollSynced(t) BY <1>26, <1>T, <1>Q DEF PollSynced
<1>27. CASE PollTell(t) BY <1>27, <1>T, <1>Q DEF PollTell
<1>28. CASE PollState(t) BY <1>28, <1>T, <1>Q DEF PollState
<1>29. CASE PollMid(t) BY <1>29, <1>T, <1>Q DEF PollMid, IfReady
<1>30. CASE PollBadge(t) BY <1>30, <1>T, <1>Q DEF PollBadge
<1> QED
  BY <1>1, <1>2, <1>3, <1>4, <1>5, <1>6, <1>7, <1>8, <1>9, <1>10, <1>11, <1>12, <1>13,
     <1>14, <1>15, <1>16, <1>17, <1>18, <1>19, <1>20, <1>21, <1>22, <1>23, <1>24, <1>25,
     <1>26, <1>27, <1>28, <1>29, <1>30 DEF Continue, Work, Broadcast

(* No other step raises a layer, as long as the worker lives.              *)
LEMMA OthersOff ==
  ASSUME TypeOK, OffInv, NEW t, Tasks = {t}, Next, ~ Continue(t),
         "workerRestart" \notin Faults, "browserRestart" \notin Faults
  PROVE  OffInv'
<1> USE DEF OffInv, LayersOff, TeardownPcs, InstallPcs, Begin, Goto, network, bgVars
<1>T. pc \in [Tasks -> Pcs] /\ \A u \in Tasks : u = t
  BY DEF TypeOK
<1>1. ASSUME NEW p \in Personas, StartSet(t, p) PROVE OffInv'
  BY <1>1, <1>T DEF StartSet, flags
<1>2. ASSUME StartClear(t) PROVE OffInv'
  BY <1>2, <1>T DEF StartClear, flags
<1>3. ASSUME StartPoll(t) PROVE OffInv'
  BY <1>3, <1>T DEF StartPoll, flags
<1>4. ASSUME StartProxyError(t) PROVE OffInv'
  BY <1>4, <1>T DEF StartProxyError
<1>5. ASSUME UNCHANGED <<pc, flags, network, told>> PROVE OffInv'
  BY <1>5 DEF flags
<1>6. ASSUME Answer(t) \/ Timeout(t) PROVE OffInv'
  BY <1>5, <1>6 DEF Answer, Serve, Refuse, Timeout
<1>7. ASSUME ServeLate \/ StopProxy \/ StartProxy PROVE OffInv'
  BY <1>5, <1>7 DEF ServeLate, StopProxy, StartProxy
<1>8. ~RestartWorker /\ ~RestartBrowser
  BY DEF RestartWorker, RestartBrowser, SpendFault
<1> QED BY <1>1, <1>2, <1>3, <1>4, <1>6, <1>7, <1>8, <1>T DEF Next, Silent, Continue

(* With handlers one at a time and no restart of the worker: when none     *)
(* runs and lastNetworkReady is down, every layer is off, whatever failed  *)
(* (NotReadyMeansOff).                                                     *)
THEOREM NotReadyMeansOffHolds ==
  ASSUME NEW t, Tasks = {t}, "workerRestart" \notin Faults, "browserRestart" \notin Faults
  PROVE  Spec => []NotReadyMeansOff
<1>1. Init => SerialInv /\ OffInv
  BY InitSerial
<1>2. TypeOK /\ OneActivation /\ SerialInv /\ OffInv /\ [Next]_vars => (SerialInv /\ OffInv)'
  <2> SUFFICES ASSUME TypeOK, OneActivation, SerialInv, OffInv, [Next]_vars
               PROVE  SerialInv' /\ OffInv'
    OBVIOUS
  <2>1. SerialInv'
    BY StepSerial
  <2>2. CASE Next
    BY <2>1, <2>2, ContinueOff, OthersOff
  <2>3. CASE UNCHANGED vars
    BY <2>1, <2>3 DEF OffInv, LayersOff, vars, bgVars, flags, network
  <2> QED BY <2>2, <2>3
<1>3. OffInv => NotReadyMeansOff
  BY DEF OffInv, NotReadyMeansOff, AllIdle, TeardownPcs, InstallPcs
<1> QED BY <1>1, <1>2, <1>3, TypeCorrect, OneActivationHolds, PTL DEF Spec

-----------------------------------------------------------------------------
(* The badge.  It is written last by a handler, from flags and verdict that *)
(* were written long before: the invariant follows them until then.        *)

(* Both sides judge every persona alike.                                   *)
SameVerdict == \A p \in Personas : p \in LocallyValid <=> PostAccepted(p)

VerdictOf(p) == IF p \in LocallyValid THEN "valid" ELSE "invalid"

(* setPersona before its own verdict.                                      *)
Unjudged(t) ==
    kind[t] = "set" /\ pc[t] \in TeardownPcs \cup {"validate"} /\ inFlight # t

ActingPcs == {"actPost", "actConfirm"} \cup InstallPcs

DesiredApplied ==
    \A t \in Tasks :
      /\ ready /\ pc[t] \notin {"deactivate", "rollback"} => reachable /\ active = desired
      /\ pc[t] \in ActingPcs => reachable
      /\ kind[t] = "set" \/ pc[t] \in {"actHealth"} \cup ActingPcs
           \/ pc[t] \in {"pollActive", "pollReady", "pollHealth"} => arg[t] = desired
      /\ kind[t] = "clear" => desired = NoPersona

VerdictCurrent ==
    desired # NoPersona => \A t \in Tasks : Unjudged(t) \/ verdict = VerdictOf(desired)

BadgeWritten ==
    \A t \in Tasks :
      /\ pc[t] = "pollMid" => seen[t] = active
      /\ pc[t] = "pollBadge" => seen[t] = IfReady(active)
      /\ pc[t] \in {"clearBadge", "setDegraded"} => ~ready
      /\ pc[t] = "idle" /\ ready => badge = "ACTIVE"

BadgeInv == DesiredApplied /\ VerdictCurrent /\ BadgeWritten

(* The invariant holds initially.                                          *)
LEMMA InitBadge == ASSUME Init PROVE BadgeInv
  BY DEF Init, BadgeInv, DesiredApplied, VerdictCurrent, BadgeWritten, ActingPcs, InstallPcs

(* A step of the handler keeps it.                                         *)
LEMMA ContinueBadge ==
  ASSUME TypeOK, OneActivation, OnlyAccepted, SameVerdict, SerialInv, BadgeInv,
         NEW t, Tasks = {t}, Continue(t)
  PROVE  BadgeInv'
<1> USE DEF BadgeInv, DesiredApplied, VerdictCurrent, BadgeWritten, Unjudged, ActingPcs,
       TeardownPcs, InstallPcs, Step, Goto, Send, Resume, Answered, Return,
       FetchProxyHealth, PostPersonaToProxy, DeletePersonaFromProxy, ConfigureProxy,
       ClearProxySettings, ApplyDynamicRules, ClearDynamicRules, BroadcastPersona,
       UpdateBadge, Rollback, Refused, IfReady, session, flags, validation, network,
       locals, proxyVars
<1>T. /\ pc \in [Tasks -> Pcs] /\ kind \in [Tasks -> Kinds] /\ arg \in [Tasks -> MaybePersona]
      /\ seen \in [Tasks -> MaybePersona] /\ inFlight \in {t, NoTask}
      /\ \A u \in Tasks : u = t
  BY DEF TypeOK
<1>Q. /\ pc[t] \in QuietPcs => ~ready
      /\ pc[t] \in {"validate", "verdict"} => kind[t] = "set"
      /\ pc[t] \in PollPcs => kind[t] # "set"
      /\ pc[t] \in DecidedPcs => ready
      /\ pc[t] = "actTell" => ready
      /\ pc[t] = "actReady" => active = arg[t]
      /\ pc[t] = "pollHealth" => seen[t] = IfReady(active)
      /\ ready /\ pc[t] # "rollback" => active # NoPersona
  BY <1>T DEF SerialInv, ReadyApplied, InstallOrder, SomePersona, SeenIsActive, DecidedPcs
<1>F. /\ pc[t] \in ActivationPcs \ TeardownPcs => inFlight = t
      /\ inFlight = t => pc[t] \in ActivationPcs
      /\ t # NoTask
  BY <1>T DEF OneActivation
<1> USE DEF QuietPcs, PollPcs, DecidedPcs, ResyncPcs, ActivationPcs
<1>1. CASE DropActive(t) BY <1>1, <1>T, <1>Q, <1>F DEF DropActive
<1>2. CASE DropRules(t) BY <1>2, <1>T, <1>Q, <1>F DEF DropRules
<1>3. CASE DropPac(t) BY <1>3, <1>T, <1>Q, <1>F DEF DropPac
<1>4. CASE SendDelete(t) BY <1>4, <1>T, <1>Q, <1>F DEF SendDelete
<1>5. CASE TellNobody(t) BY <1>5, <1>T, <1>Q, <1>F DEF TellNobody, AfterTeardown
<1>6. CASE ClearDone(t) BY <1>6, <1>T, <1>Q, <1>F DEF ClearDone
<1>7. CASE ActHealth(t)
  <2>1. CASE reply[t] = Failed
    BY <1>7, <1>T, <1>Q, <1>F, <2>1 DEF ActHealth, FailActivation
  <2>2. CASE reply[t] # Failed
    <3>1. reachable'
      BY <1>7, <2>2, Zenon DEF ActHealth
    <3> QED BY <1>7, <1>T, <1>Q, <1>F, <2>2, <3>1 DEF ActHealth
  <2> QED BY <2>1, <2>2
<1>8. CASE ActPost(t) BY <1>8, <1>T, <1>Q, <1>F DEF ActPost, FailActivation
<1>9. CASE ActConfirm(t)
  BY <1>9, <1>T, <1>Q, <1>F DEF ActConfirm, AfterRefusal, FailActivation
<1>10. CASE ActRules(t) BY <1>10, <1>T, <1>Q, <1>F DEF ActRules
<1>11. CASE ActInstall(t) BY <1>11, <1>T, <1>Q, <1>F DEF ActInstall, AfterRefusal
<1>12. CASE ActVerify(t) BY <1>12, <1>T, <1>Q, <1>F DEF ActVerify
<1>13. CASE ActStore(t) BY <1>13, <1>T, <1>Q, <1>F DEF ActStore, AfterRefusal
<1>14. CASE ActReady(t) BY <1>14, <1>T, <1>Q, <1>F DEF ActReady
<1>15. CASE ActTell(t) BY <1>15, <1>T, <1>Q, <1>F DEF ActTell
<1>16. CASE EndActivation(t) BY <1>16, <1>T, <1>Q, <1>F DEF EndActivation, AfterActivation
<1>17. CASE Validate(t)
  <2>1. arg[t] = desired /\ pc[t] = "validate" /\ ~ready
    BY <1>17, <1>T, <1>Q DEF Validate
  <2>2. verdict' = VerdictOf(desired)
    BY <1>17, <2>1 DEF Validate, VerdictOf
  <2>3. \A p : VerdictOf(p)' = VerdictOf(p)
    BY DEF VerdictOf
  <2> QED BY <1>17, <1>T, <1>Q, <2>1, <2>2, <2>3 DEF Validate
<1>18. CASE VerdictLost(t) BY <1>18, <1>T, <1>Q, <1>F DEF VerdictLost
<1>19. CASE VerdictInvalid(t) BY <1>19, <1>T, <1>Q, <1>F DEF VerdictInvalid
<1>20. CASE VerdictValid(t)
  <2>1. pc[t] = "verdict" /\ Activate(t)
    BY <1>20 DEF VerdictValid
  <2>2. ready' = FALSE /\ inFlight' = t /\ \E to \in {"clearPac", "actHealth"} : Goto(t, to)
    BY <2>1, ActivateAlone
  <2> QED BY <1>20, <1>T, <1>Q, <1>F, <2>1, <2>2 DEF VerdictValid
<1>21. CASE SetDone(t) BY <1>21, <1>T, <1>Q, <1>F DEF SetDone
<1>22. CASE PollActive(t) BY <1>22, <1>T, <1>Q, <1>F DEF PollActive
<1>23. CASE PollReady(t) BY <1>23, <1>T, <1>Q, <1>F DEF PollReady, IfReady
<1>24. CASE PollHealth(t)
  <2>1. pc[t] = "pollHealth" /\ (reachable' <=> reply[t] # Failed)
    BY <1>24, Zenon DEF PollHealth, Answered
  <2>2. CASE PollDecision(seen[t], arg[t], reply[t]) = "activate" /\ Activate(t)
    <3>1. ready' = FALSE /\ inFlight' = t /\ \E to \in {"clearPac", "actHealth"} : Goto(t, to)
      BY <2>1, <2>2, ActivateAlone
    <3> QED BY <1>24, <1>T, <1>Q, <1>F, <2>1, <3>1 DEF PollHealth
  <2>3. CASE Goto(t, "deactivate") /\ UNCHANGED ready /\ inFlight' = inFlight
    BY <1>24, <1>T, <1>Q, <1>F, <2>1, <2>3 DEF PollHealth
  <2>4. CASE /\ PollDecision(seen[t], arg[t], reply[t]) \in {"resync", "nothing"}
             /\ (Goto(t, "pollPost") \/ Goto(t, "pollState"))
             /\ UNCHANGED ready /\ inFlight' = inFlight
    <3>1. ready => reply[t] # Failed
      BY <1>Q, <2>1, <2>4 DEF PollDecision
    <3> QED BY <1>24, <1>T, <1>Q, <1>F, <2>1, <2>4, <3>1 DEF PollHealth
  <2> QED BY <1>24, <2>2, <2>3, <2>4 DEF PollHealth
<1>25. CASE PollPost(t) BY <1>25, <1>T, <1>Q, <1>F DEF PollPost
<1>26. CASE PollSynced(t) BY <1>26, <1>T, <1>Q, <1>F DEF PollSynced
<1>27. CASE PollTell(t) BY <1>27, <1>T, <1>Q, <1>F DEF PollTell
<1>28. CASE PollState(t) BY <1>28, <1>T, <1>Q, <1>F DEF PollState
<1>29. CASE PollMid(t) BY <1>29, <1>T, <1>Q, <1>F DEF PollMid, IfReady
<1>30. CASE PollBadge(t)
  <2>1. ASSUME ready PROVE RuntimeState(t) = "ACTIVE"
    <3>1. seen[t] = desired /\ desired # NoPersona /\ reachable /\ active = desired
      BY <1>30, <1>T, <1>Q, <2>1 DEF PollBadge
    <3>2. desired \in LocallyValid
      BY <3>1 DEF OnlyAccepted, SameVerdict, TypeOK, MaybePersona
    <3>3. verdict = "valid"
      BY <1>30, <1>T, <3>1, <3>2 DEF PollBadge, VerdictOf
    <3> QED BY <2>1, <3>1, <3>3 DEF RuntimeState, Valid
  <2>2. pc[t] = "pollBadge" /\ badge' = RuntimeState(t)
    BY <1>30 DEF PollBadge
  <2> QED BY <1>30, <1>T, <1>Q, <1>F, <2>1, <2>2 DEF PollBadge
<1> QED
  BY <1>1, <1>2, <1>3, <1>4, <1>5, <1>6, <1>7, <1>8, <1>9, <1>10, <1>11, <1>12, <1>13,
     <1>14, <1>15, <1>16, <1>17, <1>18, <1>19, <1>20, <1>21, <1>22, <1>23, <1>24, <1>25,
     <1>26, <1>27, <1>28, <1>29, <1>30 DEF Continue, Work, Broadcast

(* So do starting a handler, the proxy and the faults, as long as the      *)
(* worker lives.                                                           *)
LEMMA OthersBadge ==
  ASSUME TypeOK, OneActivation, BadgeInv, NEW t, Tasks = {t}, Next, ~ Continue(t),
         "workerRestart" \notin Faults, "browserRestart" \notin Faults
  PROVE  BadgeInv'
<1> USE DEF BadgeInv, DesiredApplied, VerdictCurrent, BadgeWritten, Unjudged, ActingPcs,
       TeardownPcs, InstallPcs, Begin, Goto, IfReady, session, flags, validation, network,
       locals, proxyVars, bgVars
<1>T. /\ pc \in [Tasks -> Pcs] /\ kind \in [Tasks -> Kinds] /\ arg \in [Tasks -> MaybePersona]
      /\ seen \in [Tasks -> MaybePersona] /\ \A u \in Tasks : u = t
  BY DEF TypeOK
<1>F. inFlight = t => pc[t] # "idle"
  BY DEF OneActivation, ActivationPcs
<1>1. ASSUME NEW p \in Personas, StartSet(t, p) PROVE BadgeInv'
  BY <1>1, <1>T, <1>F DEF StartSet
<1>2. ASSUME StartClear(t) PROVE BadgeInv'
  BY <1>2, <1>T DEF StartClear
<1>3. ASSUME StartPoll(t) PROVE BadgeInv'
  BY <1>3, <1>T DEF StartPoll
<1>4. ASSUME StartProxyError(t) PROVE BadgeInv'
  BY <1>4, <1>T DEF StartProxyError
<1>5. ASSUME UNCHANGED <<session, flags, validation, inFlight, badge, pc, locals>>
      PROVE  BadgeInv'
  BY <1>5
<1>6. ASSUME Answer(t) \/ Timeout(t) PROVE BadgeInv'
  BY <1>5, <1>6 DEF Answer, Serve, Refuse, Timeout
<1>7. ASSUME ServeLate \/ StopProxy \/ StartProxy PROVE BadgeInv'
  BY <1>5, <1>7 DEF ServeLate, StopProxy, StartProxy
<1>8. ~RestartWorker /\ ~RestartBrowser
  BY DEF RestartWorker, RestartBrowser, SpendFault
<1> QED BY <1>1, <1>2, <1>3, <1>4, <1>6, <1>7, <1>8, <1>T DEF Next, Silent, Continue

(* With handlers one at a time, no restart of the worker, and personas     *)
(* that both sides judge alike: while any layer carries a persona, the     *)
(* badge does not deny it (BadgeNeverDenies; background.ts:140-147,        *)
(* 258-259, 278-311).                                                      *)
THEOREM BadgeNeverDeniesHolds ==
  ASSUME NEW t, Tasks = {t}, SameVerdict,
         "workerRestart" \notin Faults, "browserRestart" \notin Faults
  PROVE  Spec => []BadgeNeverDenies
<1>1. Init => SerialInv /\ OffInv /\ BadgeInv
  BY InitSerial, InitBadge
<1>2. TypeOK /\ OneActivation /\ OnlyAccepted /\ SerialInv /\ OffInv /\ BadgeInv /\ [Next]_vars
        => (SerialInv /\ OffInv /\ BadgeInv)'
  <2> SUFFICES ASSUME TypeOK, OneActivation, OnlyAccepted, SerialInv, OffInv, BadgeInv, [Next]_vars
               PROVE  SerialInv' /\ OffInv' /\ BadgeInv'
    OBVIOUS
  <2>1. SerialInv'
    BY StepSerial
  <2>2. CASE Next
    BY <2>1, <2>2, ContinueOff, OthersOff, ContinueBadge, OthersBadge
  <2>3. CASE UNCHANGED vars
    <3>1. OffInv'
      BY <2>3 DEF OffInv, LayersOff, vars, bgVars, flags, network
    <3>2. BadgeInv'
      BY <2>3 DEF BadgeInv, DesiredApplied, VerdictCurrent, BadgeWritten, Unjudged, IfReady,
         vars, bgVars, session, flags, validation, locals
    <3> QED BY <2>1, <3>1, <3>2
  <2> QED BY <2>2, <2>3
<1>3. OffInv /\ BadgeInv => BadgeNeverDenies
  BY DEF OffInv, BadgeInv, BadgeWritten, BadgeNeverDenies, AllIdle, TeardownPcs, InstallPcs
<1> QED BY <1>1, <1>2, <1>3, TypeCorrect, OneActivationHolds, OnlyAcceptedHolds, PTL DEF
   Spec
=============================================================================
