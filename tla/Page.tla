-------------------------------- MODULE Page --------------------------------
(***************************************************************************)
(* One web page, composed with the service worker: its injected script     *)
(* (src/extension/src/injected/injected.ts) asks the proxy synchronously   *)
(* for the persona when the page loads, its content script                 *)
(* (src/extension/src/content/content.ts) then asks the worker, and both   *)
(* take broadcasts at any time.  Pages do not depend on each other, so one *)
(* stands for all.                                                         *)
(*                                                                         *)
(* A message from the worker is handled when it arrives: replies and       *)
(* broadcasts come in the order they were sent, so that a delay of all of  *)
(* them changes nothing but the time.                                      *)
(***************************************************************************)
EXTENDS Background

VARIABLES
    page,     \* how far its content script is
    shown,    \* the persona its overrides show
    got,      \* the persona in the worker's reply
    raced     \* history: the last broadcast came between a reply and its use

pageVars == <<page, shown, got, raced>>
pvars == <<vars, pageVars>>

PageStates == {"none", "asked", "read", "answered", "live"}

PageTypeOK ==
    /\ page \in PageStates
    /\ shown \in MaybePersona
    /\ got \in MaybePersona
    /\ raced \in BOOLEAN

PageInit ==
    /\ Init
    /\ page = "none"
    /\ shown = NoPersona
    /\ got = NoPersona
    /\ raced = FALSE

ApplyPersona(p) == shown' = p

\* Mutant: a request that failed is not told from an answer.
LoadSynchronousPersonaUncaught ==
    ApplyPersona(IF proxyUp THEN proxyPersona ELSE Failed)

(* The synchronous bootstrap: what /persona/current says, or nothing.      *)
LoadSynchronousPersona ==
    ApplyPersona(IF proxyUp THEN proxyPersona ELSE NoPersona)

(* A navigation, at any time: bootstrap, then the two questions to the     *)
(* worker.                                                                 *)
Load ==
    /\ LoadSynchronousPersona
    /\ page' = "asked"
    /\ got' = NoPersona
    /\ raced' = FALSE
    /\ UNCHANGED vars

(* getActivePersona in the worker, before and after its await.             *)
ReadActive ==
    /\ page = "asked"
    /\ page' = "read"
    /\ got' = active
    /\ UNCHANGED <<shown, raced, vars>>

AnswerPage ==
    /\ page = "read"
    /\ page' = "answered"
    /\ got' = IfReady(got)
    /\ UNCHANGED <<shown, raced, vars>>

(* publishActivePersona resumes when the runtime state has come as well.   *)
PublishActivePersona ==
    /\ page = "answered"
    /\ page' = "live"
    /\ ApplyPersona(got)
    /\ got' = NoPersona
    /\ UNCHANGED <<raced, vars>>

\* Mutant: a null is not passed on.
ListenForPersona ==
    shown' = IF page = "none" \/ told' = NoPersona THEN shown ELSE told'

\* Mutant: only a null is passed on.
ListenForClear ==
    shown' = IF page = "none" \/ told' # NoPersona THEN shown ELSE told'

(* The listener of the content script, installed before anything is asked. *)
Listen == shown' = IF page = "none" THEN shown ELSE told'

Tell ==
    /\ \E t \in Tasks : Broadcast(t)
    /\ Listen
    /\ raced' = (page \in {"read", "answered"})
    /\ UNCHANGED <<page, got>>

(* The questions under way are rejected: the catch of publishActivePersona. *)
LoseAnswers ==
    /\ RestartWorker
    /\ \/ /\ page \in {"asked", "read", "answered"}
          /\ page' = "live"
          /\ ApplyPersona(NoPersona)
          /\ got' = NoPersona
          /\ raced' = FALSE
       \/ /\ page \in {"none", "live"}
          /\ UNCHANGED pageVars

Close ==
    /\ RestartBrowser
    /\ page' = "none"
    /\ shown' = NoPersona
    /\ got' = NoPersona
    /\ raced' = FALSE

PageStep == ReadActive \/ AnswerPage \/ PublishActivePersona

PageNext ==
    \/ Load \/ PageStep \/ Tell \/ LoseAnswers \/ Close
    \/ Silent /\ UNCHANGED pageVars

PageSpec == PageInit /\ [][PageNext]_pvars

(* The messages between page and worker arrive.                            *)
FairPageSpec == PageSpec /\ Fairness /\ WF_pvars(PageStep)

-----------------------------------------------------------------------------
(* JavaScript and network agree: handlers one at a time, when none runs    *)
(* and the worker is ready, a live page shows the persona of the header    *)
(* rule, wherever it was loaded among the awaits of an activation, re-sync *)
(* or teardown and whatever failed.  Except: a reply that a broadcast      *)
(* overtook is used all the same, and the page keeps the older value until *)
(* the next broadcast (content.ts:52-64, background.ts:323-330).           *)
PageMatchesNetwork ==
    AllIdle /\ ready /\ page = "live" /\ ~raced => shown = active /\ shown = dnr

(* Once nobody wants a persona, every page shows the real values in the    *)
(* end, also those that took a persona from the proxy while they loaded.   *)
ClearReachesPages == <>[](desired = NoPersona) => <>[](shown = NoPersona)

(* Neither the bootstrap, which believes the proxy, nor a reply or a       *)
(* broadcast that comes late shows a persona the proxy would refuse.       *)
MayShow(p) == p = NoPersona \/ p = CliPersona \/ PostAccepted(p)

OnlyAcceptedShown == MayShow(shown) /\ MayShow(got)
=============================================================================
