-------------------------- MODULE DataPlaneProofs --------------------------
(***************************************************************************)
(* Theorems about the traffic side of the proxy, for any number of         *)
(* requests under way, any max_connections and any personas.               *)
(***************************************************************************)
EXTENDS DataPlane, FiniteSetTheorems, TLAPS

USE ConnsAssumption, MaxConnectionsAssumption, BadHeaderAssumption, BoundsAssumption

(* What the positions of a request say about its kind and its last answer. *)
Positions ==
    \A c \in Conns :
      /\ at[c] \in {"target", "countTotal"} => kind[c] = "forward"
      /\ at[c] \in {"acquire", "tunnel"} => kind[c] = "connect"
      /\ at[c] # "idle" => answer[c] # "refused"

PermitsMatch == free \in Nat /\ free = Permits - Cardinality(Holders)

(* The four things that a step can do to the pool.                         *)
Takes(c) ==
    /\ c \notin Holders /\ free > 0
    /\ Holders' = Holders \cup {c} /\ free' = free - 1 /\ Refused' = Refused \ {c}

Returns(c) ==
    /\ c \in Holders
    /\ Holders' = Holders \ {c} /\ free' = free + 1 /\ Refused' = Refused

IsRefused(c) ==
    free = 0 /\ UNCHANGED <<Holders, free>> /\ Refused' = Refused \cup {c}

Calls(c) == UNCHANGED <<Holders, free>> /\ Refused' = Refused \ {c}

Nothing == UNCHANGED <<Holders, free, Refused>>

(* The types that the pool needs.                                          *)
PoolTypes ==
    /\ at \in [Conns -> Ats]
    /\ kind \in [Conns -> {"connect", "forward"}]
    /\ answer \in [Conns -> Answers]
    /\ isMutated \in [Conns -> BOOLEAN]
    /\ total \in Nat /\ mutated \in Nat /\ passthrough \in Nat

(* The number of holders is a number.                                      *)
LEMMA HoldersFinite == IsFiniteSet(Holders) /\ Cardinality(Holders) \in Nat
<1>1. Holders \subseteq Conns
  BY DEF Holders
<1> QED BY <1>1, FS_Subset, FS_CardinalityType

(* The types are preserved, those of free apart.                           *)
LEMMA TypesStep == ASSUME PoolTypes, DataNext PROVE PoolTypes'
<1>N. \A n \in Nat : n + 1 \in Nat
  OBVIOUS
<1> USE DEF PoolTypes, Ats, Answers, Move, Answer, Finish, TryAcquire, CountKind, counters,
        requests
<1>1. ASSUME NEW c \in Conns, HandleConnect(c) PROVE PoolTypes'
  <2>1. isMutated' \in [Conns -> BOOLEAN]
    BY <1>1, Zenon DEF HandleConnect
  <2>2. total' \in Nat /\ mutated' \in Nat /\ passthrough' \in Nat
    BY <1>1, <1>N, Zenon DEF HandleConnect
  <2> QED BY <1>1, <2>1, <2>2 DEF HandleConnect
<1>2. ASSUME NEW c \in Conns, ForwardHttpRequest(c) PROVE PoolTypes'
  BY <1>2 DEF ForwardHttpRequest
<1>3. ASSUME NEW c \in Conns, AcquireTunnel(c) PROVE PoolTypes'
  BY <1>3 DEF AcquireTunnel
<1>4. ASSUME NEW c \in Conns, NoTarget(c) PROVE PoolTypes'
  BY <1>4 DEF NoTarget
<1>5. ASSUME NEW c \in Conns, ReadPersona(c) PROVE PoolTypes'
  <2>1. isMutated' \in [Conns -> BOOLEAN]
    BY <1>5 DEF ReadPersona
  <2> QED BY <1>5, <2>1 DEF ReadPersona
<1>6. ASSUME NEW c \in Conns, RecordTotal(c) PROVE PoolTypes'
  <2>1. total' \in Nat /\ mutated' \in Nat /\ passthrough' \in Nat
    BY <1>6, <1>N, Zenon DEF RecordTotal
  <2> QED BY <1>6, <2>1 DEF RecordTotal
<1>7. ASSUME NEW c \in Conns, RecordKind(c) PROVE PoolTypes'
  <2>1. mutated' \in Nat /\ passthrough' \in Nat
    BY <1>7, <1>N, Zenon DEF RecordKind
  <2> QED BY <1>7, <2>1 DEF RecordKind
<1>8. ASSUME NEW c \in Conns, UpstreamTimeout(c) \/ AnswerTimeout(c) PROVE PoolTypes'
  BY <1>8 DEF UpstreamTimeout, AnswerTimeout
<1>9. ASSUME NEW c \in Conns, UpstreamAnswers(c) PROVE PoolTypes'
  BY <1>9 DEF UpstreamAnswers
<1>10. ASSUME NEW c \in Conns, UpstreamFails(c) \/ TunnelEnds(c) \/ Disconnect(c)
       PROVE  PoolTypes'
  BY <1>10 DEF UpstreamFails, TunnelEnds, Disconnect
<1>11. ASSUME ChangePersona PROVE PoolTypes'
  BY <1>11 DEF ChangePersona, dataVars
<1> QED
  BY <1>1, <1>2, <1>3, <1>4, <1>5, <1>6, <1>7, <1>8, <1>9, <1>10, <1>11
  DEF DataNext, Handle

(* So are the positions.                                                   *)
LEMMA PositionsStep == ASSUME PoolTypes, Positions, DataNext PROVE Positions'
<1> USE DEF Positions, Move, Answer, Finish, TryAcquire, counters, requests
<1>T. /\ at \in [Conns -> Ats] /\ kind \in [Conns -> {"connect", "forward"}]
      /\ answer \in [Conns -> Answers]
  BY DEF PoolTypes
<1>1. ASSUME NEW c \in Conns, HandleConnect(c) PROVE Positions'
  BY <1>1, <1>T DEF HandleConnect
<1>2. ASSUME NEW c \in Conns, ForwardHttpRequest(c) PROVE Positions'
  BY <1>2, <1>T DEF ForwardHttpRequest
<1>3. ASSUME NEW c \in Conns, AcquireTunnel(c) PROVE Positions'
  BY <1>3, <1>T DEF AcquireTunnel
<1>4. ASSUME NEW c \in Conns, NoTarget(c) PROVE Positions'
  BY <1>4, <1>T DEF NoTarget
<1>5. ASSUME NEW c \in Conns, ReadPersona(c) PROVE Positions'
  BY <1>5, <1>T DEF ReadPersona
<1>6. ASSUME NEW c \in Conns, RecordTotal(c) PROVE Positions'
  BY <1>6, <1>T DEF RecordTotal
<1>7. ASSUME NEW c \in Conns, RecordKind(c) PROVE Positions'
  BY <1>7, <1>T DEF RecordKind
<1>8. ASSUME NEW c \in Conns, UpstreamTimeout(c) \/ AnswerTimeout(c) PROVE Positions'
  BY <1>8, <1>T DEF UpstreamTimeout, AnswerTimeout
<1>9. ASSUME NEW c \in Conns, UpstreamAnswers(c) PROVE Positions'
  BY <1>9, <1>T DEF UpstreamAnswers
<1>10. ASSUME NEW c \in Conns, UpstreamFails(c) \/ TunnelEnds(c) \/ Disconnect(c)
       PROVE  Positions'
  BY <1>10, <1>T DEF UpstreamFails, TunnelEnds, Disconnect
<1>11. ASSUME ChangePersona PROVE Positions'
  BY <1>11 DEF ChangePersona, dataVars
<1> QED
  BY <1>1, <1>2, <1>3, <1>4, <1>5, <1>6, <1>7, <1>8, <1>9, <1>10, <1>11
  DEF DataNext, Handle

(* Every step takes a permit, returns one, is refused one, or does nothing *)
(* to the pool.                                                            *)
LEMMA PoolEvent ==
  ASSUME PoolTypes, Positions, PermitsMatch, DataNext
  PROVE  \/ Nothing
         \/ \E c \in Conns : Takes(c) \/ Returns(c) \/ IsRefused(c) \/ Calls(c)
<1> USE DEF Positions, Holders, Refused, Move, Answer, Finish, TryAcquire,
        counters, requests
<1>T. /\ at \in [Conns -> Ats] /\ kind \in [Conns -> {"connect", "forward"}]
      /\ answer \in [Conns -> Answers] /\ free \in Nat
  BY DEF PoolTypes, PermitsMatch
<1>1. ASSUME NEW c \in Conns, HandleConnect(c) PROVE Calls(c)
  BY <1>1, <1>T DEF HandleConnect, Calls
<1>2. ASSUME NEW c \in Conns, ForwardHttpRequest(c) PROVE Takes(c) \/ IsRefused(c)
  BY <1>2, <1>T DEF ForwardHttpRequest, Takes, IsRefused
<1>3. ASSUME NEW c \in Conns, AcquireTunnel(c) PROVE Takes(c) \/ IsRefused(c)
  BY <1>3, <1>T DEF AcquireTunnel, Takes, IsRefused
<1>4. ASSUME NEW c \in Conns, NoTarget(c) PROVE Returns(c)
  BY <1>4, <1>T DEF NoTarget, Returns
<1>5. ASSUME NEW c \in Conns, ReadPersona(c) PROVE Nothing
  BY <1>5, <1>T DEF ReadPersona, Nothing
<1>6. ASSUME NEW c \in Conns, RecordTotal(c) PROVE Nothing
  BY <1>6, <1>T DEF RecordTotal, Nothing
<1>7. ASSUME NEW c \in Conns, RecordKind(c) PROVE Nothing
  BY <1>7, <1>T DEF RecordKind, Nothing
<1>8. ASSUME NEW c \in Conns, UpstreamTimeout(c) PROVE Nothing
  BY <1>8, <1>T DEF UpstreamTimeout, Nothing
<1>9. ASSUME NEW c \in Conns, UpstreamAnswers(c) PROVE Returns(c) \/ Nothing
  BY <1>9, <1>T DEF UpstreamAnswers, Returns, Nothing
<1>10. ASSUME NEW c \in Conns, UpstreamFails(c) \/ TunnelEnds(c) \/ AnswerTimeout(c)
       PROVE  Returns(c)
  BY <1>10, <1>T DEF UpstreamFails, TunnelEnds, AnswerTimeout, Returns
<1>11. ASSUME NEW c \in Conns, Disconnect(c) PROVE Returns(c)
  BY <1>11, <1>T DEF Disconnect, Returns
<1>12. ASSUME ChangePersona PROVE Nothing
  BY <1>12 DEF ChangePersona, dataVars, Nothing
<1> QED
  BY <1>1, <1>2, <1>3, <1>4, <1>5, <1>6, <1>7, <1>8, <1>9, <1>10, <1>11, <1>12
  DEF DataNext, Handle

(* The cardinality that BoundedPool uses is the one of this module.        *)
LEMMA SameCardinality == \A S : Pool!Cardinality(S) = Cardinality(S)
  BY DEF Pool!Cardinality, Cardinality, Pool!IsFiniteSet, IsFiniteSet

(* In each case the semaphore counts right, and BoundedPool takes a step.  *)
LEMMA PoolStep ==
  ASSUME PermitsMatch,
         \/ Nothing
         \/ \E c \in Conns : Takes(c) \/ Returns(c) \/ IsRefused(c) \/ Calls(c)
  PROVE  PermitsMatch' /\ (Pool!PoolNext \/ UNCHANGED Pool!poolVars)
<1> USE DEF PermitsMatch, Pool!PoolNext, Pool!poolVars
<1>P. Permits \in Nat
  BY DEF Permits
<1>1. CASE Nothing
  BY <1>1, <1>P DEF Nothing
<1>2. ASSUME NEW c \in Conns, Takes(c) PROVE PermitsMatch' /\ Pool!PoolNext
  <2>1. Cardinality(Holders') = Cardinality(Holders) + 1
    BY <1>2, HoldersFinite, FS_AddElement DEF Takes
  <2>2. PermitsMatch'
    BY <1>2, <1>P, <2>1, HoldersFinite DEF Takes
  <2>3. Pool!Acquire(c)
    <3>1. Cardinality(Holders) < Permits
      BY <1>2, <1>P, HoldersFinite DEF Takes
    <3> QED BY <1>2, <3>1, SameCardinality DEF Takes, Pool!Acquire
  <2> QED BY <2>2, <2>3
<1>3. ASSUME NEW c \in Conns, Returns(c) PROVE PermitsMatch' /\ Pool!PoolNext
  <2>1. Cardinality(Holders') = Cardinality(Holders) - 1
    BY <1>3, HoldersFinite, FS_RemoveElement DEF Returns
  <2>2. PermitsMatch'
    BY <1>3, <1>P, <2>1, HoldersFinite DEF Returns
  <2>3. Pool!Release(c)
    BY <1>3 DEF Returns, Pool!Release
  <2> QED BY <2>2, <2>3
<1>4. ASSUME NEW c \in Conns, IsRefused(c) PROVE PermitsMatch' /\ Pool!PoolNext
  <2>1. PermitsMatch'
    BY <1>4, <1>P DEF IsRefused
  <2>2. Pool!Refuse(c)
    <3>1. Cardinality(Holders) = Permits
      BY <1>4, <1>P, HoldersFinite DEF IsRefused
    <3> QED BY <1>4, <3>1, SameCardinality DEF IsRefused, Pool!Refuse
  <2> QED BY <2>1, <2>2
<1>5. ASSUME NEW c \in Conns, Calls(c) PROVE PermitsMatch' /\ Pool!PoolNext
  <2>1. PermitsMatch'
    BY <1>5, <1>P DEF Calls
  <2>2. Pool!Call(c)
    BY <1>5 DEF Calls, Pool!Call
  <2> QED BY <2>1, <2>2
<1> QED BY <1>1, <1>2, <1>3, <1>4, <1>5

PoolInv == PoolTypes /\ Positions /\ PermitsMatch

(* Initially nobody holds a permit.                                        *)
LEMMA InitPool == ASSUME DataInit PROVE PoolInv /\ Pool!PoolInit
<1>1. Holders = {} /\ Refused = {}
  BY DEF DataInit, Holders, Refused
<1>2. PoolTypes /\ Positions
  BY DEF DataInit, PoolTypes, Positions, Ats, Answers
<1>3. PermitsMatch
  BY <1>1, FS_EmptySet DEF DataInit, PermitsMatch, Permits
<1> QED BY <1>1, <1>2, <1>3 DEF PoolInv, Pool!PoolInit

(* A step that changes nothing.                                            *)
LEMMA PoolStutter ==
  ASSUME PoolInv, UNCHANGED dpVars PROVE PoolInv' /\ UNCHANGED Pool!poolVars
BY DEF PoolInv, PoolTypes, Positions, PermitsMatch, Holders, Refused, Pool!poolVars,
   dpVars, dataVars, requests, counters

(* The semaphore is a bounded pool: there are never more requests inside   *)
(* than max_connections, every way out of a handler returns its permit     *)
(* once, and 503 is answered only when all are taken (ImplementsPool).     *)
THEOREM ImplementsPoolHolds == DataSpec => ImplementsPool
<1>1. DataInit => PoolInv /\ Pool!PoolInit
  BY InitPool
<1>2. PoolInv /\ [DataNext]_dpVars => PoolInv' /\ [Pool!PoolNext]_(Pool!poolVars)
  <2> SUFFICES ASSUME PoolInv, [DataNext]_dpVars
               PROVE  PoolInv' /\ (Pool!PoolNext \/ UNCHANGED Pool!poolVars)
    OBVIOUS
  <2>1. CASE DataNext
    BY <2>1, TypesStep, PositionsStep, PoolEvent, PoolStep DEF PoolInv
  <2>2. CASE UNCHANGED dpVars
    BY <2>2, PoolStutter
  <2> QED BY <2>1, <2>2
<1> QED BY <1>1, <1>2, PTL DEF DataSpec, ImplementsPool, Pool!PoolSpec

-----------------------------------------------------------------------------
(* A request that was only in the total is counted by its kind.            *)
LEMMA OneLess ==
  \A t, m, p, n, m2, p2 \in Nat :
    t = m + p + (n + 1) /\ m2 + p2 = m + p + 1 => t = m2 + p2 + n
OBVIOUS

(* Counting a request or its kind moves it into or out of BetweenCounters. *)
LEMMA CountersStep ==
  ASSUME PoolTypes, CountersAgree, DataNext PROVE CountersAgree'
<1> USE DEF Move, Answer, Finish, TryAcquire, counters, requests
<1>T. /\ at \in [Conns -> Ats] /\ total \in Nat /\ mutated \in Nat /\ passthrough \in Nat
  BY DEF PoolTypes
<1>F. IsFiniteSet(BetweenCounters) /\ Cardinality(BetweenCounters) \in Nat
  <2>1. BetweenCounters \subseteq Conns
    BY DEF BetweenCounters
  <2> QED BY <2>1, FS_Subset, FS_CardinalityType
<1>A. ASSUME NEW c \in Conns, at[c] # "countKind", at' = [at EXCEPT ![c] = "countKind"],
             total' = total + 1, UNCHANGED <<mutated, passthrough>>
      PROVE  CountersAgree'
  <2>1. c \notin BetweenCounters /\ BetweenCounters' = BetweenCounters \cup {c}
    BY <1>A, <1>T DEF BetweenCounters
  <2>2. Cardinality(BetweenCounters') = Cardinality(BetweenCounters) + 1
    BY <1>F, <2>1, FS_AddElement
  <2> QED BY <1>A, <1>F, <1>T, <2>2 DEF CountersAgree
<1>B. ASSUME UNCHANGED <<BetweenCounters, total, mutated, passthrough>> PROVE CountersAgree'
  BY <1>B DEF CountersAgree
<1>1. ASSUME NEW c \in Conns, HandleConnect(c) \/ RecordTotal(c) PROVE CountersAgree'
  BY <1>1, <1>A DEF HandleConnect, RecordTotal
<1>2. ASSUME NEW c \in Conns, RecordKind(c) PROVE CountersAgree'
  <2>1. c \in BetweenCounters /\ BetweenCounters' = BetweenCounters \ {c}
    BY <1>2, <1>T DEF RecordKind, BetweenCounters
  <2>2. PICK n \in Nat : n = Cardinality(BetweenCounters')
    BY <1>F, <2>1, FS_RemoveElement, FS_CardinalityType
  <2>3. BetweenCounters = BetweenCounters' \cup {c} /\ c \notin BetweenCounters'
    BY <2>1
  <2>4. Cardinality(BetweenCounters) = n + 1
    BY <1>F, <2>1, <2>2, <2>3, FS_AddElement, FS_RemoveElement
  <2>5. mutated' + passthrough' = mutated + passthrough + 1 /\ total' = total
    BY <1>2, <1>T DEF RecordKind, CountKind
  <2>6. PICK m \in Nat, p \in Nat : m = mutated' /\ p = passthrough'
    BY <1>2, <1>T DEF RecordKind, CountKind
  <2>7. total = mutated + passthrough + (n + 1) /\ m + p = mutated + passthrough + 1
    BY <2>4, <2>5, <2>6 DEF CountersAgree
  <2>8. total = m + p + n
    BY <1>T, <2>7, OneLess
  <2> QED BY <2>2, <2>5, <2>6, <2>8 DEF CountersAgree
<1>3. ASSUME NEW c \in Conns,
             \/ ForwardHttpRequest(c) \/ AcquireTunnel(c) \/ NoTarget(c) \/ ReadPersona(c)
             \/ UpstreamTimeout(c) \/ AnswerTimeout(c) \/ UpstreamAnswers(c)
             \/ UpstreamFails(c) \/ TunnelEnds(c) \/ Disconnect(c)
      PROVE  CountersAgree'
  <2>1. UNCHANGED <<total, mutated, passthrough>>
    BY <1>3 DEF ForwardHttpRequest, AcquireTunnel, NoTarget, ReadPersona, UpstreamTimeout,
       AnswerTimeout, UpstreamAnswers, UpstreamFails, TunnelEnds, Disconnect
  <2>2. \E to \in Ats \ {"countKind"} : at[c] # "countKind" /\ at' = [at EXCEPT ![c] = to]
    BY <1>3 DEF ForwardHttpRequest, AcquireTunnel, NoTarget, ReadPersona, UpstreamTimeout,
       AnswerTimeout, UpstreamAnswers, UpstreamFails, TunnelEnds, Disconnect, Ats
  <2>3. BetweenCounters' = BetweenCounters
    BY <1>T, <2>2 DEF BetweenCounters
  <2> QED BY <1>B, <2>1, <2>3
<1>4. ASSUME ChangePersona PROVE CountersAgree'
  BY <1>4, <1>B DEF ChangePersona, dataVars, BetweenCounters
<1> QED BY <1>1, <1>2, <1>3, <1>4 DEF DataNext, Handle

(* Every counted request is counted as mutated or as passed through, but   *)
(* for those between their two counters (CountersAgree), on any number of  *)
(* threads.                                                                *)
THEOREM CountersAgreeHolds == DataSpec => []CountersAgree
<1>1. DataInit => PoolTypes /\ CountersAgree
  <2> SUFFICES ASSUME DataInit PROVE PoolTypes /\ CountersAgree
    OBVIOUS
  <2>1. BetweenCounters = {}
    BY DEF DataInit, BetweenCounters
  <2>2. CountersAgree
    BY <2>1, FS_EmptySet DEF DataInit, CountersAgree
  <2> QED BY <2>2, InitPool DEF PoolInv
<1>2. PoolTypes /\ CountersAgree /\ [DataNext]_dpVars => (PoolTypes /\ CountersAgree)'
  <2> SUFFICES ASSUME PoolTypes, CountersAgree, [DataNext]_dpVars
               PROVE  PoolTypes' /\ CountersAgree'
    OBVIOUS
  <2>1. CASE DataNext
    BY <2>1, TypesStep, CountersStep
  <2>2. CASE UNCHANGED dpVars
    BY <2>2 DEF PoolTypes, CountersAgree, BetweenCounters, dpVars, dataVars, requests,
       counters
  <2> QED BY <2>1, <2>2
<1> QED BY <1>1, <1>2, PTL DEF DataSpec

-----------------------------------------------------------------------------
(* What the other theorems do not need to know: the header values replaced *)
(* so far, the counter of timeouts, the bound on requests, the persona.    *)
RestTypes ==
    /\ ProxyControlTypeOK
    /\ rewritten \in [Conns -> SUBSET MutatedHeaders]
    /\ timeouts \in Nat
    /\ requestsLeft \in 0 .. MaxRequests

(* A request replaces none, one or all of the headers.                     *)
LEMMA MutatesSome == \A p : MutateRequestHeaders(p) \in SUBSET MutatedHeaders
  BY DEF MutateRequestHeaders, MutatedHeaders

LEMMA RestStep == ASSUME RestTypes, DataNext PROVE RestTypes'
<1> USE DEF RestTypes, Arrive, counters, proxyControlVars
<1>P. ASSUME UNCHANGED proxyControlVars PROVE ProxyControlTypeOK'
  BY <1>P DEF ProxyControlTypeOK
<1>1. ASSUME NEW c \in Conns, HandleConnect(c) \/ ForwardHttpRequest(c) PROVE RestTypes'
  <2>1. requestsLeft' \in 0 .. MaxRequests
    BY <1>1 DEF HandleConnect, ForwardHttpRequest
  <2>2. rewritten' \in [Conns -> SUBSET MutatedHeaders]
    BY <1>1 DEF HandleConnect, ForwardHttpRequest
  <2> QED BY <1>1, <1>P, <2>1, <2>2 DEF HandleConnect, ForwardHttpRequest
<1>2. ASSUME NEW c \in Conns,
             \/ AcquireTunnel(c) \/ NoTarget(c) \/ RecordTotal(c) \/ RecordKind(c)
             \/ AnswerTimeout(c) \/ UpstreamAnswers(c) \/ UpstreamFails(c)
             \/ TunnelEnds(c) \/ Disconnect(c)
      PROVE  RestTypes'
  <2>1. UNCHANGED <<proxyControlVars, rewritten, timeouts, requestsLeft>>
    BY <1>2 DEF AcquireTunnel, NoTarget, RecordTotal, RecordKind, AnswerTimeout,
       UpstreamAnswers, UpstreamFails, TunnelEnds, Disconnect
  <2> QED BY <1>P, <2>1
<1>3. ASSUME NEW c \in Conns, ReadPersona(c) PROVE RestTypes'
  <2>1. rewritten' \in [Conns -> SUBSET MutatedHeaders]
    <3>1. PICK H \in SUBSET MutatedHeaders :
             rewritten' \in {rewritten, [rewritten EXCEPT ![c] = H]}
      BY <1>3, MutatesSome DEF ReadPersona
    <3> QED BY <3>1
  <2> QED BY <1>3, <1>P, <2>1 DEF ReadPersona
<1>4. ASSUME NEW c \in Conns, UpstreamTimeout(c) PROVE RestTypes'
  BY <1>4, <1>P DEF UpstreamTimeout
<1>5. ASSUME ChangePersona PROVE RestTypes'
  <2>1. ProxyControlTypeOK'
    BY <1>5 DEF ChangePersona, HandlePersonaPost, HandlePersonaDelete, ProxyControlTypeOK,
       MaybePersona
  <2> QED BY <1>5, <2>1 DEF ChangePersona, dataVars, requests
<1> QED BY <1>1, <1>2, <1>3, <1>4, <1>5 DEF DataNext, Handle

(* Type correctness.  Its hard part is the semaphore: there are never more *)
(* permits than max_connections, which needs that every one of them is     *)
(* matched by a request inside (PermitsMatch).                             *)
THEOREM DataTypeCorrect == DataSpec => []DataTypeOK
<1>1. DataInit => PoolInv /\ RestTypes
  <2> SUFFICES ASSUME DataInit PROVE RestTypes
    BY InitPool
  <2>1. ProxyControlTypeOK
    BY CliPersonaAssumption, ProxyAcceptsAssumption
    DEF DataInit, ProxyControlInit, ProxyControlTypeOK, MaybePersona
  <2> QED BY <2>1 DEF DataInit, RestTypes
<1>2. PoolInv /\ RestTypes /\ [DataNext]_dpVars => (PoolInv /\ RestTypes)'
  <2> SUFFICES ASSUME PoolInv, RestTypes, [DataNext]_dpVars
               PROVE  PoolInv' /\ RestTypes'
    OBVIOUS
  <2>1. CASE DataNext
    BY <2>1, TypesStep, PositionsStep, PoolEvent, PoolStep, RestStep DEF PoolInv
  <2>2. CASE UNCHANGED dpVars
    BY <2>2, PoolStutter DEF RestTypes, ProxyControlTypeOK, dpVars, proxyControlVars,
       dataVars, requests, counters
  <2> QED BY <2>1, <2>2
<1>3. PoolInv /\ RestTypes => DataTypeOK
  <2> SUFFICES ASSUME PoolInv, RestTypes PROVE DataTypeOK
    OBVIOUS
  <2>1. free \in 0 .. Permits
    <3>1. Permits \in Nat
      BY DEF Permits
    <3> QED BY <3>1, HoldersFinite DEF PoolInv, PermitsMatch
  <2> QED BY <2>1 DEF PoolInv, PoolTypes, RestTypes, DataTypeOK
<1> QED BY <1>1, <1>2, <1>3, PTL DEF DataSpec
=============================================================================
