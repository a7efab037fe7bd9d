------------------------------ MODULE DataPlane ------------------------------
(***************************************************************************)
(* The traffic side of the proxy (src/proxy/src/proxy.rs:374-488, headers. *)
(* rs, metrics.rs): CONNECT tunnels and forwarded requests, which run on   *)
(* several threads, share a semaphore, the active persona and the          *)
(* counters, and wait for upstream servers.                                *)
(*                                                                         *)
(* A permit is returned by its destructor, on every way out of a handler;  *)
(* so it is also when hyper drops the handler of a client that has gone.   *)
(***************************************************************************)
EXTENDS ProxyControl, Naturals, FiniteSets

CONSTANTS
    Conns,          \* slots for requests under way: bounds their number
    MaxConnections, \* config.proxy.max_connections
    BadHeader,      \* per persona: the header its value is not legal for
    MaxRequests     \* bounds how many requests come in a behaviour

MutatedHeaders == {"user-agent", "accept-language", "sec-ch-ua-platform"}

ASSUME ConnsAssumption == IsFiniteSet(Conns)

ASSUME MaxConnectionsAssumption == MaxConnections \in Nat

ASSUME BadHeaderAssumption ==
    BadHeader \in [Personas -> {"none", "user-agent", "accept-language"}]

ASSUME BoundsAssumption == MaxRequests \in Nat

VARIABLES
    free,        \* available permits
    at, kind,    \* per request: where it is; "connect" or "forward"
    rewritten,   \* per request: the headers that were replaced
    isMutated,   \* per request: the flag that goes into the counters
    answer,      \* per request: the status it was answered with
    total, mutated, passthrough, timeouts,  \* the counters
    requestsLeft                \* how many requests may still come

counters == <<total, mutated, passthrough, timeouts>>
requests == <<at, kind, rewritten, isMutated, answer>>
dataVars == <<free, requests, counters, requestsLeft>>
dpVars == <<proxyControlVars, dataVars>>

Permits == IF MaxConnections < 1 THEN 1 ELSE MaxConnections

Ats == {"idle", "countKind", "acquire", "target", "countTotal", "upstream", "timedOut", "tunnel"}
Answers == {"none", "ok", "refused", "bad gateway", "gateway timeout"}

DataTypeOK ==
    /\ ProxyControlTypeOK
    /\ free \in 0 .. Permits
    /\ at \in [Conns -> Ats]
    /\ kind \in [Conns -> {"connect", "forward"}]
    /\ rewritten \in [Conns -> SUBSET MutatedHeaders]
    /\ isMutated \in [Conns -> BOOLEAN]
    /\ answer \in [Conns -> Answers]
    /\ total \in Nat /\ mutated \in Nat /\ passthrough \in Nat /\ timeouts \in Nat
    /\ requestsLeft \in 0 .. MaxRequests

DataInit ==
    /\ ProxyControlInit
    /\ proxyUp
    /\ free = Permits
    /\ at = [c \in Conns |-> "idle"]
    /\ kind = [c \in Conns |-> "connect"]
    /\ rewritten = [c \in Conns |-> {}]
    /\ isMutated = [c \in Conns |-> FALSE]
    /\ answer = [c \in Conns |-> "none"]
    /\ total = 0 /\ mutated = 0 /\ passthrough = 0 /\ timeouts = 0
    /\ requestsLeft = MaxRequests

-----------------------------------------------------------------------------
Move(c, from, to) == at[c] = from /\ at' = [at EXCEPT ![c] = to]

Answer(c, status) == answer' = [answer EXCEPT ![c] = status]

\* Mutant: an error response forgets the permit.
FinishForgetting(c, from, status) ==
    /\ Move(c, from, "idle")
    /\ Answer(c, status)
    /\ free' = IF status = "bad gateway" THEN free ELSE free + 1

(* The handler returns, and with it the permit.                            *)
Finish(c, from, status) ==
    /\ Move(c, from, "idle")
    /\ Answer(c, status)
    /\ free' = free + 1

\* Mutant: a refused request returns the permit it never had.
TryAcquireReturning(c, from, to) ==
    \/ /\ free > 0
       /\ free' = free - 1
       /\ Move(c, from, to)
       /\ Answer(c, "none")
    \/ /\ free = 0
       /\ free' = 1
       /\ Move(c, from, "idle")
       /\ Answer(c, "refused")

(* try_acquire_owned, which does not wait.                                 *)
TryAcquire(c, from, to) ==
    \/ /\ free > 0
       /\ free' = free - 1
       /\ Move(c, from, to)
       /\ Answer(c, "none")
    \/ /\ free = 0
       /\ Move(c, from, "idle")
       /\ Answer(c, "refused")
       /\ UNCHANGED free

Arrive == requestsLeft > 0 /\ requestsLeft' = requestsLeft - 1

\* Mutant: tunnels are not counted as passed through.
CountKindOfForwards(c) ==
    IF isMutated[c]
    THEN mutated' = mutated + 1 /\ UNCHANGED passthrough
    ELSE /\ passthrough' = IF kind[c] = "forward" THEN passthrough + 1 ELSE passthrough
         /\ UNCHANGED mutated

(* The second half of record_request.                                      *)
CountKind(c) ==
    IF isMutated[c]
    THEN mutated' = mutated + 1 /\ UNCHANGED passthrough
    ELSE passthrough' = passthrough + 1 /\ UNCHANGED mutated

-----------------------------------------------------------------------------
(* handle_connect: counted as passed through before it has a permit.       *)
HandleConnect(c) ==
    /\ Move(c, "idle", "countKind")
    /\ kind' = [kind EXCEPT ![c] = "connect"]
    /\ rewritten' = [rewritten EXCEPT ![c] = {}]
    /\ isMutated' = [isMutated EXCEPT ![c] = FALSE]
    /\ Answer(c, "none")
    /\ Arrive
    /\ total' = total + 1
    /\ UNCHANGED <<proxyControlVars, free, mutated, passthrough, timeouts>>

AcquireTunnel(c) ==
    /\ TryAcquire(c, "acquire", "upstream")
    /\ UNCHANGED <<proxyControlVars, requestsLeft, kind, rewritten, isMutated, counters>>

(* forward_http_request: the permit comes first.                           *)
ForwardHttpRequest(c) ==
    /\ Arrive
    /\ TryAcquire(c, "idle", "target")
    /\ kind' = [kind EXCEPT ![c] = "forward"]
    /\ rewritten' = [rewritten EXCEPT ![c] = {}]
    /\ isMutated' = [isMutated EXCEPT ![c] = FALSE]
    /\ UNCHANGED <<proxyControlVars, counters>>

(* A request without a usable target.                                      *)
NoTarget(c) ==
    /\ Finish(c, "target", "bad gateway")
    /\ UNCHANGED <<proxyControlVars, requestsLeft, kind, rewritten, isMutated, counters>>

(* mutate_request_headers stops at the first value that is not legal.      *)
(* Requests here carry sec-ch-ua-platform; to others it is not added.      *)
MutateRequestHeaders(p) ==
    CASE BadHeader[p] = "user-agent"      -> {}
      [] BadHeader[p] = "accept-language" -> {"user-agent"}
      [] OTHER                            -> MutatedHeaders

(* The persona is read once; it may be replaced while the request goes on. *)
ReadPersona(c) ==
    /\ Move(c, "target", "countTotal")
    /\ IF proxyPersona = NoPersona
       THEN UNCHANGED <<rewritten, isMutated>>
       ELSE /\ rewritten' = [rewritten EXCEPT ![c] = MutateRequestHeaders(proxyPersona)]
            /\ isMutated' = [isMutated EXCEPT ![c] = BadHeader[proxyPersona] = "none"]
    /\ UNCHANGED <<proxyControlVars, requestsLeft, free, kind, answer, counters>>

RecordTotal(c) ==
    /\ Move(c, "countTotal", "countKind")
    /\ total' = total + 1
    /\ UNCHANGED <<proxyControlVars, requestsLeft, free, kind, rewritten, isMutated, answer,
                   mutated, passthrough, timeouts>>

RecordKind(c) ==
    /\ Move(c, "countKind", IF kind[c] = "connect" THEN "acquire" ELSE "upstream")
    /\ CountKind(c)
    /\ UNCHANGED <<proxyControlVars, requestsLeft, free, kind, rewritten, isMutated, answer,
                   total, timeouts>>

(* The upstream server accepts the connection, or sends a response head:   *)
(* a tunnel keeps its permit, the body of a response streams without one.  *)
UpstreamAnswers(c) ==
    /\ \/ /\ kind[c] = "connect"
          /\ Move(c, "upstream", "tunnel")
          /\ Answer(c, "ok")
          /\ UNCHANGED free
       \/ /\ kind[c] = "forward"
          /\ Finish(c, "upstream", "ok")
    /\ UNCHANGED <<proxyControlVars, requestsLeft, kind, rewritten, isMutated, counters>>

UpstreamFails(c) ==
    /\ Finish(c, "upstream", "bad gateway")
    /\ UNCHANGED <<proxyControlVars, requestsLeft, kind, rewritten, isMutated, counters>>

\* Mutant: only the set-up of a tunnel has a timeout.
UpstreamTimeoutOfTunnels(c) ==
    /\ kind[c] = "connect"
    /\ Move(c, "upstream", "timedOut")
    /\ timeouts' = timeouts + 1
    /\ UNCHANGED <<proxyControlVars, requestsLeft, free, kind, rewritten, isMutated, answer,
                   total, mutated, passthrough>>

(* request_timeout_ms is over: first the counter, then the permit.         *)
UpstreamTimeout(c) ==
    /\ Move(c, "upstream", "timedOut")
    /\ timeouts' = timeouts + 1
    /\ UNCHANGED <<proxyControlVars, requestsLeft, free, kind, rewritten, isMutated, answer,
                   total, mutated, passthrough>>

AnswerTimeout(c) ==
    /\ Finish(c, "timedOut", "gateway timeout")
    /\ UNCHANGED <<proxyControlVars, requestsLeft, kind, rewritten, isMutated, counters>>

(* The two ends of a tunnel decide when it ends; it has no timeout.        *)
TunnelEnds(c) ==
    /\ Finish(c, "tunnel", "ok")
    /\ UNCHANGED <<proxyControlVars, requestsLeft, kind, rewritten, isMutated, counters>>

(* The client goes away while its handler awaits something.                *)
Disconnect(c) ==
    /\ at[c] \in {"target", "upstream"}
    /\ Finish(c, at[c], "none")
    /\ UNCHANGED <<proxyControlVars, requestsLeft, kind, rewritten, isMutated, counters>>

(* POST and DELETE /persona, meanwhile.                                    *)
ChangePersona ==
    /\ \/ \E p \in Personas : HandlePersonaPost(p)
       \/ HandlePersonaDelete
    /\ UNCHANGED dataVars

-----------------------------------------------------------------------------
(* What a handler does by itself, its timeout included.                    *)
Handle(c) ==
    \/ AcquireTunnel(c) \/ NoTarget(c) \/ ReadPersona(c) \/ RecordTotal(c)
    \/ RecordKind(c) \/ UpstreamTimeout(c) \/ AnswerTimeout(c)

DataNext ==
    \/ \E c \in Conns :
         \/ HandleConnect(c) \/ ForwardHttpRequest(c) \/ Handle(c)
         \/ UpstreamAnswers(c) \/ UpstreamFails(c) \/ TunnelEnds(c) \/ Disconnect(c)
    \/ ChangePersona

DataSpec == DataInit /\ [][DataNext]_dpVars

(* The runtime runs every handler and every timer.  Nothing is assumed of  *)
(* upstream servers, clients and the ends of a tunnel.                     *)
FairDataSpec == DataSpec /\ \A c \in Conns : WF_dpVars(Handle(c))

-----------------------------------------------------------------------------
(* Who is entitled to a permit.                                            *)
Holders ==
    {c \in Conns : \/ at[c] \in {"target", "upstream", "timedOut", "tunnel"}
                   \/ kind[c] = "forward" /\ at[c] \in {"countTotal", "countKind"}}

Refused == {c \in Conns : answer[c] = "refused"}

Pool == INSTANCE BoundedPool WITH
    Users <- Conns, Size <- Permits, holders <- Holders, refused <- Refused

(* On every way out of a handler the permit comes back, once: there are    *)
(* never more requests inside than max_connections, and 503 is sent only   *)
(* when there are that many (proxy.rs:379-386, 438-446).                   *)
ImplementsPool == Pool!PoolSpec

(* Whatever an upstream server does, a forwarded request or a tunnel being *)
(* set up ends and returns its permit (proxy.rs:389, 476).  An established *)
(* tunnel does not.                                                        *)
HoldsBriefly == \A c \in Conns : c \in Holders ~> c \notin Holders \/ at[c] = "tunnel"

BetweenCounters == {c \in Conns : at[c] = "countKind"}

(* Every request that was counted is counted as mutated or as passed       *)
(* through, with those that are just between the two counters (metrics.rs: *)
(* 63-68).  A snapshot (metrics.rs:39) promises less: its loads are        *)
(* Relaxed and come one after the other, so that nothing is said of it.    *)
CountersAgree == total = mutated + passthrough + Cardinality(BetweenCounters)

=============================================================================
