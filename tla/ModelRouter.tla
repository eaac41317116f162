---------------------------- MODULE ModelRouter ----------------------------
(* EscalatingModelRouter and the providers under it.  A call is decided by *)
(* the escalation policy, tried on the local provider and, if that fails   *)
(* and the policy permits, recorded in the ledger and sent to the frontier *)
(* provider.  Calls share max_concurrent_streams slots of a semaphore.  A  *)
(* step runs from one await to the next: the semaphore, the HTTP exchange, *)
(* the sleep between transport attempts, the ledger append.                *)
EXTENDS Integers, FiniteSets

CONSTANTS
    Callers,              \* tasks that make one call each
    Requests,             \* what a call may ask for: [modality, mode, force, schema]
    Deployments,          \* how the router may be built: [local, frontier, key, ledger, mode]
    EscalateAtOrAbove,    \* rank of models.escalate_at_or_above
    ForbiddenModes,       \* models.escalation_forbidden_modes
    MaxConcurrentStreams, \* models.max_concurrent_streams
    MaxRetries,           \* models.max_retries: repairs of a structured answer
    MaxTransportRetries,  \* models.max_transport_retries
    Timeout,              \* request_timeout_seconds, the budget of one attempt
    BackoffBase, BackoffCap,
    RetryAfterCap,        \* _RETRY_AFTER_CAP_S
    Lateness              \* by how much a sleep may overrun

ASSUME SlotsAssumption == MaxConcurrentStreams \in Nat \ {0}
ASSUME TimesAssumption ==
    /\ {MaxRetries, MaxTransportRetries, BackoffBase, BackoffCap, RetryAfterCap, Lateness} \subseteq Nat
    /\ Timeout \in Nat \ {0}
    /\ \A n \in 0 .. MaxTransportRetries : 2^n \in Nat  \* the provers do not know powers
ASSUME RanksAssumption == EscalateAtOrAbove \in Int /\ \A r \in Requests : r.modality \in Int

VARIABLES
    deployment,  \* how this router was built
    request,     \* [Callers -> Requests]
    pc,          \* where each call waits, or how it ended
    at,          \* the provider of the invocation under way: "local" or "frontier"
    frame,       \* the locals of the invocation under way, see NoFrame
    free,        \* free slots of the semaphore
    ledger,      \* calls with a MODEL_ESCALATED event
    unaudited,   \* calls whose escalation was only logged: no ledger is attached
    contacted,   \* calls whose request was sent to the frontier provider
    probed,      \* modes in which healthcheck contacted the frontier provider
    closed       \* calls whose provider's httpx client was closed under them

vars == <<deployment, request, pc, at, frame, free, ledger,
          unaudited, contacted, probed, closed>>

Waits == {"start", "queued", "posting", "sleeping", "recording"}

Ends == {"returned", "unavailable", "structured output", "malformed schema", "client closed",
         "append failed", "cancelled"}
(* attempt: structured attempts made before this one; tries: transport     *)
(* attempts made before this one; spent: wall clock used by this           *)
(* _post_json; delay: the sleep under way.                                 *)

NoFrame == [attempt |-> 0, tries |-> 0, spent |-> 0, delay |-> 0]

HoldsSlot(c) == pc[c] \in {"posting", "sleeping"}

(* The providers, by the class that build_provider constructs.             *)
Kinds == {"echo", "ollama", "openai", "anthropic", "gemini"}

(* The registry maps every other name to the OpenAI-compatible class.      *)
build_provider(name) == IF name \in Kinds THEN name ELSE "openai"

build_local_provider(name) == IF name = "llamacpp" THEN "openai" ELSE build_provider(name)

build_frontier_provider(name) ==
    IF name = "none" THEN "none"
    ELSE IF name = "openai_compatible" THEN "openai" ELSE build_provider(name)

NeedsKey(kind) == kind \in {"anthropic", "gemini"}

(* What an endpoint may answer one POST with, and what _post_json makes of it. *)
Exchanges == {"timeout", "unreachable", "429", "5xx", "4xx", "not an object",
              "conforming", "nonconforming", "prose", "hollow"}

Retryable(x) == x \in {"timeout", "unreachable", "429", "5xx"}

Answered(x) == x \in {"conforming", "nonconforming", "prose", "hollow"}

(* complete() of each provider on an answered exchange: OpenAI-compatible, *)
(* Ollama and Gemini refuse an answer without choices, message or          *)
(* candidates; Anthropic reads it as an answer without text.               *)
complete_openai(x) == IF x = "hollow" THEN "unavailable" ELSE x

complete_ollama(x) == IF x = "hollow" THEN "unavailable" ELSE x

complete_gemini(x) == IF x = "hollow" THEN "unavailable" ELSE x

complete_anthropic(x) == x

(* The echo provider fails while failures are queued and answers a schema  *)
(* with a minimal instance, which may not conform.                         *)
complete_echo(r) ==
    {"returned", "unavailable"} \union (IF r.schema = "none" THEN {} ELSE {"structured output"})

Complete(kind, x) ==
    CASE kind = "openai" -> complete_openai(x)
      [] kind = "ollama" -> complete_ollama(x)
      [] kind = "gemini" -> complete_gemini(x)
      [] OTHER -> complete_anthropic(x)

(***************************************************************************)
(* The escalation policy                                                   *)
(***************************************************************************)
block_reasons_ModalityOnly(r) ==
    IF r.modality < EscalateAtOrAbove THEN {"modality_below_escalation_floor"} ELSE {}

block_reasons(r) ==
    (IF r.mode \in ForbiddenModes THEN {"permission_mode_forbids_escalation"} ELSE {})
    \union (IF r.modality < EscalateAtOrAbove THEN {"modality_below_escalation_floor"} ELSE {})

evaluate(r) == block_reasons(r) = {}

MaxModality == 3

HasFrontier == build_frontier_provider(deployment.frontier) # "none"

KindAt(p) ==
    IF p = "local"
    THEN build_local_provider(deployment.local)
    ELSE build_frontier_provider(deployment.frontier)

(***************************************************************************)
(* Waiting for a slot: _invoke up to the semaphore                         *)
(***************************************************************************)
Invoke(c, p) ==
    /\ pc' = [pc EXCEPT ![c] = "queued"]
    /\ at' = [at EXCEPT ![c] = p]
    /\ frame' = [frame EXCEPT ![c] = NoFrame]

End(c, how) ==
    /\ pc' = [pc EXCEPT ![c] = how]
    /\ frame' = [frame EXCEPT ![c] = NoFrame]
    /\ UNCHANGED at

(* Escalating: without a frontier the call fails, else it is recorded.     *)
Escalate(c) == End(c, IF HasFrontier THEN "recording" ELSE "unavailable")

(* complete / complete_structured: the policy is evaluated first; only a   *)
(* permitted call may be forced past the local provider.                   *)
Route(c) ==
    /\ pc[c] = "start"
    /\ IF evaluate(request[c]) /\ request[c].force THEN Escalate(c) ELSE Invoke(c, "local")
    /\ UNCHANGED <<deployment, request, free, ledger, unaudited, contacted, probed, closed>>

(* The end of an invocation with an error: the local provider's failure    *)
(* escalates if the policy permits; nothing else is caught.                *)
Fails(c, how) ==
    IF at[c] = "local" /\ how \in {"unavailable", "structured output"}
    THEN IF evaluate(request[c]) THEN Escalate(c) ELSE End(c, "unavailable")
    ELSE End(c, how)

(***************************************************************************)
(* One invocation of a provider                                            *)
(***************************************************************************)
(* _post_json up to its first await on the network; the request leaves.    *)
Post(c) ==
    /\ pc' = [pc EXCEPT ![c] = "posting"]
    /\ closed' = closed \ {c}
    /\ contacted' = IF at[c] = "frontier" THEN contacted \union {c} ELSE contacted

(* A slot is taken.  A malformed schema and a missing key are refused      *)
(* before anything is sent; the echo provider answers without a network.   *)
Start(c) ==
    LET kind == KindAt(at[c])
    IN  /\ pc[c] = "queued" /\ free > 0
        /\ IF request[c].schema = "malformed"
           THEN Fails(c, "malformed schema") /\ UNCHANGED <<free, contacted, closed>>
           ELSE IF NeedsKey(kind) /\ ~deployment.key
           THEN Fails(c, "unavailable") /\ UNCHANGED <<free, contacted, closed>>
           ELSE IF kind = "echo"
           THEN /\ \E r \in complete_echo(request[c]) :
                     IF r = "returned" THEN End(c, r) ELSE Fails(c, r)
                /\ UNCHANGED <<free, contacted, closed>>
           ELSE Post(c) /\ free' = free - 1 /\ UNCHANGED <<at, frame>>
    /\ UNCHANGED <<deployment, request, ledger, unaudited, probed>>

MaxAttempts == MaxTransportRetries + 1

Deadline == Timeout * MaxAttempts

Least(a, b) == IF a < b THEN a ELSE b

(* The wait before the next attempt: Retry-After on a 429, capped, or the  *)
(* capped exponential back-off.                                            *)
MaxBackoffExponent == 62

Delays(c, x) ==
    (IF x = "429" THEN 0 .. RetryAfterCap ELSE {})
    \union {Least(BackoffBase * 2^Least(frame[c].tries, MaxBackoffExponent), BackoffCap)}

(* An attempt ends as an error: raised if it is not transient, if it was   *)
(* the last one or if the sleep would pass the deadline.                   *)
GivesUp(c, x, now, d) == ~Retryable(x) \/ frame[c].tries >= MaxAttempts - 1 \/ now + d >= Deadline

(* complete_structured after an answer: a conforming one is returned, any  *)
(* other is repaired by asking again until max_retries is used up.         *)
Repairs(c) == frame[c].attempt < MaxRetries

NextAttempt_NotCounted(c) == NoFrame

NextAttempt(c) == [NoFrame EXCEPT !.attempt = frame[c].attempt + 1]

Judge(c, answer) ==
    CASE answer = "unavailable" ->
           Fails(c, "unavailable") /\ free' = free + 1 /\ UNCHANGED <<contacted, closed>>
      [] answer # "unavailable" /\ (request[c].schema = "none" \/ answer = "conforming") ->
           End(c, "returned") /\ free' = free + 1 /\ UNCHANGED <<contacted, closed>>
      [] OTHER ->
           IF Repairs(c)
           THEN /\ Post(c)
                /\ frame' = [frame EXCEPT ![c] = NextAttempt(c)]
                /\ UNCHANGED <<at, free>>
           ELSE Fails(c, "structured output") /\ free' = free + 1 /\ UNCHANGED <<contacted, closed>>

(* How long one POST may take: it is given the lesser of its own timeout   *)
(* and what is left of the deadline, and a timeout uses all of it.         *)
Budget(c) == Least(Timeout, Deadline - frame[c].spent)

Durations(c, x) == IF x = "timeout" THEN {Budget(c)} ELSE 0 .. Budget(c)

(* One POST ends.                                                          *)
Exchange(c) ==
    /\ pc[c] = "posting"
    /\ \E x \in IF c \in closed THEN {"unreachable"} ELSE Exchanges : \E took \in Durations(c, x) :
         LET now == frame[c].spent + took
         IN  IF Answered(x)
             THEN Judge(c, Complete(KindAt(at[c]), x))
             ELSE \E d \in Delays(c, x) :
                    IF GivesUp(c, x, now, d)
                    THEN Fails(c, "unavailable") /\ free' = free + 1 /\ UNCHANGED <<contacted, closed>>
                    ELSE /\ pc' = [pc EXCEPT ![c] = "sleeping"]
                         /\ frame' = [frame EXCEPT ![c].spent = now, ![c].delay = d]
                         /\ UNCHANGED <<at, free, contacted, closed>>
    /\ UNCHANGED <<deployment, request, ledger, unaudited, probed>>

(* The sleep ends, possibly late, and the next attempt starts unless the   *)
(* deadline has passed; then the previous error is raised.                 *)
Wake(c) ==
    /\ pc[c] = "sleeping"
    /\ \E late \in 0 .. Lateness :
         LET now == frame[c].spent + frame[c].delay + late
         IN  IF now >= Deadline
             THEN Fails(c, "unavailable") /\ free' = free + 1
             ELSE /\ pc' = [pc EXCEPT ![c] = "posting"]
                  /\ frame' = [frame EXCEPT ![c].tries = @ + 1, ![c].spent = now, ![c].delay = 0]
                  /\ UNCHANGED <<at, free>>
    /\ UNCHANGED <<deployment, request, ledger, unaudited, contacted, probed, closed>>

(* aclose() of a provider while calls hold its client: the exchange under  *)
(* way breaks off, and the next use of the client raises an error that is  *)
(* not an httpx.HTTPError.  A later call opens a new client.               *)
Aclose(p) ==
    LET holders == {c \in Callers : HoldsSlot(c) /\ at[c] = p}
    IN  /\ ~(holders \subseteq closed)
        /\ closed' = closed \union holders
        /\ UNCHANGED <<deployment, request, pc, at, frame, free, ledger, unaudited, contacted, probed>>

PostOnClosed(c) ==
    /\ pc[c] = "posting" /\ c \in closed
    /\ Fails(c, "client closed")
    /\ free' = free + 1
    /\ UNCHANGED <<deployment, request, ledger, unaudited, contacted, probed, closed>>

(***************************************************************************)
(* The ledger event of an escalation                                       *)
(***************************************************************************)
(* With no ledger the crossing is only logged.  The event's key holds its  *)
(* own uuid4, so the append is never suppressed as a duplicate; when it    *)
(* raises, the frontier is not called.                                     *)
RecordEscalation(c) ==
    /\ pc[c] = "recording"
    /\ \/ /\ deployment.ledger
          /\ ledger' = ledger \union {c}
          /\ Invoke(c, "frontier") /\ UNCHANGED unaudited
       \/ deployment.ledger /\ End(c, "append failed") /\ UNCHANGED <<ledger, unaudited>>
       \/ /\ ~deployment.ledger
          /\ unaudited' = unaudited \union {c}
          /\ Invoke(c, "frontier") /\ UNCHANGED ledger
    /\ UNCHANGED <<deployment, request, free, contacted, probed, closed>>

(* A task that makes a call is cancelled while it waits.  The semaphore is *)
(* released by its context manager; the append may have happened.          *)
Cancel(c) ==
    /\ pc[c] \in Waits \ {"start"}
    /\ End(c, "cancelled")
    /\ free' = IF HoldsSlot(c) THEN free + 1 ELSE free
    /\ ledger' \in IF pc[c] = "recording" /\ deployment.ledger
                   THEN {ledger, ledger \union {c}} ELSE {ledger}
    /\ UNCHANGED <<deployment, request, unaudited, contacted, probed, closed>>

(* healthcheck(): the frontier is probed only in a mode that permits       *)
(* escalation of the highest modality; the mode is the router's own unless *)
(* the caller passes one.  Anthropic and Gemini only look for their key.   *)
Healthcheck ==
    \E mode \in {deployment.mode} \union {request[c].mode : c \in Callers} :
        /\ HasFrontier
        /\ evaluate([modality |-> MaxModality, mode |-> mode])
        /\ ~NeedsKey(KindAt("frontier")) /\ KindAt("frontier") # "echo"
        /\ probed' = probed \union {mode}
        /\ UNCHANGED <<deployment, request, pc, at, frame, free, ledger,
                       unaudited, contacted, closed>>

(***************************************************************************)
(* The specification                                                       *)
(***************************************************************************)
Init ==
    /\ deployment \in Deployments
    /\ request \in [Callers -> Requests]
    /\ pc = [c \in Callers |-> "start"]
    /\ at = [c \in Callers |-> "local"]
    /\ frame = [c \in Callers |-> NoFrame]
    /\ free = MaxConcurrentStreams
    /\ ledger = {} /\ unaudited = {} /\ contacted = {} /\ probed = {} /\ closed = {}

Step(c) ==
    \/ Route(c) \/ Start(c) \/ Exchange(c) \/ Wake(c) \/ PostOnClosed(c) \/ RecordEscalation(c)

Next ==
    \/ \E c \in Callers : Step(c) \/ Cancel(c)
    \/ \E p \in {"local", "frontier"} : Aclose(p)
    \/ Healthcheck

Spec == Init /\ [][Next]_vars
(* A call in progress is run by the event loop; HTTP exchanges end because *)
(* httpx enforces the timeout they are given.                              *)

FairSpec == Spec /\ \A c \in Callers : WF_vars(Step(c))

(***************************************************************************)
(* Properties                                                              *)
(***************************************************************************)
TypeOK ==
    /\ deployment \in Deployments
    /\ request \in [Callers -> Requests]
    /\ pc \in [Callers -> Waits \union Ends]
    /\ at \in [Callers -> {"local", "frontier"}]
    /\ frame \in [Callers -> [attempt : Nat, tries : Nat, spent : Nat, delay : Nat]]
    /\ free \in Nat
    /\ ledger \subseteq Callers /\ unaudited \subseteq Callers /\ contacted \subseteq Callers

(* No request reaches the frontier provider unless its own permission mode *)
(* and modality allow it and its MODEL_ESCALATED event is in the ledger    *)
(* (or the crossing is logged as unaudited, when no ledger is attached),   *)
(* whatever failed, was retried or was cancelled on the way.  No probe     *)
(* contacts the frontier in a forbidden mode either.                       *)
EgressIsPermittedAndRecorded ==
    /\ \A c \in contacted :
         /\ request[c].mode \notin ForbiddenModes
         /\ request[c].modality >= EscalateAtOrAbove
         /\ IF deployment.ledger THEN c \in ledger ELSE c \in unaudited
    /\ probed \intersect ForbiddenModes = {}

(* The slots in use are those of the calls that talk to a provider: no     *)
(* error, retry, escalation or cancellation leaks or frees a slot twice.   *)
SlotsBalance == free + Cardinality({c \in Callers : HoldsSlot(c)}) = MaxConcurrentStreams

(* One _post_json never outlives request_timeout * (transport retries + 1) *)
(* however attempts, Retry-After and back-off add up; a new attempt starts *)
(* with time left on its budget.                                           *)
WithinDeadline ==
    \A c \in Callers :
        /\ pc[c] = "posting" => frame[c].spent < Deadline
        /\ pc[c] = "sleeping" => frame[c].spent + frame[c].delay < Deadline
        /\ frame[c].tries < MaxAttempts

(* Every call that was begun ends: retries, repairs and the wait for a     *)
(* slot all stop.  A caller makes one call, and an end is final.           *)
EveryCallEnds == []<>(\A c \in Callers : pc[c] \in {"start"} \union Ends)

\* Nothing leaves the host unless policy lets it and the ledger shows it, slots
\* come back however a call ends, and a call keeps its time budget.
RouterSound ==
    TypeOK /\ EgressIsPermittedAndRecorded /\ SlotsBalance /\ WithinDeadline
=============================================================================
