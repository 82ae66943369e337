--------------------------- MODULE OutboundCalls ---------------------------
(***************************************************************************)
(* The calls the orchestrator makes to other services: the hardened HTTP   *)
(* client (adapters/outbound/http_base) under the governance, memory and   *)
(* runtime clients, with its retry loop and its circuit breaker, and the   *)
(* agent dispatchers (adapters/outbound/dispatcher) that run on the        *)
(* runtime client or on the MCP bridge.                                    *)
(*                                                                         *)
(* A goroutine makes one call after the other.  Any request may be         *)
(* answered well or badly, lose its answer after it was processed, time    *)
(* out or have its context cancelled; hits counts, for a call, the         *)
(* requests its upstream has processed.  A breaker's generation number is  *)
(* kept as the flag stale of the calls admitted before it changed.         *)
(***************************************************************************)
EXTENDS Integers, FiniteSets

CONSTANTS
  Callers,             \* goroutines
  ServiceOps,          \* the governance and memory operations in use
  Targets,             \* the services behind an HTTP client
  Phases,              \* phase types that dispatch an agent
  ProviderByPhase,     \* config.Dispatcher.ProviderByPhase, "" when unset
  DefaultProvider,     \* config.Dispatcher.Provider
  OptIn,               \* the optional adapters with a configured command or URL
  MCPProvider,         \* config.Dispatcher.MCP.Provider, "" when unset
  OllamaModel,         \* the model ollama is given for a phase, "" when unset
  Attempts,            \* http_base.DefaultConfig MaxAttempts
  CBFailureThreshold   \* http_base.DefaultConfig CBFailureThreshold

VARIABLES
  breaker,   \* the circuit breaker of each target
  call,      \* the call each goroutine is making
  failed,    \* history: the calls to a target that failed in a row
  last       \* history: the call that has just returned

vars == << breaker, call, failed, last >>

GovernanceOps == {"evaluate_phase", "evaluate_sensitive"}

MemoryOps ==
  { "ingest", "get", "archive", "search", "build_context", "record_decision",
    "record_relation" }

-----------------------------------------------------------------------------
(* Configuration.                                                          *)

(* Mutant: two probes at a time.                                           *)
HalfOpenMaxTwo == 2

HalfOpenMaxRequests == 1

(* Mutant: the runtime keeps the default of the shared client.             *)
MaxAttemptsDefault(t) == Attempts

(* runtime.DefaultConfig: "replay-everything; we don't retry on top".      *)
MaxAttempts(t) == IF t = "runtime" THEN 1 ELSE Attempts

(* Mutant: one client for both targets.                                    *)
ClientOfShared(t) == "runtime"

(* Wire builds one http_base client, hence one breaker, for each target.   *)
ClientOf(t) == t

(* The factory: the opencode adapter is registered under the default name, *)
(* the optional ones under theirs, and may replace it.                     *)
Register(name) ==
  IF name \in OptIn THEN name
  ELSE IF name = DefaultProvider THEN "opencode" ELSE "none"

(* WrappingDispatcher.adapterFor: an unknown name falls back.              *)
AdapterFor(p) ==
  IF ProviderByPhase[p] # "" /\ Register(ProviderByPhase[p]) # "none"
  THEN Register(ProviderByPhase[p])
  ELSE Register(DefaultProvider)

-----------------------------------------------------------------------------
(* Operations.  All operations of the governance and memory clients behave *)
(* alike, except that the two lookups of a record ("get") turn a 404 into  *)
(* ErrNotFound.  An agent adapter is an operation of its own.              *)

Adapters == {"opencode", "aider", "ollama", "mcp"}

Operations == ServiceOps \cup { AdapterFor(p) : p \in Phases }

TargetOf(op) ==
  CASE op \in GovernanceOps -> "governance"
    [] op \in MemoryOps     -> "memory"
    [] op = "mcp"           -> "bridge"
    [] OTHER                -> "runtime"

ASSUME CallsAssumption ==
  /\ Attempts \in Nat \ {0}
  /\ CBFailureThreshold \in Nat \ {0}
  /\ ServiceOps \subseteq GovernanceOps \cup MemoryOps
  /\ OptIn \subseteq {"ollama", "aider", "mcp"}
  /\ Targets = { TargetOf(op) : op \in Operations } \ {"bridge"}

(* What refuses a call before anything is sent: a lookup without project   *)
(* or topic key, ollama without a model, MCP without a provider.           *)
Refused(op, valid) ==
  \/ op = "get" /\ ~valid
  \/ op = "ollama" /\ OllamaModel = ""
  \/ op = "mcp" /\ MCPProvider = ""

Idle == [ at |-> "idle", op |-> "none", attempt |-> 0, hits |-> 0,
          stale |-> FALSE ]

Started(op, at) == [ at |-> at, op |-> op, attempt |-> 0, hits |-> 0, stale |-> FALSE ]

(* The co-occurrence guard: a transport token and a quota token.           *)
DetectProviderQuota(r) == r.tokens = {"transport", "quota"}

NoReceipt == [ status |-> "none", tokens |-> {}, stdout |-> "none" ]

Returned(op, result, hits, attempt, r) ==
  [ op |-> op, result |-> result, hits |-> hits, attempt |-> attempt,
    status |-> r.status, quota |-> DetectProviderQuota(r) ]

NoReturn == Returned("none", "none", 0, 0, NoReceipt)

Return(c, result, hits, receipt) ==
  last' = Returned(call[c].op, result, hits, call[c].attempt, receipt)

InFlight(t) == { c \in Callers : call[c].at = "send" /\ ClientOf(TargetOf(call[c].op)) = t }

Fresh(t) == { c \in InFlight(t) : ~call[c].stale }

-----------------------------------------------------------------------------
(* The breaker (sony/gobreaker), as http_base.New configures it.           *)

Closed == [ state |-> "closed", requests |-> 0, fails |-> 0 ]

Admits(b) ==
  \/ b.state = "closed"
  \/ b.state = "half_open" /\ b.requests < HalfOpenMaxRequests

ReadyToTrip(fails) == fails >= CBFailureThreshold

(* The counters after a result of the current generation.                  *)
AfterRequest(b, success) ==
  CASE success /\ b.state = "half_open" -> Closed
    [] success /\ b.state = "closed"    -> [ b EXCEPT !.fails = 0 ]
    [] ~success /\ b.state = "closed" /\ ~ReadyToTrip(b.fails + 1) ->
         [ b EXCEPT !.fails = @ + 1 ]
    [] OTHER -> [ Closed EXCEPT !.state = "open" ]

(* A new generation begins whenever the state changes.                     *)
Aged(t, calls) ==
  [ c \in Callers |-> IF c \in InFlight(t) /\ calls[c].at = "send"
                      THEN [ calls[c] EXCEPT !.stale = TRUE ] ELSE calls[c] ]

(* Mutant: a failed probe is not reported to the breaker.                  *)
SettleNotProbe(c, success) ==
  LET t == ClientOf(TargetOf(call[c].op))
      b == IF call[c].stale \/ (breaker[t].state = "half_open" /\ ~success)
           THEN breaker[t] ELSE AfterRequest(breaker[t], success)
      done == [ call EXCEPT ![c] = Idle ]
  IN /\ breaker' = [ breaker EXCEPT ![t] = b ]
     /\ call' = IF b.state # breaker[t].state THEN Aged(t, done) ELSE done

(* The call of c returns with the given verdict for the breaker.           *)
Settle(c, success) ==
  LET t == ClientOf(TargetOf(call[c].op))
      b == IF call[c].stale THEN breaker[t] ELSE AfterRequest(breaker[t], success)
      done == [ call EXCEPT ![c] = Idle ]
  IN /\ breaker' = [ breaker EXCEPT ![t] = b ]
     /\ call' = IF b.state # breaker[t].state THEN Aged(t, done) ELSE done

(* History, kept for the target itself: how many of its calls failed since *)
(* one succeeded or its breaker closed, stragglers of an earlier           *)
(* generation aside.                                                       *)
Count(c, failure) ==
  failed' = [ u \in Targets |->
    IF breaker'[u].state = "closed" /\ breaker[u].state # "closed" THEN 0
    ELSE IF u # TargetOf(call[c].op) \/ call[c].stale THEN failed[u]
    ELSE IF ~failure THEN 0
    ELSE IF failed[u] < CBFailureThreshold THEN failed[u] + 1 ELSE failed[u] ]

(* The open duration elapses: the next look at the breaker finds it half   *)
(* open.                                                                   *)
OpenExpires(t) ==
  /\ breaker[t].state = "open"
  /\ breaker' = [ breaker EXCEPT ![t] = [ Closed EXCEPT !.state = "half_open" ] ]
  /\ call' = Aged(t, call)
  /\ last' = NoReturn
  /\ UNCHANGED failed

-----------------------------------------------------------------------------
(* What a completed request means to the operation.                        *)

(* A runtime receipt: the status of the process, the kinds of quota token  *)
(* its output holds, and the form of its standard output: a fenced object, *)
(* an event stream whose text is one, fenced or bare, or neither.          *)
Receipts ==
  [ status : {"success", "failed"}, tokens : {{}, {"transport"}, {"transport", "quota"}},
    stdout : {"fence", "stream", "prose"} ]

(* extractEnvelopeRaw: a fence in the raw output, else a fence or a bare   *)
(* object in the text collected from the event stream.                     *)
HasEnvelope(r) == r.stdout \in {"fence", "stream"}

(* Mutant: the status decides before the quota tokens are looked for.      *)
OpencodeResultStatusFirst(r) ==
  IF r.status # "success" THEN "dispatch_failed"
  ELSE IF HasEnvelope(r) THEN "envelope" ELSE "no_envelope"

(* The quota tokens are looked for in every receipt, successful or not.    *)
OpencodeResult(r) ==
  IF DetectProviderQuota(r) THEN "quota_exceeded"
  ELSE IF r.status # "success" THEN "dispatch_failed"
  ELSE IF HasEnvelope(r) THEN "envelope" ELSE "no_envelope"

OllamaResult(r) ==
  IF r.status # "success" THEN "dispatch_failed"
  ELSE IF r.stdout = "fence" THEN "envelope" ELSE "no_envelope"

(* aider never has an envelope: the caller synthesizes one from git.       *)
AiderResult(r) == IF r.status # "success" THEN "dispatch_failed" ELSE "edits"

DispatchResult(op, r) ==
  CASE op = "opencode" -> OpencodeResult(r)
    [] op = "ollama"   -> OllamaResult(r)
    [] op = "aider"    -> AiderResult(r)

(* The result of an operation whose request was answered with a 2xx.       *)
Answered(op, r) == IF TargetOf(op) = "runtime" THEN DispatchResult(op, r) ELSE "ok"

(* isNotFound: the reads tell a 404 from the other client errors.          *)
ClientError(op, answer) ==
  IF op = "get" /\ answer = "missing" THEN "not_found" ELSE "http_error"

(* callSDK and Dispatch: what each outcome of the tool call becomes.       *)
BridgeResult(outcome) ==
  CASE outcome = "call_failed"      -> "transport_error"
    [] outcome = "is_error"         -> "provider_error"
    [] outcome = "status_error"     -> "provider_error"
    [] outcome = "no_text"          -> "envelope_error"
    [] outcome = "auto_rejected"    -> "permission_denied"
    [] outcome = "no_envelope"      -> "envelope_error"
    [] outcome = "not_an_object"    -> "envelope_error"
    [] outcome = "object"           -> "envelope"

BridgeOutcomes ==
  { "call_failed", "is_error", "status_error", "no_text", "auto_rejected",
    "no_envelope", "not_an_object", "object" }

-----------------------------------------------------------------------------
(* One request of the retry loop.  A reset connection was not processed;   *)
(* a lost or cut answer was; after a 5xx it may have been, and neither a   *)
(* timeout nor a cancellation ("gone") tells.                              *)

Answers ==
  {"ok", "missing", "refused", "garbled", "5xx", "reset", "lost", "cut", "gone"}

Processed(answer) ==
  CASE answer \in {"ok", "garbled", "lost", "cut"}  -> {1}
    [] answer \in {"reset", "missing", "refused"}   -> {0}
    [] OTHER                                        -> {0, 1}

(* A context error is not retried, a 4xx is an answer.                     *)
Retryable(answer) == answer \in {"5xx", "reset", "lost", "cut"}

LastAttempt(c) == call[c].attempt + 1 >= MaxAttempts(TargetOf(call[c].op))

(* executeWithRetry: back off and try again, within the one breaker call.  *)
Retry(c, answer, hits) ==
  /\ call' = [ call EXCEPT ![c].attempt = @ + 1, ![c].hits = hits ]
  /\ last' = NoReturn
  /\ UNCHANGED << breaker, failed >>

(* do: a 5xx, a network error and a context error fail the breaker; a 4xx  *)
(* and an undecodable body do not.                                         *)
CountsAsFailure(answer) == Retryable(answer) \/ answer = "gone"

ErrorOf(op, answer) ==
  CASE answer \in {"missing", "refused"} -> ClientError(op, answer)
    [] answer = "garbled"                -> "decode_error"
    [] answer = "5xx"                    -> "server_error"
    [] answer = "gone"    -> "context_error"
    [] answer = "cut"                    -> "exhausted"
    [] OTHER                             -> "network_error"

Answer(c, answer, hits) ==
  /\ Settle(c, ~CountsAsFailure(answer))
  /\ Count(c, answer \notin {"ok", "garbled", "missing", "refused"})
  /\ IF answer = "ok"
     THEN \E r \in (IF TargetOf(call[c].op) = "runtime" THEN Receipts ELSE {NoReceipt}) :
            Return(c, Answered(call[c].op, r), hits, r)
     ELSE Return(c, ErrorOf(call[c].op, answer), hits, NoReceipt)

Attempt(c) ==
  /\ call[c].at = "send"
  /\ \E answer \in Answers : \E n \in Processed(answer) :
       IF Retryable(answer) /\ ~LastAttempt(c)
       THEN Retry(c, answer, call[c].hits + n)
       ELSE Answer(c, answer, call[c].hits + n)

-----------------------------------------------------------------------------
(* The other steps of a call.                                              *)

(* A goroutine makes a call.  Refusals and an open or busy breaker answer  *)
(* at once.                                                                *)
Begin(c, op, valid) ==
  /\ call[c].at = "idle"
  /\ UNCHANGED failed
  /\ LET t == ClientOf(TargetOf(op)) IN
     \/ /\ Refused(op, valid)
        /\ last' = Returned(op, "invalid", 0, 0, NoReceipt)
        /\ UNCHANGED << call, breaker >>
     \/ /\ ~Refused(op, valid) /\ op = "mcp"
        /\ call' = [ call EXCEPT ![c] = Started(op, "connect") ]
        /\ last' = NoReturn
        /\ UNCHANGED breaker
     \/ /\ ~Refused(op, valid) /\ op # "mcp" /\ Admits(breaker[t])
        /\ call' = [ call EXCEPT ![c] = Started(op, "send") ]
        /\ breaker' = IF breaker[t].state = "half_open"
                      THEN [ breaker EXCEPT ![t].requests = @ + 1 ] ELSE breaker
        /\ last' = NoReturn
     \/ /\ ~Refused(op, valid) /\ op # "mcp" /\ ~Admits(breaker[t])
        /\ last' = Returned(op, "circuit_open", 0, 0, NoReceipt)
        /\ UNCHANGED << call, breaker >>

(* The MCP dispatcher opens a session for the call; no breaker, no retry.  *)
Connect(c) ==
  /\ call[c].at = "connect"
  /\ \/ /\ call' = [ call EXCEPT ![c].at = "tool" ]
        /\ last' = NoReturn
     \/ \E error \in {"transport_error", "auth_error"} :
          /\ call' = [ call EXCEPT ![c] = Idle ]
          /\ Return(c, error, 0, NoReceipt)
  /\ UNCHANGED << breaker, failed >>

(* CallTool, and the deferred Close of the session.                        *)
CallTool(c) ==
  /\ call[c].at = "tool"
  /\ \E outcome \in BridgeOutcomes :
     \E n \in IF outcome = "call_failed" THEN {0, 1} ELSE {1} :
       Return(c, BridgeResult(outcome), n, NoReceipt)
  /\ call' = [ call EXCEPT ![c] = Idle ]
  /\ UNCHANGED << breaker, failed >>

-----------------------------------------------------------------------------
Init ==
  /\ breaker = [ t \in Targets |-> Closed ]
  /\ call = [ c \in Callers |-> Idle ]
  /\ failed = [ t \in Targets |-> 0 ]
  /\ last = NoReturn

(* A call to t is made, and goes out or finds the breaker open or busy.    *)
Begins(t) ==
  \/ \E c \in Callers : call[c].at = "idle" /\ call'[c].at = "send" /\ TargetOf(call'[c].op) = t
  \/ last'.result = "circuit_open" /\ TargetOf(last'.op) = t

(* A call to t returns with an error that fails the breaker.               *)
Fails(t) ==
  /\ TargetOf(last'.op) = t
  /\ last'.result \in {"server_error", "network_error", "exhausted", "context_error"}

Next ==
  \/ \E c \in Callers, op \in Operations, valid \in BOOLEAN : Begin(c, op, valid)
  \/ \E c \in Callers : Attempt(c) \/ Connect(c) \/ CallTool(c)
  \/ \E t \in Targets : OpenExpires(t)

Spec == Init /\ [][Next]_vars

(* A request in flight is answered, fails or times out, and open durations *)
(* elapse.                                                                 *)
Fairness ==
  /\ \A c \in Callers : WF_vars(Attempt(c)) /\ WF_vars(Connect(c)) /\ WF_vars(CallTool(c))
  /\ \A t \in Targets : WF_vars(OpenExpires(t))

FairSpec == Spec /\ Fairness

-----------------------------------------------------------------------------
(* Types of the breakers, the calls and the histories.                     *)
TypeOK ==
  /\ breaker \in [ Targets -> [ state : {"closed", "open", "half_open"},
                                requests : 0..HalfOpenMaxRequests,
                                fails : 0..(CBFailureThreshold - 1) ] ]
  /\ \A c \in Callers :
       /\ call[c].at \in {"idle", "send", "connect", "tool"}
       /\ call[c].op \in Operations \cup {"none"}
       /\ call[c].attempt \in 0..(Attempts - 1)
       /\ call[c].hits \in 0..call[c].attempt
  /\ failed \in [ Targets -> 0..CBFailureThreshold ]

(* The runtime runs an agent at most once for a dispatch, whatever happens *)
(* to the answer: the client makes a single attempt.                       *)
AgentRunsOnce ==
  /\ \A c \in Callers : call[c].op \in Adapters => call[c].hits = 0
  /\ last.op \in Adapters => last.hits <= 1

(* A breaker leaves closed only after CBFailureThreshold calls to its own  *)
(* target failed in a row: neither client errors nor the other target's    *)
(* failures open it, and a success starts the run anew.  A timeout and a   *)
(* cancelled context are failures like the others (ReadyToTrip looks at    *)
(* ConsecutiveFailures alone; for the claim of a threshold of their own    *)
(* see TimeoutsCountedApart).                                              *)
OpenIsEarned ==
  \A t \in Targets : breaker[t].state # "closed" => failed[t] >= CBFailureThreshold

(* Of the calls admitted since the breaker last changed state, none is in  *)
(* flight while it is open and one at most while it is half open: a target *)
(* that recovers meets a single probe, stragglers aside.                   *)
ProbeIsAlone ==
  \A t \in Targets :
    /\ breaker[t].state = "open" => Fresh(t) = {}
    /\ breaker[t].state = "half_open" => Cardinality(Fresh(t)) <= 1

(* ErrCircuitOpen and a refusal tell the caller that nothing was sent: the *)
(* upstream has processed no request of that call.                         *)
RefusedWasNotSent ==
  last.result \in {"circuit_open", "invalid"} => last.hits = 0

(* A server or network error is reported only after the last attempt the   *)
(* configuration grants.                                                   *)
ErrorUsedEveryAttempt ==
  last.result \in {"server_error", "network_error", "exhausted"} =>
    last.attempt + 1 = MaxAttempts(TargetOf(last.op))

(* A dispatch yields an envelope only if the agent ran, ended well and, on *)
(* the opencode route, left no trace of an exhausted quota.                *)
EnvelopeIsGenuine ==
  last.result = "envelope" =>
    /\ last.hits = 1
    /\ last.op # "mcp" => last.status = "success"
    /\ last.op = "opencode" => ~last.quota

(* Every call returns: the retry loop ends, whatever the upstream does, as *)
(* does a call of the bridge (executeWithRetry, callSDK).                  *)
CallReturns == \A c \in Callers : call[c].at # "idle" ~> call[c].at = "idle"

(* A target is not cut off for good: once its calls fail no more and it is *)
(* called again and again, its breaker closes (http_base.New: one probe    *)
(* after the open duration, reported to the breaker whatever it finds).    *)
BreakerRecovers ==
  \A t \in Targets :
    <>[][~Fails(t)]_vars /\ []<><<Begins(t)>>_vars => []<>(breaker[t].state = "closed")

-----------------------------------------------------------------------------
(* What a comment says and the code does not do; no run checks this.       *)

(* DefaultConfig's CBTimeoutThreshold is 5 where CBFailureThreshold is 3.  *)
CBTimeoutThreshold == CBFailureThreshold + 2

(* "separate consecutive-failure threshold (3) and consecutive-timeout     *)
(* threshold (5)" (http_base/client.go:4): a timeout opens a closed        *)
(* breaker only as the last of CBTimeoutThreshold failures.  The code      *)
(* reads neither CBTimeoutThreshold nor timeoutCnt.                        *)
TimeoutsCountedApart ==
  [][ \A t \in Targets :
        /\ breaker[t].state = "closed" /\ breaker'[t].state = "open"
        /\ last'.result = "context_error"
        => failed[t] + 1 >= CBTimeoutThreshold ]_vars
=============================================================================
