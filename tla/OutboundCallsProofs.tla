------------------------ MODULE OutboundCallsProofs -------------------------
(***************************************************************************)
(* Proofs of the safety properties of OutboundCalls, for any number of     *)
(* goroutines, any configuration of providers, and any number of attempts  *)
(* and failure threshold.                                                  *)
(***************************************************************************)
EXTENDS OutboundCalls, FiniteSetTheorems, TLAPS

Breaker ==
  [ state : {"closed", "open", "half_open"}, requests : 0..HalfOpenMaxRequests,
    fails : 0..(CBFailureThreshold - 1) ]

CallType ==
  [ at : {"idle", "send", "connect", "tool"}, op : Operations \cup {"none"}, attempt : Nat,
    hits : Nat, stale : BOOLEAN ]

(* A call in the retry loop is not at its last attempt's end, and at most  *)
(* every earlier attempt was processed.                                    *)
CallOK(r) ==
  /\ r \in CallType
  /\ r.at = "idle" => r.op = "none" /\ r.attempt = 0 /\ r.hits = 0
  /\ r.at = "send" =>
       /\ r.op \in Operations \ {"mcp"}
       /\ r.attempt + 1 <= MaxAttempts(TargetOf(r.op)) /\ r.hits <= r.attempt
  /\ r.at \in {"connect", "tool"} => r.op = "mcp" /\ r.attempt = 0 /\ r.hits = 0

CallsOK ==
  /\ breaker \in [Targets -> Breaker] /\ failed \in [Targets -> 0..CBFailureThreshold]
  /\ DOMAIN call = Callers
  /\ \A c \in Callers : CallOK(call[c])

(* The failures a breaker has counted are failures of its own target, and  *)
(* came in a row.                                                          *)
Earned ==
  \A t \in Targets :
    /\ breaker[t].state = "closed" => breaker[t].fails <= failed[t]
    /\ breaker[t].state # "closed" => failed[t] = CBFailureThreshold

(* A half open breaker that has admitted nothing has no fresh call.        *)
Probing ==
  \A t \in Targets :
    /\ breaker[t].state = "open" => Fresh(t) = {}
    /\ breaker[t].state = "half_open" =>
         /\ \A c, d \in Fresh(t) : c = d
         /\ breaker[t].requests = 0 => Fresh(t) = {}

LastOK ==
  /\ last.op \in Adapters => last.hits <= 1
  /\ RefusedWasNotSent /\ ErrorUsedEveryAttempt /\ EnvelopeIsGenuine

(* The inductive invariant.                                                *)
IInv == CallsOK /\ Earned /\ Probing /\ LastOK

(* Leaves are first-order unless they name SMT.                            *)
USE Zenon

-----------------------------------------------------------------------------
(* What the configuration can make an operation, and where it goes.        *)

(* The factory registers adapters only.                                    *)
LEMMA OperationKinds == Operations \subseteq GovernanceOps \cup MemoryOps \cup Adapters
BY CallsAssumption DEF Operations, AdapterFor, Register, Adapters

(* Every operation but MCP has an HTTP client; the agents' is the runtime. *)
LEMMA OpTargets ==
  ASSUME NEW op \in Operations \ {"mcp"}
  PROVE  /\ TargetOf(op) \in Targets
         /\ op \in Adapters => TargetOf(op) = "runtime"
         /\ TargetOf(op) = "runtime" => op \in {"opencode", "aider", "ollama"}
<1>1. TargetOf(op) # "bridge"
  BY OperationKinds DEF TargetOf, GovernanceOps, MemoryOps
<1>2. TargetOf(op) \in Targets
  BY <1>1, CallsAssumption
<1>3. op \in Adapters => TargetOf(op) = "runtime"
  BY DEF TargetOf, Adapters, GovernanceOps, MemoryOps
<1>4. TargetOf(op) = "runtime" => op \in {"opencode", "aider", "ollama"}
  BY OperationKinds DEF TargetOf, Adapters
<1> QED BY <1>2, <1>3, <1>4

(* Every client makes at least one attempt, the runtime's exactly one.     *)
LEMMA AttemptBounds ==
  /\ \A t : MaxAttempts(t) \in 1..Attempts
  /\ MaxAttempts("runtime") = 1
BY SMT, CallsAssumption DEF MaxAttempts

(* An agent's request in flight is the first one.                          *)
LEMMA AgentFirst ==
  ASSUME NEW r, CallOK(r), r.op \in Adapters
  PROVE  r.hits = 0
<1>1. r.at \in {"idle", "send", "connect", "tool"} /\ r.attempt \in Nat /\ r.hits \in Nat
  BY DEF CallOK, CallType
<1>2. CASE r.at = "send"
  <2>1. r.attempt + 1 <= 1 /\ r.hits <= r.attempt
    BY <1>2, OpTargets, AttemptBounds DEF CallOK
  <2> QED BY SMT, <1>1, <2>1
<1> QED BY <1>1, <1>2 DEF CallOK

-----------------------------------------------------------------------------
(* The records that the actions build.                                     *)

(* A goroutine between two calls.                                          *)
LEMMA IdleOK == CallOK(Idle) /\ Idle.at = "idle"
<1>1. Idle \in CallType
  BY DEF Idle, CallType
<1> QED BY <1>1 DEF CallOK, Idle

(* A call as Begin starts it.                                              *)
LEMMA StartedOK ==
  ASSUME NEW op \in Operations
  PROVE  /\ op # "mcp" => CallOK(Started(op, "send"))
         /\ op = "mcp" => CallOK(Started(op, "connect"))
<1>1. ASSUME NEW at \in {"send", "connect"}
      PROVE  /\ Started(op, at) \in CallType
             /\ Started(op, at).at = at /\ Started(op, at).op = op
             /\ Started(op, at).attempt = 0 /\ Started(op, at).hits = 0
  BY DEF Started, CallType
<1>2. 1 <= MaxAttempts(TargetOf(op))
  BY SMT, AttemptBounds, CallsAssumption
<1>3. op # "mcp" => CallOK(Started(op, "send"))
  BY SMT, <1>1, <1>2 DEF CallOK
<1>4. op = "mcp" => CallOK(Started(op, "connect"))
  BY <1>1 DEF CallOK
<1> QED BY <1>3, <1>4

(* A call whose breaker has changed its generation.                        *)
LEMMA StaleOK ==
  ASSUME NEW r, CallOK(r)
  PROVE  /\ CallOK([ r EXCEPT !.stale = TRUE ])
         /\ [ r EXCEPT !.stale = TRUE ].at = r.at
         /\ [ r EXCEPT !.stale = TRUE ].op = r.op
         /\ [ r EXCEPT !.stale = TRUE ].stale
<1>1. r \in CallType
  BY DEF CallOK
<1> DEFINE s == [ r EXCEPT !.stale = TRUE ]
<1>2. s \in CallType /\ s.at = r.at /\ s.op = r.op /\ s.attempt = r.attempt /\ s.hits = r.hits
      /\ s.stale
  BY <1>1 DEF CallType
<1> QED BY <1>2 DEF CallOK

(* A call that executeWithRetry tries once more: it stays within the       *)
(* attempts of its client.                                                 *)
LEMMA RetryOK ==
  ASSUME NEW r, CallOK(r), r.at = "send", NEW n \in {0, 1},
         ~(r.attempt + 1 >= MaxAttempts(TargetOf(r.op)))
  PROVE  /\ CallOK([ r EXCEPT !.attempt = @ + 1, !.hits = r.hits + n ])
         /\ [ r EXCEPT !.attempt = @ + 1, !.hits = r.hits + n ].at = "send"
         /\ [ r EXCEPT !.attempt = @ + 1, !.hits = r.hits + n ].op = r.op
         /\ [ r EXCEPT !.attempt = @ + 1, !.hits = r.hits + n ].stale <=> r.stale
<1>1. r \in CallType /\ r.attempt \in Nat /\ r.hits \in Nat
  BY DEF CallOK, CallType
<1> DEFINE next == [ r EXCEPT !.attempt = r.attempt + 1 ]
<1>0. /\ next \in CallType /\ next.at = r.at /\ next.op = r.op
      /\ next.attempt = r.attempt + 1 /\ (next.stale <=> r.stale)
  BY SMT, <1>1 DEF CallType
<1>2. PICK a \in CallType :
        /\ a = next
        /\ a.at = r.at /\ a.op = r.op /\ a.attempt = r.attempt + 1 /\ (a.stale <=> r.stale)
  BY <1>0, Zenon
<1> DEFINE s == [ a EXCEPT !.hits = r.hits + n ]
<1>3. /\ s \in CallType /\ s.at = a.at /\ s.op = a.op /\ s.attempt = a.attempt
      /\ s.hits = r.hits + n /\ (s.stale <=> a.stale)
  BY SMT, <1>1 DEF CallType
<1>4. [ r EXCEPT !.attempt = @ + 1, !.hits = r.hits + n ] = s
  BY <1>2
<1>5. MaxAttempts(TargetOf(r.op)) \in Nat
  BY SMT, AttemptBounds, CallsAssumption
<1>6. CallOK(s)
  BY SMT, <1>1, <1>2, <1>3, <1>5 DEF CallOK
<1> QED BY <1>2, <1>3, <1>4, <1>6

-----------------------------------------------------------------------------
(* The breaker.                                                            *)

(* The three states of a breaker with fresh counters.                      *)
LEMMA ClosedOK == Closed \in Breaker /\ [ Closed EXCEPT !.state = "open" ] \in Breaker
                  /\ [ Closed EXCEPT !.state = "half_open" ] \in Breaker
<1>1. 0 \in 0..HalfOpenMaxRequests /\ 0 \in 0..(CBFailureThreshold - 1)
  BY SMT, CallsAssumption DEF HalfOpenMaxRequests
<1> QED BY <1>1 DEF Closed, Breaker

(* The states a result leads to, and when.                                 *)
LEMMA AfterRequestOK ==
  ASSUME NEW b \in Breaker, NEW success \in BOOLEAN
  PROVE  /\ AfterRequest(b, success) \in Breaker
         /\ b.state = "closed" /\ AfterRequest(b, success).state = "closed" =>
              AfterRequest(b, success).fails = IF success THEN 0 ELSE b.fails + 1
         /\ b.state = "closed" /\ AfterRequest(b, success).state # "closed" =>
              ~success /\ b.fails + 1 >= CBFailureThreshold
         /\ b.state # "closed" /\ AfterRequest(b, success).state = "closed" =>
              AfterRequest(b, success).fails = 0
         /\ b.state = "half_open" => AfterRequest(b, success).state # "half_open"
         /\ b.state = "half_open" /\ success => AfterRequest(b, success).state = "closed"
<1> DEFINE a == AfterRequest(b, success)
<1>0. b.state \in {"closed", "open", "half_open"} /\ b.fails \in 0..(CBFailureThreshold - 1)
  BY DEF Breaker
<1>1. CASE success /\ b.state = "half_open"
  <2>1. a = Closed
    BY <1>1 DEF AfterRequest
  <2>2. Closed.state = "closed" /\ Closed.fails = 0
    BY DEF Closed
  <2> QED BY <1>1, <2>1, <2>2, ClosedOK
<1>2. CASE success /\ b.state = "closed"
  <2>1. a = [ b EXCEPT !.fails = 0 ]
    BY <1>2 DEF AfterRequest
  <2>2. 0 \in 0..(CBFailureThreshold - 1)
    BY SMT, CallsAssumption
  <2>3. a \in Breaker /\ a.state = "closed" /\ a.fails = 0
    BY <1>2, <2>1, <2>2 DEF Breaker
  <2> QED BY <1>2, <2>3
<1>3. CASE ~success /\ b.state = "closed" /\ ~ReadyToTrip(b.fails + 1)
  <2>1. a = [ b EXCEPT !.fails = @ + 1 ]
    BY <1>3 DEF AfterRequest
  <2>2. b.fails + 1 \in 0..(CBFailureThreshold - 1)
    BY SMT, <1>0, <1>3, CallsAssumption DEF ReadyToTrip
  <2>3. a \in Breaker /\ a.state = "closed" /\ a.fails = b.fails + 1
    BY <1>3, <2>1, <2>2 DEF Breaker
  <2> QED BY <1>3, <2>3
<1>4. CASE ~success /\ b.state = "closed" /\ ReadyToTrip(b.fails + 1)
  <2>1. a = [ Closed EXCEPT !.state = "open" ]
    BY <1>4 DEF AfterRequest
  <2> QED BY <1>4, <2>1, ClosedOK DEF Closed, ReadyToTrip
<1>5. CASE b.state = "open" \/ (~success /\ b.state = "half_open")
  <2>1. a = [ Closed EXCEPT !.state = "open" ]
    BY <1>5 DEF AfterRequest
  <2> QED BY <1>5, <2>1, ClosedOK DEF Closed
<1> QED BY <1>0, <1>1, <1>2, <1>3, <1>4, <1>5

(* Ageing marks the calls to t as admitted before the change of state.     *)
LEMMA AgedOK ==
  ASSUME CallsOK, NEW t, NEW calls, DOMAIN calls = Callers,
         \A x \in Callers : CallOK(calls[x]) /\ (calls[x] = call[x] \/ calls[x].at = "idle")
  PROVE  /\ DOMAIN Aged(t, calls) = Callers
         /\ \A x \in Callers :
              /\ CallOK(Aged(t, calls)[x])
              /\ Aged(t, calls)[x].at = calls[x].at /\ Aged(t, calls)[x].op = calls[x].op
              /\ Aged(t, calls)[x].at = "send" /\ ~Aged(t, calls)[x].stale =>
                   TargetOf(calls[x].op) # t /\ ~calls[x].stale
<1> SUFFICES ASSUME NEW x \in Callers
             PROVE  /\ CallOK(Aged(t, calls)[x])
                    /\ Aged(t, calls)[x].at = calls[x].at /\ Aged(t, calls)[x].op = calls[x].op
                    /\ Aged(t, calls)[x].at = "send" /\ ~Aged(t, calls)[x].stale =>
                         TargetOf(calls[x].op) # t /\ ~calls[x].stale
  BY DEF Aged
<1>1. CASE x \in InFlight(t) /\ calls[x].at = "send"
  BY <1>1, StaleOK DEF Aged
<1>2. CASE ~(x \in InFlight(t) /\ calls[x].at = "send")
  <2>1. Aged(t, calls)[x] = calls[x]
    BY <1>2 DEF Aged
  <2> QED BY <1>2, <2>1 DEF InFlight, ClientOf
<1> QED BY <1>1, <1>2

(* What the end of a call does to its breaker and to the other calls.      *)
LEMMA SettleFacts ==
  ASSUME CallsOK, NEW c \in Callers, call[c].at = "send", NEW success \in BOOLEAN,
         Settle(c, success), NEW t, t = TargetOf(call[c].op)
  PROVE  /\ t \in Targets
         /\ breaker' \in [Targets -> Breaker]
         /\ \A u \in Targets : u # t => breaker'[u] = breaker[u]
         /\ \/ call[c].stale /\ breaker'[t] = breaker[t]
            \/ ~call[c].stale /\ breaker'[t] = AfterRequest(breaker[t], success)
         /\ DOMAIN call' = Callers
         /\ \A x \in Callers : CallOK(call'[x])
         /\ call'[c].at = "idle"
         /\ \A x \in Callers : call'[x].at = "send" /\ ~call'[x].stale =>
              /\ call[x].at = "send" /\ ~call[x].stale /\ call'[x].op = call[x].op
              /\ breaker'[t].state # breaker[t].state => TargetOf(call[x].op) # t
<1> DEFINE b == IF call[c].stale THEN breaker[t] ELSE AfterRequest(breaker[t], success)
           done == [ call EXCEPT ![c] = Idle ]
<1>1. CallOK(call[c]) /\ t \in Targets
  BY OpTargets DEF CallsOK, CallOK
<1>2. breaker[t] \in Breaker
  BY <1>1 DEF CallsOK
<1>3. b \in Breaker
  BY <1>2, AfterRequestOK
<1>4. breaker' = [ breaker EXCEPT ![t] = b ]
  BY DEF Settle, ClientOf
<1>5. breaker' \in [Targets -> Breaker] /\ breaker'[t] = b
      /\ \A u \in Targets : u # t => breaker'[u] = breaker[u]
  BY <1>1, <1>3, <1>4 DEF CallsOK
<1>6. DOMAIN done = Callers /\ done[c] = Idle /\ \A x \in Callers : x # c => done[x] = call[x]
  BY DEF CallsOK
<1>7. \A x \in Callers : CallOK(done[x]) /\ (done[x] = call[x] \/ done[x].at = "idle")
  BY <1>6, IdleOK DEF CallsOK
<1>8. call' = IF b.state # breaker[t].state THEN Aged(t, done) ELSE done
  BY DEF Settle, ClientOf
<1>9. CASE b.state # breaker[t].state
  <2>1. call' = Aged(t, done)
    BY <1>8, <1>9
  <2> HIDE DEF done, b
  <2>2. /\ DOMAIN call' = Callers
        /\ \A x \in Callers :
              /\ CallOK(call'[x]) /\ call'[x].at = done[x].at /\ call'[x].op = done[x].op
              /\ call'[x].at = "send" /\ ~call'[x].stale =>
                   TargetOf(done[x].op) # t /\ ~done[x].stale
    BY SMT, <1>6, <1>7, <2>1, AgedOK
  <2>3. call'[c].at = "idle"
    BY <1>6, <2>2, IdleOK
  <2>4. \A x \in Callers : call'[x].at = "send" => done[x] = call[x]
    BY <1>7, <2>2
  <2> QED BY <1>1, <1>5, <2>2, <2>3, <2>4 DEF b
<1>10. CASE b.state = breaker[t].state
  <2>1. call' = done
    BY <1>8, <1>10
  <2> HIDE DEF done, b
  <2>2. DOMAIN call' = Callers /\ \A x \in Callers : CallOK(call'[x])
    BY <1>6, <1>7, <2>1
  <2>3. call'[c].at = "idle"
    BY <1>6, <2>1, IdleOK
  <2>4. \A x \in Callers : call'[x].at = "send" => call'[x] = call[x]
    BY <1>7, <2>1
  <2> QED BY <1>1, <1>5, <1>10, <2>2, <2>3, <2>4 DEF b
<1> QED BY <1>9, <1>10

(* The fresh calls of a target are those of its own generation.            *)
LEMMA FreshCalls ==
  ASSUME NEW t
  PROVE  /\ Fresh(t) = { x \in Callers : call[x].at = "send" /\ TargetOf(call[x].op) = t
                                           /\ ~call[x].stale }
         /\ Fresh(t)' = { x \in Callers : call'[x].at = "send" /\ TargetOf(call'[x].op) = t
                                            /\ ~call'[x].stale }
BY DEF Fresh, InFlight, ClientOf

(* The end of a call, with the failure counted for its target.             *)
LEMMA SettleIInv ==
  ASSUME IInv, NEW c \in Callers, call[c].at = "send", NEW success \in BOOLEAN,
         Settle(c, success), Count(c, ~success)
  PROVE  (CallsOK /\ Earned /\ Probing)'
<1> DEFINE tgt == TargetOf(call[c].op)
<1>0. PICK t : t = tgt
  OBVIOUS
<1>1. /\ t \in Targets
      /\ breaker' \in [Targets -> Breaker]
      /\ \A u \in Targets : u # t => breaker'[u] = breaker[u]
      /\ \/ call[c].stale /\ breaker'[t] = breaker[t]
         \/ ~call[c].stale /\ breaker'[t] = AfterRequest(breaker[t], success)
      /\ DOMAIN call' = Callers
      /\ \A x \in Callers : CallOK(call'[x])
      /\ call'[c].at = "idle"
      /\ \A x \in Callers : call'[x].at = "send" /\ ~call'[x].stale =>
           /\ call[x].at = "send" /\ ~call[x].stale /\ call'[x].op = call[x].op
           /\ breaker'[t].state # breaker[t].state => TargetOf(call[x].op) # t
  BY SMT, <1>0, SettleFacts DEF IInv
<1>2. failed' = [ u \in Targets |->
        IF breaker'[u].state = "closed" /\ breaker[u].state # "closed" THEN 0
        ELSE IF u # t \/ call[c].stale THEN failed[u]
        ELSE IF success THEN 0
        ELSE IF failed[u] < CBFailureThreshold THEN failed[u] + 1 ELSE failed[u] ]
  BY <1>0 DEF Count
<1>3. \A u \in Targets : /\ breaker[u] \in Breaker /\ failed[u] \in 0..CBFailureThreshold
                         /\ breaker[u].fails \in 0..(CBFailureThreshold - 1)
                         /\ breaker'[u] \in Breaker
                         /\ breaker'[u].fails \in 0..(CBFailureThreshold - 1)
  BY <1>1 DEF IInv, CallsOK, Breaker
<1>4. failed' \in [Targets -> 0..CBFailureThreshold]
  BY SMT, <1>2, <1>3, CallsAssumption
<1>5. CallsOK'
  BY <1>1, <1>4 DEF CallsOK
<1> DEFINE new == AfterRequest(breaker[t], success)
<1>6. /\ breaker[t].state = "closed" /\ new.state = "closed" =>
           new.fails = IF success THEN 0 ELSE breaker[t].fails + 1
      /\ breaker[t].state = "closed" /\ new.state # "closed" =>
           ~success /\ breaker[t].fails + 1 >= CBFailureThreshold
      /\ breaker[t].state # "closed" /\ new.state = "closed" => new.fails = 0
      /\ breaker[t].state = "half_open" => new.state # "half_open"
      /\ breaker[t].state = "half_open" /\ success => new.state = "closed"
  BY <1>1, <1>3, AfterRequestOK
<1>7. Earned'
  <2> SUFFICES ASSUME NEW u \in Targets
               PROVE  /\ breaker'[u].state = "closed" => breaker'[u].fails <= failed'[u]
                      /\ breaker'[u].state # "closed" => failed'[u] = CBFailureThreshold
    BY DEF Earned
  <2>1. /\ breaker[u].state = "closed" => breaker[u].fails <= failed[u]
        /\ breaker[u].state # "closed" => failed[u] = CBFailureThreshold
    BY DEF IInv, Earned
  <2> HIDE DEF new
  <2>2. CASE u # t \/ call[c].stale
    BY SMT, <1>1, <1>2, <1>3, <2>1, <2>2, CallsAssumption
  <2>3. CASE u = t /\ ~call[c].stale
    <3>1. breaker[t].state \in {"closed", "half_open"}
      <4>1. c \in Fresh(t)
        BY <1>0, <1>1, <2>3, FreshCalls
      <4> QED BY <1>1, <1>3, <4>1 DEF IInv, Probing, Breaker
    <3>2. breaker'[t] = new
      BY <1>1, <2>3 DEF new
    <3> QED BY SMT, <1>2, <1>3, <1>6, <2>1, <2>3, <3>1, <3>2, CallsAssumption
  <2> QED BY <2>2, <2>3
<1>8. Probing'
  <2> SUFFICES ASSUME NEW u \in Targets
               PROVE  /\ breaker'[u].state = "open" => Fresh(u)' = {}
                      /\ breaker'[u].state = "half_open" =>
                           /\ \A x, y \in Fresh(u)' : x = y
                           /\ breaker'[u].requests = 0 => Fresh(u)' = {}
    BY DEF Probing
  <2>1. Fresh(u)' \subseteq Fresh(u)
    BY SMT, <1>1, FreshCalls
  <2>2. CASE breaker'[u] = breaker[u]
    BY <2>1, <2>2 DEF IInv, Probing
  <2>3. CASE u = t /\ breaker'[t].state # breaker[t].state
    BY SMT, <1>1, <2>3, FreshCalls
  <2>4. CASE u = t /\ breaker'[t] = new /\ breaker'[t].state = breaker[t].state
    BY <1>6, <2>1, <2>4 DEF IInv, Probing
  <2> QED BY <1>1, <2>2, <2>3, <2>4
<1> QED BY <1>5, <1>7, <1>8

(* The open duration has elapsed.                                          *)
LEMMA OpenExpiresIInv ==
  ASSUME IInv, NEW t \in Targets, OpenExpires(t)
  PROVE  IInv'
<1>1. /\ breaker[t].state = "open" /\ UNCHANGED failed /\ call' = Aged(t, call)
      /\ breaker' = [ breaker EXCEPT ![t] = [ Closed EXCEPT !.state = "half_open" ] ]
  BY DEF OpenExpires
<1>2. /\ breaker' \in [Targets -> Breaker] /\ breaker'[t].state = "half_open"
      /\ \A u \in Targets : u # t => breaker'[u] = breaker[u]
  BY <1>1, ClosedOK DEF IInv, CallsOK, Closed
<1>3. /\ DOMAIN call' = Callers
      /\ \A x \in Callers :
           /\ CallOK(call'[x]) /\ call'[x].at = call[x].at /\ call'[x].op = call[x].op
           /\ call'[x].at = "send" /\ ~call'[x].stale => TargetOf(call[x].op) # t /\ ~call[x].stale
  BY SMT, <1>1, AgedOK DEF IInv, CallsOK
<1>4. CallsOK'
  BY <1>1, <1>2, <1>3 DEF IInv, CallsOK
<1>5. Earned'
  BY <1>1, <1>2 DEF IInv, Earned
<1>6. Fresh(t)' = {} /\ \A u \in Targets : Fresh(u)' \subseteq Fresh(u)
  BY SMT, <1>3, FreshCalls
<1>7. Probing'
  BY <1>2, <1>6 DEF IInv, Probing
<1>8. LastOK'
  BY DEF OpenExpires, LastOK, RefusedWasNotSent, ErrorUsedEveryAttempt, EnvelopeIsGenuine,
         NoReturn, Returned, Adapters
<1> QED BY <1>4, <1>5, <1>7, <1>8 DEF IInv

-----------------------------------------------------------------------------
(* The steps of a call.                                                    *)

(* No call has returned.                                                   *)
LEMMA NoReturnOK == last' = NoReturn => LastOK'
BY SMT DEF LastOK, RefusedWasNotSent, ErrorUsedEveryAttempt, EnvelopeIsGenuine, NoReturn, Returned,
       Adapters

(* What the caller learns when a call ends, from what is recorded of it.   *)
LEMMA ReturnOK ==
  ASSUME NEW op, NEW result, NEW hits, NEW attempt, NEW r,
         last' = Returned(op, result, hits, attempt, r),
         op \in Adapters => hits <= 1,
         result \in {"circuit_open", "invalid"} => hits = 0,
         result \in {"server_error", "network_error", "exhausted"} =>
           attempt + 1 = MaxAttempts(TargetOf(op)),
         result = "envelope" =>
           /\ hits = 1
           /\ op # "mcp" => r.status = "success"
           /\ op = "opencode" => ~DetectProviderQuota(r)
  PROVE  LastOK'
<1>1. /\ last'.op = op /\ last'.result = result /\ last'.hits = hits /\ last'.attempt = attempt
      /\ last'.status = r.status /\ last'.quota = DetectProviderQuota(r)
  BY DEF Returned
<1>2. (RefusedWasNotSent /\ ErrorUsedEveryAttempt)'
  BY <1>1 DEF RefusedWasNotSent, ErrorUsedEveryAttempt
<1>3. EnvelopeIsGenuine'
  BY <1>1, Zenon DEF EnvelopeIsGenuine
<1> QED BY <1>1, <1>2, <1>3 DEF LastOK

(* The last attempt of a call was answered, or none will be made.          *)
LEMMA AnswerIInv ==
  ASSUME IInv, NEW c \in Callers, call[c].at = "send", NEW answer \in Answers,
         NEW n \in Processed(answer), Retryable(answer) => LastAttempt(c),
         Answer(c, answer, call[c].hits + n)
  PROVE  IInv'
<1> DEFINE op == call[c].op
           failure == CountsAsFailure(answer)
<1>1. failure <=> answer \notin {"ok", "garbled", "missing", "refused"}
  BY DEF CountsAsFailure, Retryable, Answers
<1>2. Settle(c, ~failure)
  BY DEF Answer
<1>3. Count(c, answer \notin {"ok", "garbled", "missing", "refused"})
  BY DEF Answer
<1>4. Count(c, failure)
  BY <1>1, <1>3, Zenon DEF Count
<1>5. (CallsOK /\ Earned /\ Probing)'
  <2>1. PICK success \in BOOLEAN : success = ~failure
    OBVIOUS
  <2>2. Settle(c, success)
    BY <1>2, <2>1, Zenon
  <2>3. Count(c, ~success)
    BY <1>4, <2>1, Zenon DEF Count
  <2> QED BY <2>2, <2>3, SettleIInv
<1>6. /\ CallOK(call[c]) /\ op \in Operations \ {"mcp"}
      /\ call[c].attempt \in Nat /\ call[c].hits \in Nat
      /\ call[c].attempt + 1 <= MaxAttempts(TargetOf(op))
  BY DEF IInv, CallsOK, CallOK, CallType
<1>7. n \in {0, 1} /\ (answer = "ok" => n = 1)
  BY DEF Processed
<1>8. op \in Adapters => call[c].hits = 0
  BY <1>6, AgentFirst
<1>9. LastOK'
  <2>1. CASE answer # "ok"
    <3>1. last' = Returned(op, ErrorOf(op, answer), call[c].hits + n, call[c].attempt, NoReceipt)
      BY <2>1 DEF Answer, Return
    <3>2. /\ ErrorOf(op, answer) \notin {"circuit_open", "invalid", "envelope"}
          /\ ErrorOf(op, answer) \in {"server_error", "network_error", "exhausted"} =>
               Retryable(answer)
      BY <2>1 DEF ErrorOf, ClientError, Retryable, Answers
    <3>3. Retryable(answer) => call[c].attempt + 1 = MaxAttempts(TargetOf(op))
      BY SMT, <1>6, AttemptBounds, CallsAssumption DEF LastAttempt
    <3> QED BY SMT, <1>6, <1>7, <1>8, <3>1, <3>2, <3>3, ReturnOK
  <2>2. CASE answer = "ok" /\ TargetOf(op) # "runtime"
    <3>1. last' = Returned(op, "ok", call[c].hits + n, call[c].attempt, NoReceipt)
      BY <2>2 DEF Answer, Return, Answered
    <3>2. op \notin Adapters
      BY <1>6, <2>2, OpTargets
    <3> QED BY SMT, <3>1, <3>2, ReturnOK
  <2>3. CASE answer = "ok" /\ TargetOf(op) = "runtime"
    <3>1. op \in {"opencode", "aider", "ollama"}
      BY <1>6, <2>3, OpTargets
    <3>2. call[c].hits + n = 1
      BY SMT, <1>7, <1>8, <2>3, <3>1 DEF Adapters
    <3>3. PICK r \in Receipts :
            last' = Returned(op, DispatchResult(op, r), call[c].hits + n, call[c].attempt, r)
      BY <2>3 DEF Answer, Return, Answered
    <3>4. /\ DispatchResult(op, r) \in {"quota_exceeded", "dispatch_failed", "envelope",
                                        "no_envelope", "edits"}
          /\ DispatchResult(op, r) = "envelope" => r.status = "success"
          /\ DispatchResult(op, r) = "envelope" /\ op = "opencode" => ~DetectProviderQuota(r)
      BY <3>1 DEF DispatchResult, OpencodeResult, OllamaResult, AiderResult
    <3> QED BY SMT, <3>2, <3>3, <3>4, ReturnOK
  <2> QED BY <2>1, <2>2, <2>3
<1> QED BY <1>5, <1>9 DEF IInv

(* Another attempt within the one call of the breaker.                     *)
LEMMA RetryIInv ==
  ASSUME IInv, NEW c \in Callers, call[c].at = "send", NEW answer, NEW n \in {0, 1},
         ~LastAttempt(c), Retry(c, answer, call[c].hits + n)
  PROVE  IInv'
<1> DEFINE new == [ call[c] EXCEPT !.attempt = @ + 1, !.hits = call[c].hits + n ]
<1>1. CallOK(call[c])
  BY DEF IInv, CallsOK
<1>2. CallOK(new) /\ new.at = "send" /\ new.op = call[c].op /\ (new.stale <=> call[c].stale)
  BY <1>1, RetryOK DEF LastAttempt
<1>3. call' = [ call EXCEPT ![c] = new ]
  BY DEF Retry
<1>4. UNCHANGED << breaker, failed >> /\ last' = NoReturn
  BY DEF Retry
<1> HIDE DEF new
<1>5. /\ DOMAIN call' = Callers /\ call'[c] = new
      /\ \A x \in Callers : x # c => call'[x] = call[x]
  BY <1>3 DEF IInv, CallsOK
<1>6. CallsOK' /\ Earned'
  BY <1>2, <1>4, <1>5 DEF IInv, CallsOK, Earned
<1>7. \A t \in Targets : Fresh(t)' = Fresh(t)
  <2> SUFFICES ASSUME NEW t \in Targets, NEW x \in Callers
               PROVE  (call'[x].at = "send" /\ TargetOf(call'[x].op) = t /\ ~call'[x].stale)
                        <=> (call[x].at = "send" /\ TargetOf(call[x].op) = t /\ ~call[x].stale)
    BY FreshCalls
  <2> QED BY <1>2, <1>5
<1>8. Probing'
  BY <1>4, <1>7 DEF IInv, Probing
<1> QED BY <1>4, <1>6, <1>8, NoReturnOK DEF IInv

(* A call that changes no breaker, and adds no fresh call.                 *)
LEMMA OneCall ==
  ASSUME IInv, NEW c \in Callers, NEW r, CallOK(r), r.at # "send",
         call' = [ call EXCEPT ![c] = r ], UNCHANGED << breaker, failed >>
  PROVE  (CallsOK /\ Earned /\ Probing)'
<1>1. /\ DOMAIN call' = Callers /\ call'[c] = r
      /\ \A x \in Callers : x # c => call'[x] = call[x]
  BY DEF IInv, CallsOK
<1>2. CallsOK' /\ Earned'
  BY <1>1 DEF IInv, CallsOK, Earned
<1>3. \A t \in Targets : Fresh(t)' \subseteq Fresh(t)
  BY SMT, <1>1, FreshCalls
<1>4. Probing'
  BY <1>3 DEF IInv, Probing
<1> QED BY <1>2, <1>4

(* The breaker admits a call: a half open one admits a single one.         *)
LEMMA AdmitIInv ==
  ASSUME IInv, NEW c \in Callers, call[c].at = "idle", NEW op \in Operations \ {"mcp"},
         NEW t, t = TargetOf(op), Admits(breaker[t]), UNCHANGED failed,
         call' = [ call EXCEPT ![c] = Started(op, "send") ],
         breaker' = IF breaker[t].state = "half_open"
                    THEN [ breaker EXCEPT ![t].requests = @ + 1 ] ELSE breaker
  PROVE  (CallsOK /\ Earned /\ Probing)'
<1>1. t \in Targets /\ breaker[t] \in Breaker
  BY OpTargets DEF IInv, CallsOK
<1>2. CallOK(Started(op, "send")) /\ Started(op, "send").op = op
  BY StartedOK DEF Started
<1>3. /\ DOMAIN call' = Callers /\ call'[c] = Started(op, "send")
      /\ \A x \in Callers : x # c => call'[x] = call[x]
  BY DEF IInv, CallsOK
<1>4. CASE breaker[t].state = "half_open"
  <2>1. breaker[t].requests = 0
    BY SMT, <1>1, <1>4 DEF Admits, HalfOpenMaxRequests, Breaker
  <2>2. PICK b \in Breaker : /\ b = [ breaker[t] EXCEPT !.requests = @ + 1 ]
                             /\ b.state = breaker[t].state /\ b.fails = breaker[t].fails
                             /\ b.requests = 1
    <3> DEFINE b0 == [ breaker[t] EXCEPT !.requests = @ + 1 ]
    <3>1. 1 \in 0..HalfOpenMaxRequests
      BY SMT DEF HalfOpenMaxRequests
    <3>2. b0 \in Breaker /\ b0.state = breaker[t].state /\ b0.fails = breaker[t].fails
          /\ b0.requests = 1
      BY SMT, <1>1, <2>1, <3>1 DEF Breaker
    <3> QED BY <3>2, Zenon
  <2>3. /\ breaker' \in [Targets -> Breaker] /\ breaker'[t] = b
        /\ \A u \in Targets : u # t => breaker'[u] = breaker[u]
    BY <1>1, <1>4, <2>2 DEF IInv, CallsOK
  <2>4. CallsOK'
    BY <1>2, <1>3, <2>3 DEF IInv, CallsOK
  <2>5. Earned'
    BY <2>2, <2>3 DEF IInv, Earned
  <2>6. Fresh(t) = {}
    BY <1>1, <1>4, <2>1 DEF IInv, Probing
  <2>7. Fresh(t)' \subseteq {c}
    BY SMT, <1>3, <2>6, FreshCalls
  <2>8. \A u \in Targets : u # t => Fresh(u)' \subseteq Fresh(u)
    BY SMT, <1>2, <1>3, FreshCalls
  <2>9. Probing'
    BY SMT, <1>4, <2>2, <2>3, <2>7, <2>8 DEF IInv, Probing
  <2> QED BY <2>4, <2>5, <2>9
<1>5. CASE breaker[t].state # "half_open"
  <2>1. breaker' = breaker /\ breaker[t].state = "closed"
    BY <1>5 DEF Admits
  <2>2. CallsOK'
    BY <1>2, <1>3, <2>1 DEF IInv, CallsOK
  <2>3. Earned'
    BY <2>1 DEF IInv, Earned
  <2>4. \A u \in Targets : u # t => Fresh(u)' \subseteq Fresh(u)
    BY SMT, <1>2, <1>3, FreshCalls
  <2>5. Probing'
    BY <2>1, <2>4 DEF IInv, Probing
  <2> QED BY <2>2, <2>3, <2>5
<1> QED BY <1>4, <1>5

(* A call is made, and refused, admitted or turned away.                   *)
LEMMA BeginIInv ==
  ASSUME IInv, NEW c \in Callers, NEW op \in Operations, NEW valid \in BOOLEAN,
         Begin(c, op, valid)
  PROVE  IInv'
<1>0. call[c].at = "idle" /\ UNCHANGED failed
  BY DEF Begin
<1>1. CASE /\ UNCHANGED << call, breaker >>
           /\ \E res \in {"invalid", "circuit_open"} : last' = Returned(op, res, 0, 0, NoReceipt)
  <2>1. (CallsOK /\ Earned)'
    BY <1>0, <1>1 DEF IInv, CallsOK, Earned
  <2>2. \A t \in Targets : Fresh(t)' = Fresh(t)
    BY <1>1, FreshCalls
  <2>3. Probing'
    BY <1>1, <2>2 DEF IInv, Probing
  <2>4. LastOK'
    BY SMT, <1>1, ReturnOK
  <2> QED BY <2>1, <2>3, <2>4 DEF IInv
<1>2. CASE op = "mcp" /\ call' = [ call EXCEPT ![c] = Started(op, "connect") ]
           /\ last' = NoReturn /\ UNCHANGED breaker
  <2>1. CallOK(Started(op, "connect")) /\ Started(op, "connect").at # "send"
    BY <1>2, StartedOK DEF Started
  <2> QED BY <1>0, <1>2, <2>1, OneCall, NoReturnOK DEF IInv
<1>3. CASE /\ op # "mcp" /\ Admits(breaker[TargetOf(op)]) /\ last' = NoReturn
           /\ call' = [ call EXCEPT ![c] = Started(op, "send") ]
           /\ breaker' = IF breaker[TargetOf(op)].state = "half_open"
                         THEN [ breaker EXCEPT ![TargetOf(op)].requests = @ + 1 ] ELSE breaker
  BY <1>0, <1>3, AdmitIInv, NoReturnOK DEF IInv
<1> QED BY <1>1, <1>2, <1>3 DEF Begin, ClientOf

(* The MCP session and its one tool call.                                  *)
LEMMA BridgeIInv ==
  ASSUME IInv, NEW c \in Callers, Connect(c) \/ CallTool(c)
  PROVE  IInv'
<1>0. /\ CallOK(call[c]) /\ call[c].op = "mcp" /\ call[c].attempt = 0 /\ call[c].hits = 0
      /\ call[c] \in CallType /\ UNCHANGED << breaker, failed >>
  BY DEF IInv, CallsOK, CallOK, Connect, CallTool
<1>1. CASE call' = [ call EXCEPT ![c].at = "tool" ] /\ last' = NoReturn /\ call[c].at = "connect"
  <2> DEFINE new == [ call[c] EXCEPT !.at = "tool" ]
  <2>1. /\ new \in CallType /\ new.at = "tool" /\ new.op = call[c].op
        /\ new.attempt = call[c].attempt /\ new.hits = call[c].hits
    BY <1>0 DEF CallType
  <2>2. call' = [ call EXCEPT ![c] = new ]
    BY <1>1
  <2> HIDE DEF new
  <2>3. CallOK(new)
    BY <1>0, <2>1 DEF CallOK
  <2> QED BY <1>0, <1>1, <2>1, <2>2, <2>3, OneCall, NoReturnOK DEF IInv
<1>2. CASE /\ call' = [ call EXCEPT ![c] = Idle ]
           /\ \E res \in {"transport_error", "auth_error"} : Return(c, res, 0, NoReceipt)
  <2>1. PICK res \in {"transport_error", "auth_error"} :
          last' = Returned("mcp", res, 0, 0, NoReceipt)
    BY <1>0, <1>2 DEF Return
  <2>2. LastOK'
    BY SMT, <2>1, ReturnOK
  <2> QED BY <1>0, <1>2, <2>2, IdleOK, OneCall DEF IInv
<1>3. CASE CallTool(c)
  <2>1. PICK outcome \in BridgeOutcomes, n \in {0, 1} :
          /\ outcome # "call_failed" => n = 1
          /\ last' = Returned("mcp", BridgeResult(outcome), n, 0, NoReceipt)
    BY <1>0, <1>3 DEF CallTool, Return
  <2>2. /\ BridgeResult(outcome) \notin {"circuit_open", "invalid", "server_error",
                                         "network_error", "exhausted"}
        /\ BridgeResult(outcome) = "envelope" => outcome # "call_failed"
    BY DEF BridgeResult, BridgeOutcomes
  <2>3. LastOK'
    BY SMT, <2>1, <2>2, ReturnOK
  <2>4. call' = [ call EXCEPT ![c] = Idle ]
    BY <1>3 DEF CallTool
  <2> QED BY <1>0, <2>3, <2>4, IdleOK, OneCall DEF IInv
<1> QED BY <1>1, <1>2, <1>3 DEF Connect

-----------------------------------------------------------------------------
(* The invariant holds at the start.                                       *)
LEMMA InitIInv == Init => IInv
<1> SUFFICES ASSUME Init PROVE IInv
  OBVIOUS
<1>1. 0 \in 0..CBFailureThreshold
  BY SMT, CallsAssumption
<1>2. CallsOK
  BY <1>1, ClosedOK, IdleOK DEF Init, CallsOK
<1>3. Earned
  BY SMT, CallsAssumption DEF Init, Earned, Closed
<1>4. Probing
  BY DEF Init, Probing, Closed
<1>5. LastOK
  BY DEF Init, LastOK, RefusedWasNotSent, ErrorUsedEveryAttempt, EnvelopeIsGenuine, NoReturn,
         Returned, Adapters
<1> QED BY <1>2, <1>3, <1>4, <1>5 DEF IInv

(* Every step keeps the invariant.                                         *)
LEMMA NextIInv == IInv /\ [Next]_vars => IInv'
<1> SUFFICES ASSUME IInv, [Next]_vars PROVE IInv'
  OBVIOUS
<1>1. CASE UNCHANGED vars
  BY SMT, <1>1 DEF vars, IInv, CallsOK, Earned, Probing, Fresh, InFlight, LastOK, RefusedWasNotSent,
              ErrorUsedEveryAttempt, EnvelopeIsGenuine
<1>2. ASSUME NEW c \in Callers, Attempt(c) PROVE IInv'
  <2>0. PICK answer \in Answers : \E n \in Processed(answer) :
          IF Retryable(answer) /\ ~LastAttempt(c)
          THEN Retry(c, answer, call[c].hits + n)
          ELSE Answer(c, answer, call[c].hits + n)
    BY <1>2 DEF Attempt
  <2>1. PICK n \in Processed(answer) :
          IF Retryable(answer) /\ ~LastAttempt(c)
          THEN Retry(c, answer, call[c].hits + n)
          ELSE Answer(c, answer, call[c].hits + n)
    BY <2>0
  <2>2. n \in {0, 1} /\ call[c].at = "send"
    BY <1>2 DEF Processed, Attempt
  <2>3. CASE Retryable(answer) /\ ~LastAttempt(c)
    BY <2>1, <2>2, <2>3, RetryIInv
  <2>4. CASE Retryable(answer) => LastAttempt(c)
    BY <2>1, <2>2, <2>4, AnswerIInv
  <2> QED BY <2>3, <2>4
<1> QED BY <1>1, <1>2, BeginIInv, BridgeIInv, OpenExpiresIInv DEF Next

(* The inductive invariant holds in every reachable state.                 *)
THEOREM IInvCorrect == Spec => []IInv
BY InitIInv, NextIInv, PTL DEF Spec

(* Every variable has its type; in particular a call never makes more      *)
(* attempts than configured.                                               *)
THEOREM TypeCorrect == Spec => []TypeOK
<1>1. IInv => TypeOK
  <2> SUFFICES ASSUME IInv, NEW c \in Callers
               PROVE  /\ call[c].at \in {"idle", "send", "connect", "tool"}
                      /\ call[c].op \in Operations \cup {"none"}
                      /\ call[c].attempt \in 0..(Attempts - 1)
                      /\ call[c].hits \in 0..call[c].attempt
    BY DEF IInv, CallsOK, TypeOK, Breaker
  <2>1. CallOK(call[c]) /\ call[c] \in CallType
    BY DEF IInv, CallsOK, CallOK
  <2>2. /\ call[c].at \in {"idle", "send", "connect", "tool"}
        /\ call[c].op \in Operations \cup {"none"}
        /\ call[c].attempt \in Nat /\ call[c].hits \in Nat
    BY <2>1 DEF CallType
  <2>3. MaxAttempts(TargetOf(call[c].op)) \in 1..Attempts
    BY AttemptBounds
  <2>4. call[c].attempt + 1 <= Attempts /\ call[c].hits <= call[c].attempt
    BY SMT, <2>1, <2>2, <2>3, CallsAssumption DEF CallOK
  <2> QED BY SMT, <2>2, <2>4, CallsAssumption
<1> QED BY <1>1, IInvCorrect, PTL

(* Every dispatch runs its agent at most once.                             *)
THEOREM AgentRunsOnceCorrect == Spec => []AgentRunsOnce
<1>1. IInv => AgentRunsOnce
  BY AgentFirst DEF IInv, CallsOK, LastOK, AgentRunsOnce
<1> QED BY <1>1, IInvCorrect, PTL

(* No breaker opens but on the failures of its own target.                 *)
THEOREM OpenIsEarnedCorrect == Spec => []OpenIsEarned
<1>1. IInv => OpenIsEarned
  BY SMT, CallsAssumption DEF IInv, Earned, OpenIsEarned
<1> QED BY <1>1, IInvCorrect, PTL

(* A recovering target meets one probe at a time.                          *)
THEOREM ProbeIsAloneCorrect == Spec => []ProbeIsAlone
<1>1. IInv => ProbeIsAlone
  <2> SUFFICES ASSUME IInv, NEW t \in Targets, breaker[t].state = "half_open"
               PROVE  Cardinality(Fresh(t)) <= 1
    BY DEF IInv, Probing, ProbeIsAlone
  <2>1. CASE Fresh(t) = {}
    BY SMT, <2>1, FS_EmptySet
  <2>2. CASE Fresh(t) # {}
    <3>1. PICK c : Fresh(t) = {c}
      BY SMT, <2>2 DEF IInv, Probing
    <3> QED BY SMT, <3>1, FS_Singleton
  <2> QED BY <2>1, <2>2
<1> QED BY <1>1, IInvCorrect, PTL

(* What a caller learns of a call that has returned is true.               *)
THEOREM RefusedWasNotSentCorrect == Spec => []RefusedWasNotSent
<1>1. IInv => RefusedWasNotSent
  BY DEF IInv, LastOK
<1> QED BY <1>1, IInvCorrect, PTL

(* No attempt the configuration grants is given up.                        *)
THEOREM ErrorUsedEveryAttemptCorrect == Spec => []ErrorUsedEveryAttempt
<1>1. IInv => ErrorUsedEveryAttempt
  BY DEF IInv, LastOK
<1> QED BY <1>1, IInvCorrect, PTL

(* An envelope comes from an agent that ran and ended well.                *)
THEOREM EnvelopeIsGenuineCorrect == Spec => []EnvelopeIsGenuine
<1>1. IInv => EnvelopeIsGenuine
  BY DEF IInv, LastOK
<1> QED BY <1>1, IInvCorrect, PTL
=============================================================================
