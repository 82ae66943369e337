---------------------------- MODULE OutboxRelay ----------------------------
(***************************************************************************)
(* The transactional outbox: OutboxRepo (adapters/outbound/pg), the relay  *)
(* poller (application/outbox), the webhook adapter, and the shutdown of   *)
(* the application that owns the relay (bootstrap.App.Run).  Several       *)
(* orchestrator processes may share the database, each with its relay.     *)
(*                                                                         *)
(* A row is [status, attempts, due]; due is next_attempt_at <= now, which  *)
(* time makes true at some later moment.  The memory-engine is the count   *)
(* of POSTs it has processed for each event.                               *)
(***************************************************************************)
EXTENDS Integers, FiniteSets

CONSTANTS
  Events,        \* completed changes, one webhook each
  Relays,        \* orchestrator processes
  BatchLimit,    \* defaultBatchLimit
  MaxFailures,   \* bound: failed deliveries and failed statements, together
  MaxStops       \* bound: shutdowns and crashes

VARIABLES
  completed,   \* changes stored as completed
  rows,        \* webhook_outbox
  received,    \* POSTs the memory-engine has processed, per event
  app,         \* App.Run of each process: "up", "stopping", "closed"
  pc,          \* the relay goroutine: "idle", "deliver", "settle", "off"
  batch,       \* the claimed events that are not settled yet
  seen,        \* attempts of each claimed event as it was claimed
  cur, ok,     \* the event being delivered and the result of Deliver
  misuse,      \* a statement was issued on a closed pool
  failures, stops

store == << completed, rows >>
relay == << pc, batch, seen, cur, ok >>
vars  == << store, received, app, relay, misuse, failures, stops >>

Row == [ status : {"absent", "pending", "delivered"}, attempts : Nat, due : BOOLEAN ]

NoEvent == "none"

Fault == failures < MaxFailures /\ failures' = failures + 1

(* A statement of r: it fails once the relay's context is cancelled.       *)
Statement(r) == misuse' = (misuse \/ app[r] = "closed")

StatementOk(r) == app[r] = "up" /\ UNCHANGED failures

StatementErr(r) == (app[r] # "up" /\ UNCHANGED failures) \/ (app[r] = "up" /\ Fault)

-----------------------------------------------------------------------------
Init ==
  /\ completed = {}
  /\ rows = [ ev \in Events |-> [ status |-> "absent", attempts |-> 0, due |-> FALSE ] ]
  /\ received = [ ev \in Events |-> 0 ]
  /\ app = [ r \in Relays |-> "up" ]
  /\ pc = [ r \in Relays |-> "idle" ]
  /\ batch = [ r \in Relays |-> {} ]
  /\ seen = [ r \in Relays |-> [ ev \in Events |-> 0 ] ]
  /\ cur = [ r \in Relays |-> NoEvent ]
  /\ ok = [ r \in Relays |-> FALSE ]
  /\ misuse = FALSE
  /\ failures = 0 /\ stops = 0

(* outbox.New: pending and due at once.                                    *)
NewEvent == [ status |-> "pending", attempts |-> 0, due |-> TRUE ]

(* SaveCompletedWithOutbox: both writes commit or none.                    *)
SaveCompletedWithOutbox(ev) ==
  /\ ev \notin completed
  /\ \/ /\ completed' = completed \cup {ev}
        /\ rows' = [rows EXCEPT ![ev] = NewEvent]
        /\ UNCHANGED failures
     \/ Fault /\ UNCHANGED store
  /\ UNCHANGED << received, app, relay, misuse, stops >>

(* next_attempt_at passes.                                                 *)
BecomesDue(ev) ==
  /\ rows[ev].status = "pending" /\ ~rows[ev].due
  /\ rows' = [rows EXCEPT ![ev].due = TRUE]
  /\ UNCHANGED << completed, received, app, relay, misuse, failures, stops >>

(* Mutant: a row is tried once.                                            *)
DueRowsOnce ==
  { ev \in Events : rows[ev].status = "pending" /\ rows[ev].due /\ rows[ev].attempts = 0 }

DueRows == { ev \in Events : rows[ev].status = "pending" /\ rows[ev].due }

(* Tick, first part: ClaimDue.  The statement runs outside a transaction,  *)
(* so its row locks end with it; a failed claim ends the tick.             *)
ClaimDue(r) ==
  /\ pc[r] = "idle" /\ app[r] # "closed"
  /\ Statement(r)
  /\ StatementOk(r)
  /\ \E claimed \in (SUBSET DueRows) \ {{}} :
       /\ \/ Cardinality(claimed) = BatchLimit
          \/ claimed = DueRows /\ Cardinality(claimed) < BatchLimit
       /\ batch' = [batch EXCEPT ![r] = claimed]
       /\ seen' = [seen EXCEPT ![r] = [ ev \in Events |-> rows[ev].attempts ]]
  /\ pc' = [pc EXCEPT ![r] = "deliver"]
  /\ UNCHANGED << store, received, app, cur, ok, stops >>

(* webhook.Deliver: a 2xx answer was processed; any other outcome is an    *)
(* error, whether the memory-engine processed the POST or not.  A          *)
(* cancelled context fails the request.                                    *)
Deliver(r, ev, success) ==
  /\ pc[r] = "deliver" /\ ev \in batch[r]
  /\ cur' = [cur EXCEPT ![r] = ev]
  /\ ok' = [ok EXCEPT ![r] = success]
  /\ pc' = [pc EXCEPT ![r] = "settle"]
  /\ \/ /\ success /\ app[r] = "up"
        /\ received' = [received EXCEPT ![ev] = @ + 1]
        /\ UNCHANGED failures
     \/ /\ ~success /\ app[r] = "up" /\ Fault
        /\ received' \in { received, [received EXCEPT ![ev] = @ + 1] }
     \/ /\ ~success /\ app[r] # "up"
        /\ UNCHANGED << received, failures >>
  /\ UNCHANGED << store, app, batch, seen, misuse, stops >>

(* The tick goes on with the next claimed event, or ends.                  *)
Settled(r) ==
  /\ batch' = [batch EXCEPT ![r] = @ \ {cur[r]}]
  /\ cur' = [cur EXCEPT ![r] = NoEvent]
  /\ pc' = [pc EXCEPT ![r] = IF batch[r] = {cur[r]} THEN "idle" ELSE "deliver"]
  /\ UNCHANGED << seen, ok >>

(* Mutant: the row is marked whatever Deliver returned.                    *)
MarkAnyDelivered(r) ==
  /\ pc[r] = "settle"
  /\ Statement(r)
  /\ \/ StatementOk(r) /\ rows' = [rows EXCEPT ![cur[r]].status = "delivered"]
     \/ StatementErr(r) /\ UNCHANGED rows
  /\ Settled(r)
  /\ UNCHANGED << completed, received, app, stops >>

MarkDelivered(r) ==
  /\ pc[r] = "settle" /\ ok[r]
  /\ Statement(r)
  /\ \/ StatementOk(r) /\ rows' = [rows EXCEPT ![cur[r]].status = "delivered"]
     \/ StatementErr(r) /\ UNCHANGED rows
  /\ Settled(r)
  /\ UNCHANGED << completed, received, app, stops >>

(* Mutant: rescheduling also resets the status.                            *)
RescheduleAsPending(r) ==
  /\ pc[r] = "settle" /\ ~ok[r]
  /\ Statement(r)
  /\ \/ /\ StatementOk(r)
        /\ rows' = [rows EXCEPT ![cur[r]] =
             [ status |-> "pending", attempts |-> seen[r][cur[r]] + 1, due |-> FALSE ]]
     \/ StatementErr(r) /\ UNCHANGED rows
  /\ Settled(r)
  /\ UNCHANGED << completed, received, app, stops >>

(* The row gets the attempts of the claim plus one and a later             *)
(* next_attempt_at; its status is not touched.                             *)
Reschedule(r) ==
  /\ pc[r] = "settle" /\ ~ok[r]
  /\ Statement(r)
  /\ \/ /\ StatementOk(r)
        /\ rows' = [rows EXCEPT ![cur[r]].attempts = seen[r][cur[r]] + 1,
                                ![cur[r]].due = FALSE]
     \/ StatementErr(r) /\ UNCHANGED rows
  /\ Settled(r)
  /\ UNCHANGED << completed, received, app, stops >>

-----------------------------------------------------------------------------
(* App.Run: on a signal or a server error the relay's context is           *)
(* cancelled, and awaitRelay waits until the goroutine has returned before *)
(* Close tears the pool down.                                              *)
Shutdown(r) ==
  /\ app[r] = "up" /\ stops < MaxStops
  /\ stops' = stops + 1
  /\ app' = [app EXCEPT ![r] = "stopping"]
  /\ UNCHANGED << store, received, relay, misuse, failures >>

(* Start sees the cancelled context between two ticks.                     *)
RelayStops(r) ==
  /\ pc[r] = "idle" /\ app[r] = "stopping"
  /\ pc' = [pc EXCEPT ![r] = "off"]
  /\ UNCHANGED << store, received, app, batch, seen, cur, ok, misuse, failures, stops >>

(* Mutant: Run does not wait for the relay.                                *)
CloseAtOnce(r) ==
  /\ app[r] = "stopping"
  /\ app' = [app EXCEPT ![r] = "closed"]
  /\ UNCHANGED << store, received, relay, misuse, failures, stops >>

Close(r) ==
  /\ app[r] = "stopping" /\ pc[r] = "off"
  /\ app' = [app EXCEPT ![r] = "closed"]
  /\ UNCHANGED << store, received, relay, misuse, failures, stops >>

Forget(r) ==
  /\ batch' = [batch EXCEPT ![r] = {}]
  /\ seen' = [seen EXCEPT ![r] = [ ev \in Events |-> 0 ]]
  /\ cur' = [cur EXCEPT ![r] = NoEvent]
  /\ ok' = [ok EXCEPT ![r] = FALSE]
  /\ pc' = [pc EXCEPT ![r] = "idle"]

(* A crash followed by a restart.                                          *)
Crash(r) ==
  /\ app[r] = "up" /\ stops < MaxStops
  /\ stops' = stops + 1
  /\ Forget(r)
  /\ UNCHANGED << store, received, app, misuse, failures >>

Restart(r) ==
  /\ app[r] = "closed"
  /\ app' = [app EXCEPT ![r] = "up"]
  /\ Forget(r)
  /\ UNCHANGED << store, received, misuse, failures, stops >>

-----------------------------------------------------------------------------
RelayStep(r) ==
  \/ ClaimDue(r) \/ MarkDelivered(r) \/ Reschedule(r)
  \/ \E ev \in Events : \E success \in BOOLEAN : Deliver(r, ev, success)

AppStep(r) == RelayStops(r) \/ Close(r) \/ Restart(r)

Next ==
  \/ \E ev \in Events : SaveCompletedWithOutbox(ev) \/ BecomesDue(ev)
  \/ \E r \in Relays : RelayStep(r) \/ AppStep(r) \/ Shutdown(r) \/ Crash(r)

Spec == Init /\ [][Next]_vars

(* The ticker of a running relay fires again and again, time passes, a     *)
(* process that shuts down is restarted.  Failures are bounded, so a POST  *)
(* is eventually accepted.                                                 *)
Fairness ==
  /\ \A ev \in Events : WF_vars(BecomesDue(ev))
  /\ \A r \in Relays : WF_vars(RelayStep(r)) /\ WF_vars(AppStep(r))

FairSpec == Spec /\ Fairness

-----------------------------------------------------------------------------
(* Types: an outbox row is absent or pending, in retry or delivered, with  *)
(* its attempts counted, whatever the relays and crashes do.               *)
TypeOK ==
  /\ completed \subseteq Events
  /\ rows \in [Events -> Row]
  /\ received \in [Events -> Nat]
  /\ app \in [Relays -> {"up", "stopping", "closed"}]
  /\ pc \in [Relays -> {"idle", "deliver", "settle", "off"}]
  /\ batch \in [Relays -> SUBSET Events]
  /\ seen \in [Relays -> [Events -> Nat]]
  /\ cur \in [Relays -> Events \cup {NoEvent}]
  /\ ok \in [Relays -> BOOLEAN]
  /\ misuse \in BOOLEAN
  /\ failures \in Nat /\ stops \in Nat

(* The inductive strengthening of DeliveredWasReceived: a relay that holds *)
(* a successful answer has it from a POST that was processed.              *)
Answered ==
  \A r \in Relays : pc[r] = "settle" =>
    /\ cur[r] \in batch[r]
    /\ ok[r] => received[cur[r]] > 0

BatchStored == \A r \in Relays : \A ev \in batch[r] : rows[ev].status # "absent"

(* A row is marked delivered only after the memory-engine has processed    *)
(* the webhook, whatever the relays, crashes and shutdowns.                *)
DeliveredWasReceived ==
  \A ev \in Events : rows[ev].status = "delivered" => received[ev] > 0

(* A change is stored as completed if and only if its webhook is in the    *)
(* outbox: SaveCompletedWithOutbox leaves no window between the two.       *)
CompletedIffEnqueued ==
  \A ev \in Events : ev \in completed <=> rows[ev].status # "absent"

(* No step drops a row or makes a delivered one pending again, also when   *)
(* another relay reschedules it late.                                      *)
NeverDropped ==
  [][ \A ev \in Events :
        /\ rows[ev].status # "absent" => rows'[ev].status # "absent"
        /\ rows[ev].status = "delivered" => rows'[ev].status = "delivered" ]_vars

(* The relay issues no statement after its process closed the pool: Run    *)
(* waits for the tick in flight.                                           *)
NoUseAfterClose == ~misuse

(* Every completed change is eventually delivered and marked: a failed     *)
(* POST, a failed statement, a crash or a shutdown only delays it.         *)
AtLeastOnce == \A ev \in Events : ev \in completed ~> rows[ev].status = "delivered"
=============================================================================
