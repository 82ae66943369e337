------------------------- MODULE OutboxRelayProofs --------------------------
(***************************************************************************)
(* Proofs of the safety properties of OutboxRelay, for any number of       *)
(* events and of relays, any batch limit and any number of failures,       *)
(* crashes and shutdowns.                                                  *)
(***************************************************************************)
EXTENDS OutboxRelay, TLAPS

(* Close waits for the relay goroutine: a closed pool has no relay that    *)
(* could still use it.                                                     *)
ClosedIsOff == \A r \in Relays : app[r] = "closed" => pc[r] = "off"

(* The inductive invariant.  DeliveredWasReceived needs Answered (a        *)
(* positive result of Deliver stems from a processed POST), NeverDropped   *)
(* and CompletedIffEnqueued need BatchStored (only stored rows are         *)
(* claimed), NoUseAfterClose needs ClosedIsOff.                            *)
IInv ==
  /\ TypeOK /\ Answered /\ BatchStored /\ ClosedIsOff
  /\ DeliveredWasReceived /\ CompletedIffEnqueued /\ NoUseAfterClose

USE DEF IInv

(* Leaves are first-order unless they name SMT.                            *)
USE Zenon

-----------------------------------------------------------------------------
(* The invariant holds at the start, with an empty outbox.                 *)
LEMMA InitIInv == Init => IInv
<1> SUFFICES ASSUME Init PROVE IInv
  OBVIOUS
<1>1. rows \in [Events -> Row]
  BY DEF Init, Row
<1>2. ok \in [Relays -> BOOLEAN] /\ misuse \in BOOLEAN
  BY DEF Init
<1>3. TypeOK
  BY <1>1, <1>2 DEF Init, TypeOK
<1>4. Answered /\ BatchStored /\ ClosedIsOff
  BY DEF Init, Answered, BatchStored, ClosedIsOff
<1>5. DeliveredWasReceived /\ CompletedIffEnqueued /\ NoUseAfterClose
  BY DEF Init, DeliveredWasReceived, CompletedIffEnqueued, NoUseAfterClose
<1> QED BY <1>3, <1>4, <1>5

(* Completing a change, and the passing of time, keep the invariant: the   *)
(* new row is stored together with the change.                             *)
LEMMA StoreIInv ==
  ASSUME IInv, NEW ev \in Events, SaveCompletedWithOutbox(ev) \/ BecomesDue(ev)
  PROVE  IInv'
<1>1. CASE SaveCompletedWithOutbox(ev)
  <2>0. NewEvent \in Row
    BY DEF NewEvent, Row
  <2>1. TypeOK'
    BY SMT, <1>1, <2>0 DEF SaveCompletedWithOutbox, Fault, TypeOK, store, relay
  <2>2. (Answered /\ ClosedIsOff /\ NoUseAfterClose)'
    BY <1>1 DEF SaveCompletedWithOutbox, Answered, ClosedIsOff, NoUseAfterClose, store, relay
  <2>3. NewEvent.status = "pending"
    BY DEF NewEvent
  <2>4. BatchStored'
    BY <1>1, <2>3 DEF SaveCompletedWithOutbox, BatchStored, TypeOK, store, relay
  <2>5. DeliveredWasReceived'
    BY <1>1, <2>3 DEF SaveCompletedWithOutbox, DeliveredWasReceived, TypeOK, store, relay
  <2>6. CompletedIffEnqueued'
    BY <1>1, <2>3 DEF SaveCompletedWithOutbox, CompletedIffEnqueued, TypeOK, store, relay
  <2> QED BY <2>1, <2>2, <2>4, <2>5, <2>6
<1>2. CASE BecomesDue(ev)
  <2>1. TypeOK'
    <3>1. rows' \in [Events -> Row]
      <4>1. [rows[ev] EXCEPT !.due = TRUE] \in Row
        <5>1. rows[ev] \in Row
          BY DEF TypeOK
        <5> QED BY <5>1 DEF Row
      <4>2. rows' = [rows EXCEPT ![ev] = [rows[ev] EXCEPT !.due = TRUE]]
        BY SMT, <1>2 DEF BecomesDue
      <4> QED BY <4>1, <4>2 DEF TypeOK
    <3> QED BY <1>2, <3>1 DEF BecomesDue, TypeOK, relay
  <2>2. (Answered /\ ClosedIsOff /\ NoUseAfterClose)'
    BY <1>2 DEF BecomesDue, Answered, ClosedIsOff, NoUseAfterClose, relay
  <2>3. (BatchStored /\ DeliveredWasReceived /\ CompletedIffEnqueued)'
    BY <1>2 DEF BecomesDue, BatchStored, DeliveredWasReceived, CompletedIffEnqueued, TypeOK,
                Row, relay
  <2> QED BY <2>1, <2>2, <2>3
<1> QED BY <1>1, <1>2

(* A claim takes rows that are pending, and only with the pool open.       *)
LEMMA ClaimDueIInv ==
  ASSUME IInv, NEW r \in Relays, ClaimDue(r)
  PROVE  IInv'
<1>1. TypeOK'
  BY SMT DEF ClaimDue, Statement, StatementOk, DueRows, TypeOK, Row, store
<1>2. (Answered /\ ClosedIsOff /\ NoUseAfterClose)'
  BY DEF ClaimDue, Statement, StatementOk, Answered, ClosedIsOff, NoUseAfterClose, TypeOK, store
<1>3. (BatchStored /\ DeliveredWasReceived /\ CompletedIffEnqueued)'
  BY DEF ClaimDue, DueRows, BatchStored, DeliveredWasReceived, CompletedIffEnqueued, TypeOK,
         store
<1> QED BY <1>1, <1>2, <1>3

(* A positive result comes with the POST it reports.                       *)
LEMMA DeliverIInv ==
  ASSUME IInv, NEW r \in Relays, NEW ev \in Events, NEW success \in BOOLEAN,
         Deliver(r, ev, success)
  PROVE  IInv'
<1>0. \A e \in Events : received[e] \in Nat /\ received'[e] \in Nat /\ received'[e] >= received[e]
  <2>1. received' = received \/ received' = [received EXCEPT ![ev] = @ + 1]
    BY DEF Deliver
  <2> QED BY SMTT(20), <2>1 DEF TypeOK
<1>1. TypeOK'
  BY SMT DEF Deliver, Fault, TypeOK, store
<1>2. Answered'
  <2>1. success => received'[ev] > 0
    BY SMT DEF Deliver, TypeOK
  <2> QED BY SMT, <1>0, <2>1 DEF Deliver, Answered, TypeOK
<1>3. (ClosedIsOff /\ NoUseAfterClose)'
  BY DEF Deliver, ClosedIsOff, NoUseAfterClose, TypeOK
<1>4. (BatchStored /\ CompletedIffEnqueued)'
  BY DEF Deliver, BatchStored, CompletedIffEnqueued, store
<1>5. DeliveredWasReceived'
  BY SMT, <1>0 DEF Deliver, DeliveredWasReceived, store
<1> QED BY <1>1, <1>2, <1>3, <1>4, <1>5

(* The two updates of a row yield a row and touch only what they name.     *)
LEMMA RowUpdates ==
  ASSUME NEW row \in Row, NEW n \in Nat
  PROVE  /\ [ row EXCEPT !.status = "delivered" ] \in Row
         /\ [ row EXCEPT !.status = "delivered" ].status = "delivered"
         /\ [ row EXCEPT !.attempts = n, !.due = FALSE ] \in Row
         /\ [ row EXCEPT !.attempts = n, !.due = FALSE ].status = row.status
<1>1. row = [ status |-> row.status, attempts |-> row.attempts, due |-> row.due ]
  BY DEF Row
<1>2. row.status \in {"absent", "pending", "delivered"} /\ row.attempts \in Nat
      /\ row.due \in BOOLEAN
  BY DEF Row
<1>3. [ row EXCEPT !.status = "delivered" ] =
        [ status |-> "delivered", attempts |-> row.attempts, due |-> row.due ]
  BY SMT, <1>1
<1>4. [ status |-> "delivered", attempts |-> row.attempts, due |-> row.due ] \in Row
  BY <1>2, Zenon DEF Row
<1>5. [ row EXCEPT !.attempts = n ] =
        [ status |-> row.status, attempts |-> n, due |-> row.due ]
  BY SMT, <1>1
<1>6. [ status |-> row.status, attempts |-> n, due |-> row.due ] \in Row
  BY <1>2, Zenon DEF Row
<1>7. PICK one \in Row : one = [ row EXCEPT !.attempts = n ] /\ one.status = row.status
  BY <1>5, <1>6
<1>8. [ one EXCEPT !.due = FALSE ] \in Row /\ [ one EXCEPT !.due = FALSE ].status = one.status
  BY DEF Row
<1> QED BY <1>3, <1>4, <1>7, <1>8

(* What settling an event does to the table: no row is dropped, and a row  *)
(* becomes delivered only for a positive result of Deliver.                *)
LEMMA SettledRows ==
  ASSUME IInv, NEW r \in Relays, MarkDelivered(r) \/ Reschedule(r)
  PROVE  /\ cur[r] \in Events /\ cur[r] \in batch[r]
         /\ rows' \in [Events -> Row]
         /\ \A ev \in Events :
              /\ rows'[ev].status = "absent" <=> rows[ev].status = "absent"
              /\ rows[ev].status = "delivered" => rows'[ev].status = "delivered"
              /\ rows'[ev].status = "delivered" =>
                   rows[ev].status = "delivered" \/ received[ev] > 0
<1>0. cur[r] \in Events /\ cur[r] \in batch[r] /\ (ok[r] => received[cur[r]] > 0)
  BY DEF MarkDelivered, Reschedule, Answered, TypeOK
<1>1. rows[cur[r]].status # "absent"
  BY <1>0 DEF BatchStored
<1>2. seen[r][cur[r]] + 1 \in Nat
  BY SMT, <1>0 DEF TypeOK
<1>3. CASE UNCHANGED rows
  BY <1>0, <1>3 DEF TypeOK
<1>4. CASE ok[r] /\ rows' = [rows EXCEPT ![cur[r]].status = "delivered"]
  <2>1. rows' \in [Events -> Row]
    BY <1>0, <1>4, RowUpdates DEF TypeOK
  <2>2. \A ev \in Events : ev # cur[r] => rows'[ev] = rows[ev]
    BY <1>4 DEF TypeOK
  <2>3. rows'[cur[r]].status = "delivered"
    BY <1>0, <1>4 DEF TypeOK, Row
  <2> QED BY <1>0, <1>1, <1>4, <2>1, <2>2, <2>3
<1>5. CASE rows' = [rows EXCEPT ![cur[r]].attempts = seen[r][cur[r]] + 1, ![cur[r]].due = FALSE]
  <2>1. rows' \in [Events -> Row]
    BY <1>0, <1>2, <1>5, RowUpdates DEF TypeOK
  <2>2. \A ev \in Events : rows'[ev].status = rows[ev].status
    BY SMT, <1>0, <1>5 DEF TypeOK, Row
  <2> QED BY <1>0, <2>1, <2>2
<1> QED BY <1>3, <1>4, <1>5 DEF MarkDelivered, Reschedule

(* Settling an event keeps the invariant.                                  *)
LEMMA SettleIInv ==
  ASSUME IInv, NEW r \in Relays, MarkDelivered(r) \/ Reschedule(r)
  PROVE  IInv'
<1>0. /\ Settled(r) /\ Statement(r) /\ pc[r] = "settle"
      /\ UNCHANGED << completed, received, app, stops >>
      /\ failures' \in {failures, failures + 1}
  BY DEF MarkDelivered, Reschedule, StatementOk, StatementErr, Fault
<1>1. ~misuse'
  BY <1>0 DEF Statement, ClosedIsOff, NoUseAfterClose
<1>2. /\ batch' \in [Relays -> SUBSET Events]
      /\ \A q \in Relays : batch'[q] \subseteq batch[q] /\ (q # r => batch'[q] = batch[q])
  BY <1>0 DEF Settled, TypeOK
<1>3. /\ pc' \in [Relays -> {"idle", "deliver", "settle", "off"}]
      /\ pc'[r] # "settle"
      /\ \A q \in Relays : q # r => pc'[q] = pc[q]
  BY <1>0 DEF Settled, TypeOK
<1>4. /\ cur' \in [Relays -> Events \cup {NoEvent}]
      /\ \A q \in Relays : q # r => cur'[q] = cur[q]
  BY <1>0 DEF Settled, TypeOK
<1>5. UNCHANGED << seen, ok >>
  BY <1>0 DEF Settled
<1>a. rows' \in [Events -> Row]
  BY SettledRows
<1>b. misuse' \in BOOLEAN
  BY <1>0 DEF Statement
<1>c. failures' \in Nat
  BY SMT, <1>0 DEF TypeOK
<1>6. TypeOK'
  BY <1>0, <1>2, <1>3, <1>4, <1>5, <1>a, <1>b, <1>c DEF TypeOK
<1>7. Answered'
  BY <1>0, <1>2, <1>3, <1>4, <1>5 DEF Answered
<1>8. (ClosedIsOff /\ NoUseAfterClose)'
  BY <1>0, <1>1, <1>3 DEF ClosedIsOff, NoUseAfterClose
<1>9. (BatchStored /\ DeliveredWasReceived /\ CompletedIffEnqueued)'
  BY <1>0, <1>2, SettledRows DEF TypeOK, BatchStored, DeliveredWasReceived, CompletedIffEnqueued
<1> QED BY <1>6, <1>7, <1>8, <1>9

(* Shutdowns, crashes and restarts touch neither the outbox nor the        *)
(* memory-engine, and a pool is closed only behind its relay.              *)
LEMMA AppIInv ==
  ASSUME IInv, NEW r \in Relays, AppStep(r) \/ Shutdown(r) \/ Crash(r)
  PROVE  IInv'
<1>1. ASSUME RelayStops(r) \/ Close(r) \/ Shutdown(r) PROVE IInv'
  <2> USE <1>1 DEF RelayStops, Close, Shutdown, store, relay
  <2>0. UNCHANGED << completed, rows, received, batch, seen, cur, ok, misuse, failures >>
    OBVIOUS
  <2>a. stops' \in Nat
    BY SMT DEF TypeOK
  <2>b. /\ pc' \in [Relays -> {"idle", "deliver", "settle", "off"}]
        /\ app' \in [Relays -> {"up", "stopping", "closed"}]
    BY DEF TypeOK
  <2>1. TypeOK'
    BY <2>0, <2>a, <2>b DEF TypeOK
  <2>2. (Answered /\ ClosedIsOff /\ NoUseAfterClose)'
    BY SMT DEF Answered, ClosedIsOff, NoUseAfterClose, TypeOK
  <2>3. (BatchStored /\ DeliveredWasReceived /\ CompletedIffEnqueued)'
    BY DEF BatchStored, DeliveredWasReceived, CompletedIffEnqueued
  <2> QED BY <2>1, <2>2, <2>3
<1>2. ASSUME Restart(r) \/ Crash(r) PROVE IInv'
  <2>0. /\ Forget(r) /\ UNCHANGED << completed, rows, received, misuse, failures >>
        /\ app' \in [Relays -> {"up", "stopping", "closed"}] /\ stops' \in Nat
        /\ app'[r] = "up" /\ \A q \in Relays : q # r => app'[q] = app[q]
    BY SMT, <1>2 DEF Restart, Crash, store, TypeOK
  <2>1. /\ pc' \in [Relays -> {"idle", "deliver", "settle", "off"}] /\ pc'[r] = "idle"
        /\ \A q \in Relays : q # r => pc'[q] = pc[q]
    BY <2>0 DEF Forget, TypeOK
  <2>2. /\ batch' \in [Relays -> SUBSET Events] /\ batch'[r] = {}
        /\ \A q \in Relays : q # r => batch'[q] = batch[q]
    BY <2>0 DEF Forget, TypeOK
  <2>3. /\ cur' \in [Relays -> Events \cup {NoEvent}]
        /\ \A q \in Relays : q # r => cur'[q] = cur[q]
    BY <2>0 DEF Forget, TypeOK
  <2>4. seen' \in [Relays -> [Events -> Nat]]
    BY <2>0 DEF Forget, TypeOK
  <2>5. ok' \in [Relays -> BOOLEAN] /\ \A q \in Relays : q # r => ok'[q] = ok[q]
    BY <2>0 DEF Forget, TypeOK
  <2>6. TypeOK'
    BY <2>0, <2>1, <2>2, <2>3, <2>4, <2>5 DEF TypeOK
  <2>7. (Answered /\ ClosedIsOff /\ NoUseAfterClose)'
    BY <2>0, <2>1, <2>2, <2>3, <2>5 DEF Answered, ClosedIsOff, NoUseAfterClose
  <2>8. (BatchStored /\ DeliveredWasReceived /\ CompletedIffEnqueued)'
    BY <2>0, <2>2 DEF BatchStored, DeliveredWasReceived, CompletedIffEnqueued
  <2> QED BY <2>6, <2>7, <2>8
<1> QED BY <1>1, <1>2 DEF AppStep

(* Every step keeps the invariant.                                         *)
LEMMA NextIInv == IInv /\ [Next]_vars => IInv'
<1> SUFFICES ASSUME IInv, [Next]_vars PROVE IInv'
  OBVIOUS
<1>1. CASE UNCHANGED vars
  BY <1>1 DEF vars, store, relay, TypeOK, Answered, BatchStored, ClosedIsOff,
              DeliveredWasReceived, CompletedIffEnqueued, NoUseAfterClose
<1>2. CASE Next
  BY <1>2, StoreIInv, ClaimDueIInv, DeliverIInv, SettleIInv, AppIInv DEF Next, RelayStep
<1> QED BY <1>1, <1>2

(* The inductive invariant holds in every reachable state.                 *)
THEOREM IInvCorrect == Spec => []IInv
BY InitIInv, NextIInv, PTL DEF Spec

-----------------------------------------------------------------------------
(* Every variable has its type.                                            *)
THEOREM TypeCorrect == Spec => []TypeOK
<1>1. IInv => TypeOK
  OBVIOUS
<1> QED BY <1>1, IInvCorrect, PTL

(* A row is delivered only if the memory-engine processed its webhook.     *)
THEOREM DeliveredWasReceivedCorrect == Spec => []DeliveredWasReceived
<1>1. IInv => DeliveredWasReceived
  OBVIOUS
<1> QED BY <1>1, IInvCorrect, PTL

(* A change is completed if and only if its webhook is enqueued.           *)
THEOREM CompletedIffEnqueuedCorrect == Spec => []CompletedIffEnqueued
<1>1. IInv => CompletedIffEnqueued
  OBVIOUS
<1> QED BY <1>1, IInvCorrect, PTL

(* No relay uses a pool that its process has closed.                       *)
THEOREM NoUseAfterCloseCorrect == Spec => []NoUseAfterClose
<1>1. IInv => NoUseAfterClose
  OBVIOUS
<1> QED BY <1>1, IInvCorrect, PTL

(* No step of any process drops a row or makes a delivered one pending.    *)
THEOREM NeverDroppedCorrect == Spec => NeverDropped
<1> DEFINE Kept ==
      \A ev \in Events :
        /\ rows[ev].status # "absent" => rows'[ev].status # "absent"
        /\ rows[ev].status = "delivered" => rows'[ev].status = "delivered"
<1>1. ASSUME IInv, [Next]_vars PROVE Kept
  <2>1. ASSUME UNCHANGED rows PROVE Kept
    BY <2>1
  <2>2. ASSUME NEW ev \in Events, SaveCompletedWithOutbox(ev) \/ BecomesDue(ev) PROVE Kept
    BY <1>1, <2>2 DEF SaveCompletedWithOutbox, BecomesDue, NewEvent, CompletedIffEnqueued,
                      TypeOK, Row, store
  <2>3. ASSUME NEW r \in Relays, MarkDelivered(r) \/ Reschedule(r) PROVE Kept
    BY <1>1, <2>3, SettledRows
  <2>4. ASSUME NEW r \in Relays,
               ClaimDue(r) \/ AppStep(r) \/ Shutdown(r) \/ Crash(r)
                 \/ \E ev \in Events : \E success \in BOOLEAN : Deliver(r, ev, success)
        PROVE UNCHANGED rows
    BY <2>4 DEF ClaimDue, AppStep, RelayStops, Close, Restart, Shutdown, Crash, Deliver, store
  <2>5. CASE UNCHANGED vars
    BY <2>1, <2>5 DEF vars, store
  <2>6. CASE Next
    BY <2>1, <2>2, <2>3, <2>4, <2>6 DEF Next, RelayStep
  <2> QED BY <1>1, <2>5, <2>6
<1> QED BY <1>1, IInvCorrect, PTL DEF Spec, NeverDropped
=============================================================================
