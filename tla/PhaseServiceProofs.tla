------------------------- MODULE PhaseServiceProofs -------------------------
(***************************************************************************)
(* Proofs about PhaseService for every retry budget, every start, every    *)
(* bound and every set of concurrent requests: first the table of phases,  *)
(* then the row of the change, the refinement of ChangeLifecycle included. *)
(***************************************************************************)
EXTENDS PhaseService, TLAPS

(* Leaves are first-order unless they name SMT.                            *)
USE Zenon

(* Upserting into the phases table keeps every row's id, type and attempt. *)
LEMMA UpsertKeeps ==
  ASSUME NEW T \in SUBSET Phase, NEW p \in Phase, NEW r \in T
  PROVE  \E s \in Upsert(T, p) : s.id = r.id /\ Key(s) = Key(r)
<1>1. CASE SameKey(T, p)
  <2> DEFINE f(x) == IF Key(x) = Key(p) THEN [p EXCEPT !.id = x.id] ELSE x
  <2>1. f(r) \in Upsert(T, p)
    BY <1>1 DEF Upsert
  <2>2. f(r).id = r.id /\ Key(f(r)) = Key(r)
    BY DEF Key, Phase
  <2> QED BY <2>1, <2>2
<1>2. CASE ~SameKey(T, p)
  BY <1>2 DEF Upsert
<1> QED BY <1>1, <1>2

(* After the upsert there is a row for the saved type and attempt.         *)
LEMMA UpsertHas ==
  ASSUME NEW T \in SUBSET Phase, NEW p \in Phase
  PROVE  SameKey(Upsert(T, p), p)
<1>1. CASE SameKey(T, p)
  <2>1. PICK r \in T : Key(r) = Key(p)
    BY <1>1 DEF SameKey
  <2>2. \E s \in Upsert(T, p) : s.id = r.id /\ Key(s) = Key(r)
    BY UpsertKeeps
  <2> QED BY <2>1, <2>2 DEF SameKey
<1>2. CASE ~SameKey(T, p)
  BY <1>2 DEF Upsert, SameKey
<1> QED BY <1>1, <1>2

(* Every row after the upsert is an old row, the saved phase under the id  *)
(* of the row with the same type and attempt, or the saved phase itself.   *)
LEMMA UpsertFrom ==
  ASSUME NEW T \in SUBSET Phase, NEW p \in Phase, NEW s \in Upsert(T, p)
  PROVE  \/ s \in T /\ Key(s) # Key(p)
         \/ \E r \in T : Key(r) = Key(p) /\ s = [p EXCEPT !.id = r.id]
         \/ s = p /\ ~SameKey(T, p)
         \/ s \in T /\ ~SameKey(T, p)
BY DEF Upsert, SameKey

(* PhaseRepo.Save leaves a table of phase rows.                            *)
LEMMA UpsertType ==
  ASSUME NEW T \in SUBSET Phase, NEW p \in Phase
  PROVE  Upsert(T, p) \in SUBSET Phase
<1> SUFFICES ASSUME NEW s \in Upsert(T, p) PROVE s \in Phase
  OBVIOUS
<1>1. ASSUME NEW r \in T PROVE [p EXCEPT !.id = r.id] \in Phase
  BY <1>1 DEF Phase
<1> QED BY SMT, UpsertFrom, <1>1

-----------------------------------------------------------------------------
(* Type correctness.                                                       *)

(* The aggregate methods return aggregates.                                *)
LEMMA AggregateTypes ==
  ASSUME NEW p \in Phase
  PROVE  /\ Start(p) \in Phase
         /\ Restart(p) \in Phase
         /\ MarkInterrupted(p) \in Phase
         /\ \A env \in Envelopes : Complete(p, env) \in Phase
<1> DEFINE n == p.attempts + 1
<1>0. n \in Nat
  BY SMT DEF Phase
<1> HIDE DEF n
<1>1. Start(p) \in Phase
  <2>1. Start(p) = [p EXCEPT !.status = "running", !.attempts = n]
    BY DEF Start, n
  <2> QED BY <1>0, <2>1 DEF Phase, PhaseStatuses
<1>2. Restart(p) \in Phase
  <2>1. Restart(p) = [p EXCEPT !.status = "running", !.attempts = n, !.conf = "none"]
    BY DEF Restart, n
  <2> QED BY <1>0, <2>1 DEF Phase, PhaseStatuses, Confidences
<1>3. MarkInterrupted(p) \in Phase
  BY DEF Phase, MarkInterrupted, PhaseStatuses
<1>4. ASSUME NEW env \in Envelopes PROVE Complete(p, env) \in Phase
  <2>1. env.status \in PhaseStatuses /\ env.conf \in Confidences
    BY DEF Envelopes, PhaseStatuses, Confidences
  <2> QED BY <2>1 DEF Phase, Complete
<1> QED BY <1>1, <1>2, <1>3, <1>4

(* The validator and the critic turn envelopes into envelopes.             *)
LEMMA EnvelopeOps ==
  ASSUME NEW p, NEW env \in Envelopes
  PROVE  /\ Validate(p, env) \in Envelopes
         /\ ReviewConcerns(env) \subseteq Envelopes
<1>1. [env EXCEPT !.status = "done_with_concerns"] \in Envelopes
  BY DEF Envelopes
<1> QED BY <1>1 DEF Validate, ReviewConcerns

(* The envelopes the service makes up itself are envelopes.                *)
LEMMA EnvelopeTypes ==
  /\ BlockedEnvelope \in Envelopes
  /\ [status |-> "done", conf |-> "high"] \in Envelopes
BY DEF BlockedEnvelope, Envelopes

Thread == [ pc : Locations, p : Phase, c : Change ]

(* The values a thread starts from are well typed.                         *)
LEMMA InitialTypes ==
  /\ NoPhase \in Phase
  /\ NewChange \in Change
  /\ Idle \in Thread
BY DEF NoPhase, Phase, NewChange, Change, Idle, Thread, Locations, PhaseTypes,
       PhaseStatuses, Confidences, ChangeStatuses

(* Every phase type has a place in the canonical order.                    *)
LEMMA PhaseIndexType ==
  ASSUME NEW pt \in PhaseTypes
  PROVE  PhaseIndex(pt) \in 1 .. 9
<1>1. Len(AllPhaseTypes) = 9
  BY DEF AllPhaseTypes
<1>2. \E i \in 1 .. 9 : AllPhaseTypes[i] = pt
  BY SMT DEF AllPhaseTypes, PhaseTypes
<1> QED BY <1>1, <1>2 DEF PhaseIndex

(* Every place in the canonical order holds a phase type.                  *)
LEMMA AllPhaseTypesType ==
  ASSUME NEW i \in 1 .. 9
  PROVE  AllPhaseTypes[i] \in PhaseTypes
BY SMT DEF AllPhaseTypes, PhaseTypes

(* A change that reached StartPhase is well typed.                         *)
THEOREM InitType == Init => TypeOK
<1> SUFFICES ASSUME Init PROVE TypeOK
  OBVIOUS
<1>1. FinishedRows \subseteq Phase
  <2> SUFFICES ASSUME StartPhase # "init", NEW i \in 1 .. PhaseIndex(StartPhase)
               PROVE  [ id |-> i, type |-> AllPhaseTypes[i], status |-> "done",
                        attempts |-> 1, conf |-> "high" ] \in Phase
    BY DEF FinishedRows
  <2>1. i \in 1 .. 9
    BY SMT, PhaseIndexType, ServiceAssumption
  <2> QED BY SMT, <2>1, AllPhaseTypesType DEF Phase, PhaseStatuses, Confidences
<1>2. [ NewChange EXCEPT !.current = StartPhase ] \in Change
  BY ServiceAssumption, InitialTypes DEF Change, NewChange
<1>3. scan \subseteq Phase /\ versions \subseteq Change
  BY <1>2 DEF Init
<1>4. verified \in BOOLEAN /\ reverted \in BOOLEAN
  BY DEF Init, DoneConfident
<1>5. up \in BOOLEAN /\ audit \subseteq (Nat \X Events)
  BY DEF Init
<1>6. th \in [ Threads -> [ pc : Locations, p : Phase, c : Change ] ]
  BY InitialTypes DEF Init, Thread
<1>7. /\ outbox \in Nat /\ requests \in 0 .. MaxRequests
      /\ crashes \in 0 .. MaxCrashes /\ faults \in 0 .. MaxFaults
      /\ scans \in 0 .. MaxScans
  BY SMT, ServiceAssumption DEF Init
<1>8. phases \subseteq Phase /\ change \in Change
  BY <1>1, <1>2 DEF Init
<1> QED BY <1>3, <1>4, <1>5, <1>6, <1>7, <1>8 DEF TypeOK

(* The ways in which a step updates its thread keep the type.              *)
LEMMA ThreadUpdates ==
  ASSUME th \in [Threads -> Thread], NEW t \in Threads
  PROVE  /\ \A rec \in Thread : [th EXCEPT ![t] = rec] \in [Threads -> Thread]
         /\ \A pc \in Locations : [th EXCEPT ![t].pc = pc] \in [Threads -> Thread]
         /\ \A pc \in Locations, p \in Phase :
              [th EXCEPT ![t].pc = pc, ![t].p = p] \in [Threads -> Thread]
BY DEF Thread

(* A thread that ends is well typed.                                       *)
LEMMA ReturnType ==
  ASSUME th \in [Threads -> Thread], NEW t \in Threads, Return(t)
  PROVE  th' \in [Threads -> Thread]
BY ThreadUpdates, InitialTypes DEF Return

(* A thread that moves on is well typed.                                   *)
LEMMA GotoType ==
  ASSUME th \in [Threads -> Thread], NEW t \in Threads,
         NEW pc \in Locations, Goto(t, pc)
  PROVE  th' \in [Threads -> Thread]
BY ThreadUpdates DEF Goto

(* Every status has an event.                                              *)
LEMMA EventTypes ==
  ASSUME NEW status
  PROVE  EventTypeForStatus(status) \in Events
BY DEF EventTypeForStatus, Events

(* Transient database errors stay within their bound.                      *)
LEMMA DBFaultType ==
  ASSUME faults \in 0 .. MaxFaults, DBFault
  PROVE  faults' \in 0 .. MaxFaults
BY SMT, ServiceAssumption DEF DBFault

(* Either outcome of PhaseRepo.Save keeps the types.                       *)
LEMMA SaveTypes ==
  ASSUME TypeOK, NEW p \in Phase, SaveOk(p) \/ SaveFails(p)
  PROVE  phases' \subseteq Phase /\ faults' \in 0 .. MaxFaults
<1>1. CASE SaveOk(p)
  BY <1>1, UpsertType DEF SaveOk, TypeOK
<1>2. CASE SaveFails(p)
  BY <1>2, DBFaultType DEF SaveFails, TypeOK
<1> QED BY <1>1, <1>2

(* Appending an event keeps the type of the log.                           *)
LEMMA EmitType ==
  ASSUME TypeOK, NEW id \in Nat, NEW ev \in Events, Emit(id, ev)
  PROVE  audit' \subseteq (Nat \X Events)
BY SMT DEF Emit, TypeOK

(* Every outcome of runAsync's completion keeps the types.                 *)
LEMMA CompleteAndSaveType ==
  ASSUME TypeOK, NEW t \in Threads, NEW env \in Envelopes, CompleteAndSave(t, env)
  PROVE  /\ phases' \subseteq Phase
         /\ faults' \in 0 .. MaxFaults
         /\ audit' \subseteq (Nat \X Events)
         /\ th' \in [Threads -> Thread]
<1> DEFINE p == Complete(th[t].p, env)
<1>1. th \in [Threads -> Thread] /\ th[t].p \in Phase
  BY DEF TypeOK, Thread
<1>2. p \in Phase
  BY <1>1, AggregateTypes
<1>3. "fail" \in Locations /\ "advance" \in Locations
  BY DEF Locations
<1>4. CASE ~CanComplete(th[t].p, env) /\ Goto(t, "fail") /\ UNCHANGED << phases, audit, faults >>
  BY <1>1, <1>3, <1>4, GotoType DEF TypeOK
<1>5. CASE /\ SaveFails(p)
           /\ th' = [th EXCEPT ![t].pc = "fail", ![t].p = p]
           /\ UNCHANGED audit
  BY <1>1, <1>2, <1>3, <1>5, SaveTypes, ThreadUpdates DEF TypeOK
<1>6. CASE /\ SaveOk(p)
           /\ th' = [th EXCEPT ![t].pc = "advance", ![t].p = p]
           /\ UNCHANGED audit
  BY <1>1, <1>2, <1>3, <1>6, SaveTypes, ThreadUpdates DEF TypeOK
<1>7. CASE SaveOk(p) /\ Emit(p.id, EventTypeForStatus(p.status)) /\ Return(t)
  <2>1. p.id \in Nat
    BY <1>2 DEF Phase
  <2> QED BY <1>1, <1>2, <1>7, <2>1, SaveTypes, EmitType, EventTypes, ReturnType DEF TypeOK
<1> QED BY <1>4, <1>5, <1>6, <1>7 DEF CompleteAndSave

(* The types of what the server works on.                                  *)
ServerOK ==
  /\ phases \subseteq Phase
  /\ change \in Change
  /\ outbox \in Nat
  /\ audit \subseteq (Nat \X Events)
  /\ th \in [ Threads -> [ pc : Locations, p : Phase, c : Change ] ]
  /\ up \in BOOLEAN
  /\ requests \in 0 .. MaxRequests
  /\ crashes \in 0 .. MaxCrashes
  /\ faults \in 0 .. MaxFaults

(* No step of a handler, a goroutine, a crash or the boot scan leaves the  *)
(* types.                                                                  *)
LEMMA ServerType ==
  ASSUME TypeOK, ServerStep
  PROVE  ServerOK'
<1> USE ServiceAssumption
<1>0. th \in [Threads -> Thread]
  BY DEF TypeOK, Thread
<1>L. /\ "run_check" \in Locations /\ "run_prior" \in Locations
      /\ "run_save" \in Locations /\ "resume_save" \in Locations
      /\ "approve" \in Locations /\ "reject" \in Locations
      /\ "rejected" \in Locations /\ "abort" \in Locations
      /\ "async" \in Locations /\ "apply" \in Locations
      /\ "preflight" \in Locations /\ "dispatch" \in Locations
      /\ "advance" \in Locations /\ "fail" \in Locations
  BY DEF Locations
<1>E. /\ "phase.started" \in Events /\ "phase.failed" \in Events
      /\ "approval.required" \in Events /\ "approval.approved" \in Events
      /\ "approval.rejected" \in Events
  BY DEF Events
<1>A. ASSUME NEW t \in Threads, Arrives(t) PROVE requests' \in 0 .. MaxRequests
  BY SMT, <1>A DEF Arrives, TypeOK
<1>T. ASSUME NEW t \in Threads
      PROVE  /\ th[t].p \in Phase /\ th[t].p.id \in Nat /\ th[t].p.type \in PhaseTypes
             /\ th[t].c \in Change
  BY <1>0 DEF Thread, Phase
<1>R. ASSUME NEW r \in phases PROVE r \in Phase
  BY DEF TypeOK
<1>1. ASSUME NEW t \in Threads, NEW pt \in PhaseTypes, RunFindChange(t, pt)
      PROVE  ServerOK'
  <2>1. PICK id \in PhaseIds :
          th' = [th EXCEPT ![t] = [ pc |-> "run_check", c |-> change,
                                    p |-> [NoPhase EXCEPT !.id = id, !.type = pt] ]]
    BY <1>1 DEF RunFindChange
  <2>2. [NoPhase EXCEPT !.id = id, !.type = pt] \in Phase
    BY InitialTypes DEF Phase, NoPhase
  <2>3. [ pc |-> "run_check", c |-> change,
          p |-> [NoPhase EXCEPT !.id = id, !.type = pt] ] \in Thread
    BY <1>L, <2>2 DEF Thread, TypeOK
  <2>4. th' \in [Threads -> Thread]
    BY <1>0, <2>1, <2>3, ThreadUpdates
  <2> QED BY <1>1, <1>A, <2>4 DEF RunFindChange, TypeOK, ServerOK, Thread
<1>2. ASSUME NEW t \in Threads, RunCheckRunning(t) PROVE ServerOK'
  <2>1. th' \in [Threads -> Thread]
    BY <1>0, <1>2, <1>L, GotoType, ReturnType DEF RunCheckRunning
  <2> QED BY <1>2, <2>1 DEF RunCheckRunning, TypeOK, ServerOK, Thread
<1>3. ASSUME NEW t \in Threads, RunFindPrior(t) PROVE ServerOK'
  <2>1. PriorAttempts(phases, th[t].p.type) \in Nat
    BY <1>R DEF PriorAttempts, Latest, Phase
  <2>2. PICK n \in Nat :
          /\ faults' = faults \/ DBFault
          /\ \/ th' = [th EXCEPT ![t].pc = "run_save",
                                 ![t].p = Start([th[t].p EXCEPT !.attempts = n])]
             \/ Return(t)
    BY <1>3, <2>1 DEF RunFindPrior
  <2> DEFINE p == [th[t].p EXCEPT !.attempts = n]
             q == Start(p)
  <2>3. p \in Phase
    BY <1>T DEF Phase
  <2>4. q \in Phase
    BY <2>3, AggregateTypes
  <2>5. th' = [th EXCEPT ![t].pc = "run_save", ![t].p = q] \/ Return(t)
    BY <2>2
  <2> HIDE DEF q
  <2>6. [th EXCEPT ![t].pc = "run_save", ![t].p = q] \in [Threads -> Thread]
    BY <1>0, <1>L, <2>4, ThreadUpdates
  <2>7. th' \in [Threads -> Thread]
    BY <1>0, <2>5, <2>6, ReturnType
  <2>8. faults' \in 0 .. MaxFaults
    BY <2>2, DBFaultType DEF TypeOK
  <2> QED BY <1>3, <2>7, <2>8 DEF RunFindPrior, TypeOK, ServerOK, Thread
<1>4. ASSUME NEW t \in Threads, RunSave(t) PROVE ServerOK'
  <2>1. phases' \subseteq Phase /\ faults' \in 0 .. MaxFaults
    BY <1>4, <1>T, SaveTypes DEF RunSave
  <2>2. audit' \subseteq (Nat \X Events)
    BY <1>4, <1>T, <1>E, EmitType DEF RunSave, TypeOK
  <2>3. th' \in [Threads -> Thread]
    BY <1>0, <1>4, <1>L, GotoType, ReturnType DEF RunSave
  <2> QED BY <1>4, <2>1, <2>2, <2>3 DEF RunSave, TypeOK, ServerOK, Thread
<1>5. ASSUME NEW t \in Threads, NEW r \in phases, ResumeFind(t, r) PROVE ServerOK'
  <2>1. Start(r) \in Phase /\ Restart(r) \in Phase /\ r \in Phase
    BY <1>R, AggregateTypes
  <2>2. ASSUME NEW q \in Phase, NEW pc \in Locations
        PROVE  [pc |-> pc, p |-> q, c |-> change] \in Thread
    BY DEF Thread, TypeOK
  <2>3. \/ th' = [th EXCEPT ![t] = [pc |-> "resume_save", p |-> Start(r), c |-> change]]
        \/ th' = [th EXCEPT ![t] = [pc |-> "resume_save", p |-> Restart(r), c |-> change]]
        \/ th' = [th EXCEPT ![t] = [pc |-> "async", p |-> r, c |-> change]]
    BY <1>5 DEF ResumeFind
  <2>4. \A rec \in Thread : [th EXCEPT ![t] = rec] \in [Threads -> Thread]
    BY <1>0, ThreadUpdates
  <2>5. th' \in [Threads -> Thread]
    BY <1>L, <2>1, <2>2, <2>3, <2>4
  <2> QED BY <1>5, <1>A, <2>5 DEF ResumeFind, TypeOK, ServerOK, Thread
<1>6. ASSUME NEW t \in Threads, ResumeSave(t) PROVE ServerOK'
  <2>1. phases' \subseteq Phase /\ faults' \in 0 .. MaxFaults
    BY <1>6, <1>T, SaveTypes DEF ResumeSave
  <2>2. th' \in [Threads -> Thread]
    BY <1>0, <1>6, <1>L, GotoType, ReturnType DEF ResumeSave
  <2> QED BY <1>6, <2>1, <2>2 DEF ResumeSave, TypeOK, ServerOK, Thread
<1>7. ASSUME NEW t \in Threads, NEW r \in phases, ApproveCheck(t, r) PROVE ServerOK'
  <2>1. [Idle EXCEPT !.pc = "approve", !.p = r] \in Thread
    BY <1>L, <1>R, InitialTypes DEF Thread
  <2>2. th' \in [Threads -> Thread]
    BY <1>0, <1>7, <2>1, ThreadUpdates DEF ApproveCheck
  <2> QED BY <1>7, <1>A, <2>2 DEF ApproveCheck, TypeOK, ServerOK, Thread
<1>8. ASSUME NEW t \in Threads, ApproveAppend(t) PROVE ServerOK'
  <2>1. audit' \subseteq (Nat \X Events) /\ faults' \in 0 .. MaxFaults
    BY <1>8, <1>T, <1>E, EmitType, DBFaultType DEF ApproveAppend, TypeOK
  <2> QED BY <1>0, <1>8, <2>1, ReturnType DEF ApproveAppend, TypeOK, ServerOK, Thread
<1>9. ASSUME NEW t \in Threads, NEW r \in phases, RejectCheck(t, r) PROVE ServerOK'
  <2> DEFINE p == IF r.status = "running" THEN r ELSE Start(r)
  <2>1. Complete(p, BlockedEnvelope) \in Phase
    BY <1>R, AggregateTypes, EnvelopeTypes
  <2>2. [Idle EXCEPT !.pc = "reject", !.p = Complete(p, BlockedEnvelope)] \in Thread
    BY <1>L, <2>1, InitialTypes DEF Thread
  <2>3. th' \in [Threads -> Thread]
    BY <1>0, <1>9, <2>2, ThreadUpdates DEF RejectCheck
  <2> QED BY <1>9, <1>A, <2>3 DEF RejectCheck, TypeOK, ServerOK, Thread
<1>10. ASSUME NEW t \in Threads, RejectSave(t) PROVE ServerOK'
  <2>1. phases' \subseteq Phase /\ faults' \in 0 .. MaxFaults
    BY <1>10, <1>T, SaveTypes DEF RejectSave
  <2>2. th' \in [Threads -> Thread]
    BY <1>0, <1>10, <1>L, GotoType, ReturnType DEF RejectSave
  <2> QED BY <1>10, <2>1, <2>2 DEF RejectSave, TypeOK, ServerOK, Thread
<1>11. ASSUME NEW t \in Threads, RejectAppend(t) PROVE ServerOK'
  <2>1. audit' \subseteq (Nat \X Events) /\ faults' \in 0 .. MaxFaults
    BY <1>11, <1>T, <1>E, EmitType, DBFaultType DEF RejectAppend, TypeOK
  <2> QED BY <1>0, <1>11, <2>1, ReturnType DEF RejectAppend, TypeOK, ServerOK, Thread
<1>12. ASSUME NEW t \in Threads, AbortFind(t) PROVE ServerOK'
  <2>1. change \in Change
    BY DEF TypeOK
  <2>2. [Idle EXCEPT !.pc = "abort", !.c = change] \in Thread
    BY <1>L, <2>1, InitialTypes DEF Thread
  <2>3. th' \in [Threads -> Thread]
    BY <1>0, <1>12, <2>2, ThreadUpdates DEF AbortFind
  <2> QED BY <1>12, <1>A, <2>3 DEF AbortFind, TypeOK, ServerOK, Thread
<1>13. ASSUME NEW t \in Threads, AbortSave(t) PROVE ServerOK'
  <2>1. change' \in Change /\ faults' \in 0 .. MaxFaults
    BY <1>13, <1>T, DBFaultType DEF AbortSave, TypeOK, Abort, Change, ChangeStatuses
  <2> QED BY <1>0, <1>13, <2>1, ReturnType DEF AbortSave, TypeOK, ServerOK, Thread
<1>14. ASSUME NEW t \in Threads, GotoFail(t)
       PROVE  /\ phases' \subseteq Phase
              /\ faults' \in 0 .. MaxFaults
              /\ audit' \subseteq (Nat \X Events)
              /\ th' \in [Threads -> Thread]
  BY <1>0, <1>14, <1>L, GotoType DEF GotoFail, TypeOK
<1>15. ASSUME NEW t \in Threads, RunInitPhase(t) PROVE ServerOK'
  <2>1. /\ phases' \subseteq Phase
        /\ faults' \in 0 .. MaxFaults
        /\ audit' \subseteq (Nat \X Events)
        /\ th' \in [Threads -> Thread]
    BY <1>14, <1>15, CompleteAndSaveType, EnvelopeTypes DEF RunInitPhase
  <2> QED BY <1>15, <2>1 DEF RunInitPhase, TypeOK, ServerOK, Thread
<1>16. ASSUME NEW t \in Threads, GovernanceDenies(t) PROVE ServerOK'
  BY <1>14, <1>16 DEF GovernanceDenies, TypeOK, ServerOK, Thread
<1>17. ASSUME NEW t \in Threads, GovernanceRequiresApproval(t) PROVE ServerOK'
  <2>1. audit' \subseteq (Nat \X Events) /\ faults' \in 0 .. MaxFaults
    BY <1>17, <1>T, <1>E, EmitType, DBFaultType DEF GovernanceRequiresApproval, TypeOK
  <2> QED BY <1>0, <1>17, <2>1, ReturnType DEF GovernanceRequiresApproval, TypeOK, ServerOK, Thread
<1>18. ASSUME NEW t \in Threads, GovernanceAllows(t) PROVE ServerOK'
  <2>1. th' \in [Threads -> Thread]
    BY <1>0, <1>18, <1>L, GotoType DEF GovernanceAllows
  <2> QED BY <1>18, <2>1 DEF GovernanceAllows, TypeOK, ServerOK, Thread
<1>19. ASSUME NEW t \in Threads, RunApplyPhase(t) PROVE ServerOK'
  <2>1. PICK env \in Envelopes : CompleteAndSave(t, env)
    BY <1>19, EnvelopeTypes, EnvelopeOps DEF RunApplyPhase
  <2>2. /\ phases' \subseteq Phase
        /\ faults' \in 0 .. MaxFaults
        /\ audit' \subseteq (Nat \X Events)
        /\ th' \in [Threads -> Thread]
    BY <2>1, CompleteAndSaveType
  <2> QED BY <1>19, <2>2 DEF RunApplyPhase, TypeOK, ServerOK, Thread
<1>20. ASSUME NEW t \in Threads, Preflight(t) PROVE ServerOK'
  <2>1. /\ phases' \subseteq Phase
        /\ faults' \in 0 .. MaxFaults
        /\ audit' \subseteq (Nat \X Events)
        /\ th' \in [Threads -> Thread]
    BY <1>0, <1>14, <1>20, <1>L, GotoType DEF Preflight, TypeOK
  <2> QED BY <1>20, <2>1 DEF Preflight, TypeOK, ServerOK, Thread
<1>21. ASSUME NEW t \in Threads, Dispatch(t) PROVE ServerOK'
  <2>1. GotoFail(t) \/ \E env \in Envelopes : CompleteAndSave(t, env)
    BY <1>21, EnvelopeOps DEF Dispatch
  <2>2. /\ phases' \subseteq Phase
        /\ faults' \in 0 .. MaxFaults
        /\ audit' \subseteq (Nat \X Events)
        /\ th' \in [Threads -> Thread]
    BY <1>14, <2>1, CompleteAndSaveType
  <2> QED BY <1>21, <2>2 DEF Dispatch, TypeOK, ServerOK, Thread
<1>22. ASSUME NEW t \in Threads, AdvanceChange(t) PROVE ServerOK'
  <2> DEFINE c == AdvancePhase(th[t].c, th[t].p.type)
  <2>1. c \in Change /\ MarkCompleted(c) \in Change
    BY <1>T DEF AdvancePhase, MarkCompleted, Change, ChangeStatuses
  <2>2. /\ change' \in Change
        /\ outbox' \in Nat
        /\ faults' \in 0 .. MaxFaults
    BY SMT, <1>22, <2>1, DBFaultType DEF AdvanceChange, SaveCompletedWithOutbox, TypeOK
  <2>3. audit' \subseteq (Nat \X Events)
    BY <1>22, <1>T, EmitType, EventTypes DEF AdvanceChange
  <2> QED BY <1>0, <1>22, <2>2, <2>3, ReturnType DEF AdvanceChange, TypeOK, ServerOK, Thread
<1>23. ASSUME NEW t \in Threads, FailPhase(t) PROVE ServerOK'
  <2> DEFINE m == th[t].p
             p == IF m.status # "running" /\ CanStart(m) THEN Start(m) ELSE m
             b == Complete(p, BlockedEnvelope)
  <2>1. b \in Phase
    BY <1>T, AggregateTypes, EnvelopeTypes
  <2> HIDE DEF b
  <2>2. phases' \subseteq Phase /\ faults' \in 0 .. MaxFaults
    BY <1>23, <2>1, SaveTypes, DBFaultType DEF FailPhase, TypeOK, b
  <2>3. audit' \subseteq (Nat \X Events)
    BY <1>23, <1>T, <1>E, EmitType DEF FailPhase, TypeOK
  <2> QED BY <1>0, <1>23, <2>2, <2>3, ReturnType DEF FailPhase, TypeOK, ServerOK, Thread
<1>24. CASE Crash
  <2>1. th' \in [Threads -> Thread]
    BY <1>24, InitialTypes DEF Crash
  <2>2. crashes' \in 0 .. MaxCrashes
    <3>1. crashes < MaxCrashes /\ crashes' = crashes + 1
      BY <1>24 DEF Crash
    <3> QED BY SMT, <3>1 DEF TypeOK
  <2>3. up' \in BOOLEAN
    BY <1>24 DEF Crash
  <2> QED BY <1>24, <2>1, <2>2, <2>3 DEF Crash, TypeOK, ServerOK, Thread
<1>25. CASE Boot
  <2>1. phases' \subseteq Phase
    BY <1>25, <1>R, AggregateTypes DEF Boot
  <2>2. PICK n \in 0 .. (MaxFaults - faults) : faults' = faults + n
    BY <1>25 DEF Boot
  <2>3. faults' \in 0 .. MaxFaults
    BY SMT, <2>2 DEF TypeOK
  <2> QED BY <1>25, <2>1, <2>3 DEF Boot, TypeOK, ServerOK
<1> QED
  BY <1>1, <1>2, <1>3, <1>4, <1>5, <1>6, <1>7, <1>8, <1>9, <1>10, <1>11, <1>12,
     <1>13, <1>15, <1>16, <1>17, <1>18, <1>19, <1>20, <1>21, <1>22, <1>23, <1>24,
     <1>25
  DEF ServerStep, Handler, HandlerStep, RunAsync

(* No step of the server or of a command's scan leaves the types.          *)
THEOREM NextType == TypeOK /\ [Next]_vars => TypeOK'
<1> SUFFICES ASSUME TypeOK, [Next]_vars PROVE TypeOK'
  OBVIOUS
<1>1. ASSUME Next, ServerOK', scan' \subseteq Phase, scans' \in 0 .. MaxScans
      PROVE  TypeOK'
  <2>1. versions' \subseteq Change
    BY <1>1 DEF Next, Record, ServerOK, TypeOK
  <2>2. verified' \in BOOLEAN /\ reverted' \in BOOLEAN
    BY <1>1 DEF Next, Record, TypeOK
  <2> QED BY <1>1, <2>1, <2>2 DEF ServerOK, TypeOK
<1>2. CASE Next /\ ServerStep /\ UNCHANGED << scan, scans >>
  BY <1>1, <1>2, ServerType DEF TypeOK
<1>3. CASE Next /\ ScanList
  <2>1. scans' \in 0 .. MaxScans
    BY SMT, <1>3, ServiceAssumption DEF ScanList, TypeOK
  <2> QED BY <1>1, <1>3, <2>1 DEF ScanList, TypeOK, ServerOK
<1>4. ASSUME Next, NEW r \in scan, ScanSave(r) PROVE TypeOK'
  <2>1. MarkInterrupted(r) \in Phase
    BY AggregateTypes DEF TypeOK
  <2>2. phases' \subseteq Phase /\ faults' \in 0 .. MaxFaults
    BY <1>4, <2>1, SaveTypes DEF ScanSave
  <2>3. ServerOK' /\ scan' \subseteq Phase /\ scans' \in 0 .. MaxScans
    BY <1>4, <2>2 DEF ScanSave, TypeOK, ServerOK
  <2> QED BY <1>1, <1>4, <2>3
<1>5. CASE UNCHANGED vars
  BY <1>5 DEF vars, TypeOK
<1> QED BY <1>2, <1>3, <1>4, <1>5 DEF Next, ScanStep

(* Every reachable state of every instance is well typed.                  *)
THEOREM TypeCorrect == Spec => []TypeOK
BY InitType, NextType, PTL DEF Spec

-----------------------------------------------------------------------------
(* The inductive invariant.                                                *)

(* Saving p keeps the attempts of its type gapless and within the budget.  *)
Appendable(T, p) ==
  /\ p.attempts \in 1 .. RetryBudget
  /\ p.attempts > 1 =>
       \E s \in T : s.type = p.type /\ s.attempts = p.attempts - 1

EnvOK(p) ==
  /\ p.conf # "none" <=> p.status \in EnvelopeStatuses
  /\ p.status = "done" => p.conf = "high"

(* AttemptHistory and EnvelopeIffSettled of a table T.                     *)
TableOK(T) ==
  /\ \A r \in T : Appendable(T, r)
  /\ \A r, s \in T : r # s => r.id # s.id /\ Key(r) # Key(s)
  /\ \A r \in T : EnvOK(r)

(* What a thread holds: about to save, a phase the table can take; running *)
(* for a phase, a row for its type and attempt.                            *)
ThreadOK(T, rec) ==
  /\ rec.pc \in {"run_check", "run_prior"} => rec.p.conf = "none"
  /\ rec.pc \in {"run_save", "resume_save", "reject"} =>
       Appendable(T, rec.p) /\ EnvOK(rec.p)
  /\ rec.pc \in {"async", "apply", "preflight", "dispatch", "advance", "fail"} =>
       SameKey(T, rec.p)
  /\ rec.pc \in {"apply", "preflight", "dispatch"} => rec.p.type # "init"

(* The change row, and every snapshot of it, is completed only with an     *)
(* outbox row.                                                             *)
OutboxOK ==
  /\ CompletedHasOutbox
  /\ \A t \in Threads : th[t].c.status = "completed" => outbox > 0

IInv ==
  /\ TypeOK
  /\ TableOK(phases)
  /\ \A t \in Threads : ThreadOK(phases, th[t])
  /\ OutboxOK

Keeps(T, U) == \A r \in T : \E s \in U : s.id = r.id /\ Key(s) = Key(r)

(* A phase that may be saved still may after other saves.                  *)
LEMMA AppendableKept ==
  ASSUME NEW T \in SUBSET Phase, NEW U \in SUBSET Phase, Keeps(T, U),
         NEW p \in Phase, Appendable(T, p)
  PROVE  Appendable(U, p)
BY DEF Appendable, Keeps, Key

(* A stored attempt stays stored after other saves.                        *)
LEMMA SameKeyKept ==
  ASSUME NEW T, NEW U, Keeps(T, U), NEW p, SameKey(T, p)
  PROVE  SameKey(U, p)
BY DEF SameKey, Keeps

(* What a thread knows stays true when other threads save.                 *)
LEMMA ThreadOKKept ==
  ASSUME NEW T \in SUBSET Phase, NEW U \in SUBSET Phase, Keeps(T, U),
         NEW rec \in Thread, ThreadOK(T, rec)
  PROVE  ThreadOK(U, rec)
<1>1. rec.p \in Phase
  BY DEF Thread
<1> QED BY <1>1, AppendableKept, SameKeyKept DEF ThreadOK

(* A save that meets neither a gap, the budget nor the primary key keeps   *)
(* the table in order and drops nothing.                                   *)
LEMMA UpsertOK ==
  ASSUME NEW T \in SUBSET Phase, TableOK(T), NEW p \in Phase,
         Appendable(T, p), EnvOK(p), ~DuplicateId(T, p)
  PROVE  TableOK(Upsert(T, p)) /\ Keeps(T, Upsert(T, p))
<1> DEFINE U == Upsert(T, p)
<1>1. Keeps(T, U)
  BY UpsertKeeps DEF Keeps
<1>2. U \in SUBSET Phase
  BY UpsertType
<1>3. ASSUME NEW s \in U
      PROVE  Appendable(T, s) /\ EnvOK(s)
  <2>1. CASE s \in T
    BY <2>1 DEF TableOK
  <2>2. CASE s = p
    BY <2>2
  <2>3. ASSUME NEW r \in T, s = [p EXCEPT !.id = r.id]
        PROVE  Appendable(T, s) /\ EnvOK(s)
    <3>1. /\ s.attempts = p.attempts /\ s.type = p.type
          /\ s.conf = p.conf /\ s.status = p.status
      BY <2>3 DEF Phase
    <3> QED BY <3>1 DEF Appendable, EnvOK
  <2> QED BY <2>1, <2>2, <2>3, UpsertFrom
<1>4. \A s \in U : Appendable(U, s) /\ EnvOK(s)
  BY <1>1, <1>2, <1>3, AppendableKept
<1>5. ASSUME NEW r \in U, NEW s \in U, r # s
      PROVE  r.id # s.id /\ Key(r) # Key(s)
  <2>1. CASE SameKey(T, p)
    <3> DEFINE f(x) == IF Key(x) = Key(p) THEN [p EXCEPT !.id = x.id] ELSE x
    <3>1. PICK x \in T : r = f(x)
      BY <2>1 DEF Upsert
    <3>2. PICK y \in T : s = f(y)
      BY <2>1 DEF Upsert
    <3>3. /\ r.id = x.id /\ Key(r) = Key(x)
          /\ s.id = y.id /\ Key(s) = Key(y)
      BY <3>1, <3>2 DEF Key, Phase
    <3>4. x # y
      BY <1>5, <3>1, <3>2
    <3> QED BY <3>3, <3>4 DEF TableOK
  <2>2. CASE ~SameKey(T, p)
    <3>1. \A x \in T : x.id # p.id /\ Key(x) # Key(p)
      BY <2>2 DEF DuplicateId, SameKey
    <3> QED BY <1>5, <2>2, <3>1 DEF Upsert, TableOK
  <2> QED BY <2>1, <2>2
<1> QED BY <1>1, <1>4, <1>5 DEF TableOK

(* What a step of thread t that leaves the change alone has to do for the  *)
(* invariant.                                                              *)
Frame(t) ==
  /\ TableOK(phases')
  /\ Keeps(phases, phases')
  /\ ThreadOK(phases', th'[t])
  /\ \A u \in Threads \ {t} : th'[u] = th[u]
  /\ th'[t].c \in {th[t].c, change, NewChange}

(* The invariant holds again and no row of the table is gone.              *)
StepOK == IInv' /\ Keeps(phases, phases')

(* A step of one thread that leaves the change alone is correct when it    *)
(* keeps the table in order and its own thread right.                      *)
LEMMA FrameStep ==
  ASSUME IInv, TypeOK', NEW t \in Threads, Frame(t),
         outbox' = outbox, change' = change
  PROVE  StepOK
<1>1. ASSUME NEW u \in Threads PROVE ThreadOK(phases', th'[u])
  <2>1. CASE u = t
    BY <2>1 DEF Frame
  <2>2. CASE u # t
    <3>1. th'[u] = th[u] /\ th[u] \in Thread /\ ThreadOK(phases, th[u])
      BY <2>2 DEF Frame, IInv, TypeOK, Thread
    <3> QED BY <3>1, ThreadOKKept DEF Frame, IInv, TypeOK
  <2> QED BY <2>1, <2>2
<1>2. ASSUME NEW u \in Threads, th'[u].c.status = "completed" PROVE outbox > 0
  <2>1. th'[u].c \in {th[u].c, change, NewChange}
    BY DEF Frame
  <2>2. NewChange.status # "completed"
    BY DEF NewChange
  <2> QED BY <1>2, <2>1, <2>2 DEF IInv, OutboxOK, CompletedHasOutbox
<1>3. OutboxOK'
  BY <1>2 DEF IInv, OutboxOK, CompletedHasOutbox
<1> QED BY <1>1, <1>3 DEF IInv, Frame, StepOK

(* A step that writes no phase keeps the table in order.                   *)
LEMMA TableUnchanged ==
  ASSUME IInv, phases' = phases
  PROVE  TableOK(phases') /\ Keeps(phases, phases')
BY DEF IInv, Keeps

(* A successful Save keeps the table in order and stores its phase.        *)
LEMMA SaveOKKept ==
  ASSUME IInv, NEW p \in Phase, Appendable(phases, p), EnvOK(p), SaveOk(p)
  PROVE  TableOK(phases') /\ Keeps(phases, phases') /\ SameKey(phases', p)
BY UpsertOK, UpsertHas DEF SaveOk, IInv, TypeOK

(* A failed Save leaves the table as it was.                               *)
LEMMA SaveFailsKept ==
  ASSUME IInv, NEW p, SaveFails(p)
  PROVE  TableOK(phases') /\ Keeps(phases, phases') /\ phases' = phases
BY TableUnchanged DEF SaveFails

(* A thread that ends holds nothing that could be wrong.                   *)
LEMMA ReturnFrame ==
  ASSUME IInv, NEW t \in Threads, Return(t)
  PROVE  /\ ThreadOK(phases', th'[t])
         /\ \A u \in Threads \ {t} : th'[u] = th[u]
         /\ th'[t].c = NewChange
<1>1. th'[t] = Idle /\ \A u \in Threads \ {t} : th'[u] = th[u]
  BY DEF Return, IInv, TypeOK
<1> QED BY SMT, <1>1 DEF ThreadOK, Idle

(* Moving on changes the location of one thread only.                      *)
LEMMA GotoFrame ==
  ASSUME IInv, NEW t \in Threads, NEW pc, Goto(t, pc)
  PROVE  /\ th'[t].pc = pc /\ th'[t].p = th[t].p /\ th'[t].c = th[t].c
         /\ \A u \in Threads \ {t} : th'[u] = th[u]
BY DEF Goto, IInv, TypeOK

(* A request that arrives sets its own thread only.                        *)
LEMMA SetFrame ==
  ASSUME IInv, NEW t \in Threads, NEW rec, th' = [th EXCEPT ![t] = rec]
  PROVE  th'[t] = rec /\ \A u \in Threads \ {t} : th'[u] = th[u]
BY DEF IInv, TypeOK

(* Moving on with a new phase changes one thread only.                     *)
LEMMA MoveFrame ==
  ASSUME IInv, NEW t \in Threads, NEW pc, NEW p,
         th' = [th EXCEPT ![t].pc = pc, ![t].p = p]
  PROVE  /\ th'[t].pc = pc /\ th'[t].p = p /\ th'[t].c = th[t].c
         /\ \A u \in Threads \ {t} : th'[u] = th[u]
BY DEF IInv, TypeOK

(* The phase of a stored row, whatever its status became, can be saved.    *)
LEMMA OwnedAppendable ==
  ASSUME IInv, NEW m \in Phase, SameKey(phases, m),
         NEW p \in Phase, Key(p) = Key(m)
  PROVE  Appendable(phases, p)
<1>1. PICK r \in phases : Key(r) = Key(m)
  BY DEF SameKey
<1>2. r.type = p.type /\ r.attempts = p.attempts
  BY <1>1 DEF Key
<1> QED BY <1>2 DEF IInv, TableOK, Appendable

(* So can the next attempt, while the budget lasts.                        *)
LEMMA NextAppendable ==
  ASSUME IInv, NEW m \in Phase, SameKey(phases, m), m.attempts < RetryBudget,
         NEW p \in Phase, p.type = m.type, p.attempts = m.attempts + 1
  PROVE  Appendable(phases, p)
<1>1. PICK r \in phases : Key(r) = Key(m)
  BY DEF SameKey
<1>2. r.type = m.type /\ r.attempts = m.attempts /\ m.attempts \in Nat
  BY <1>1 DEF Key, Phase
<1> QED BY SMT, <1>2, RetryBudgetAssumption DEF Appendable

(* What Start, Restart and MarkInterrupted do to the fields of a phase.    *)
LEMMA StartFields ==
  ASSUME NEW p \in Phase
  PROVE  /\ Start(p).type = p.type /\ Start(p).attempts = p.attempts + 1
         /\ Start(p).status = "running" /\ Start(p).conf = p.conf
         /\ Restart(p).type = p.type /\ Restart(p).attempts = p.attempts + 1
         /\ Restart(p).status = "running" /\ Restart(p).conf = "none"
         /\ MarkInterrupted(p).id = p.id /\ Key(MarkInterrupted(p)) = Key(p)
         /\ MarkInterrupted(p).status = "interrupted"
         /\ MarkInterrupted(p).conf = p.conf
BY DEF Start, Restart, MarkInterrupted, Phase, Key

(* A stored phase with budget left can be started and saved as a new row.  *)
LEMMA StartAppendable ==
  ASSUME IInv, NEW p \in Phase, SameKey(phases, p), p.attempts < RetryBudget
  PROVE  /\ Start(p) \in Phase /\ Appendable(phases, Start(p))
         /\ Restart(p) \in Phase /\ Appendable(phases, Restart(p))
<1>1. Start(p) \in Phase /\ Restart(p) \in Phase
  BY AggregateTypes
<1>2. Start(p).type = p.type /\ Start(p).attempts = p.attempts + 1
  BY StartFields
<1>3. Restart(p).type = p.type /\ Restart(p).attempts = p.attempts + 1
  BY StartFields
<1> QED BY <1>1, <1>2, <1>3, NextAppendable

(* A phase that is started again or marked interrupted carries no envelope. *)
LEMMA StartEnvOK ==
  ASSUME NEW p \in Phase, EnvOK(p)
  PROVE  /\ p.status = "interrupted" => EnvOK(Start(p))
         /\ EnvOK(Restart(p))
         /\ p.status = "running" => EnvOK(MarkInterrupted(p))
BY StartFields DEF EnvOK, EnvelopeStatuses

(* What Complete does to the fields of a phase.                            *)
LEMMA CompleteFields ==
  ASSUME NEW p \in Phase, NEW env
  PROVE  /\ Complete(p, env).type = p.type /\ Complete(p, env).attempts = p.attempts
         /\ Complete(p, env).status = env.status /\ Complete(p, env).conf = env.conf
         /\ Key(Complete(p, env)) = Key(p)
BY DEF Complete, Phase, Key

(* A completed phase carries its envelope.                                 *)
LEMMA CompleteEnvOK ==
  ASSUME NEW p \in Phase, NEW env \in Envelopes, env.status = "done" => env.conf = "high"
  PROVE  EnvOK(Complete(p, env))
<1>1. env.status \in EnvelopeStatuses /\ env.conf # "none"
  BY DEF Envelopes, EnvelopeStatuses
<1> QED BY <1>1, CompleteFields DEF EnvOK

(* runAsync's completion keeps the invariant for every envelope that the   *)
(* phase's type admits.                                                    *)
LEMMA CompleteAndSaveFrame ==
  ASSUME IInv, NEW t \in Threads, NEW env \in Envelopes,
         SameKey(phases, th[t].p),
         env.status = "done" /\ env.conf = "low" => th[t].p.type # "init",
         CompleteAndSave(t, env)
  PROVE  Frame(t)
<1> DEFINE m == th[t].p
           p == Complete(m, env)
<1>1. m \in Phase
  BY DEF IInv, TypeOK
<1>2. p \in Phase /\ Key(p) = Key(m)
  BY <1>1, AggregateTypes, CompleteFields
<1>3. Appendable(phases, p) /\ SameKey(phases, p)
  BY <1>1, <1>2, OwnedAppendable DEF SameKey
<1>4. ASSUME CanComplete(m, env) PROVE EnvOK(p)
  <2>1. env.status = "done" => env.conf = "high"
    BY <1>4 DEF CanComplete, BelowThreshold, Envelopes
  <2> QED BY <1>1, <2>1, CompleteEnvOK
<1> HIDE DEF p
<1>5. CASE Goto(t, "fail") /\ phases' = phases
  <2>1. TableOK(phases') /\ Keeps(phases, phases')
    BY <1>5, TableUnchanged
  <2>2. /\ th'[t].pc = "fail" /\ th'[t].p = m /\ th'[t].c = th[t].c
        /\ \A u \in Threads \ {t} : th'[u] = th[u]
    BY <1>5, GotoFrame
  <2>3. ThreadOK(phases', th'[t])
    BY <1>5, <2>2 DEF ThreadOK
  <2> QED BY <2>1, <2>2, <2>3 DEF Frame
<1>6. CASE SaveFails(p) /\ th' = [th EXCEPT ![t].pc = "fail", ![t].p = p]
  <2>1. TableOK(phases') /\ Keeps(phases, phases') /\ phases' = phases
    BY <1>6, SaveFailsKept
  <2>2. /\ th'[t].pc = "fail" /\ th'[t].p = p /\ th'[t].c = th[t].c
        /\ \A u \in Threads \ {t} : th'[u] = th[u]
    BY <1>6, MoveFrame
  <2>3. ThreadOK(phases', th'[t])
    BY <1>3, <2>1, <2>2 DEF ThreadOK
  <2> QED BY <2>1, <2>2, <2>3 DEF Frame
<1>7. CASE /\ CanComplete(m, env) /\ SaveOk(p)
           /\ th' = [th EXCEPT ![t].pc = "advance", ![t].p = p]
  <2>1. TableOK(phases') /\ Keeps(phases, phases') /\ SameKey(phases', p)
    BY <1>2, <1>3, <1>4, <1>7, SaveOKKept
  <2>2. /\ th'[t].pc = "advance" /\ th'[t].p = p /\ th'[t].c = th[t].c
        /\ \A u \in Threads \ {t} : th'[u] = th[u]
    BY <1>7, MoveFrame
  <2>3. ThreadOK(phases', th'[t])
    BY <2>1, <2>2 DEF ThreadOK
  <2> QED BY <2>1, <2>2, <2>3 DEF Frame
<1>8. CASE CanComplete(m, env) /\ SaveOk(p) /\ Return(t)
  <2>1. TableOK(phases') /\ Keeps(phases, phases')
    BY <1>2, <1>3, <1>4, <1>8, SaveOKKept
  <2> QED BY <1>8, <2>1, ReturnFrame DEF Frame
<1> QED BY <1>5, <1>6, <1>7, <1>8 DEF CompleteAndSave, p

(* Leaving for failPhase keeps the table and the thread right.             *)
LEMMA GotoFailFrame ==
  ASSUME IInv, NEW t \in Threads, SameKey(phases, th[t].p), GotoFail(t)
  PROVE  Frame(t)
<1>1. TableOK(phases') /\ Keeps(phases, phases') /\ phases' = phases
  BY TableUnchanged DEF GotoFail
<1>2. /\ th'[t].pc = "fail" /\ th'[t].p = th[t].p /\ th'[t].c = th[t].c
      /\ \A u \in Threads \ {t} : th'[u] = th[u]
  BY GotoFrame DEF GotoFail
<1>3. ThreadOK(phases', th'[t])
  BY <1>1, <1>2 DEF ThreadOK
<1> QED BY <1>1, <1>2, <1>3 DEF Frame

(* A step that returns and leaves the table alone.                         *)
LEMMA ReturnOnly ==
  ASSUME IInv, NEW t \in Threads, phases' = phases, Return(t)
  PROVE  Frame(t)
BY TableUnchanged, ReturnFrame DEF Frame

(* The canonical order names no phase type twice.                          *)
LEMMA PhaseTypesDistinct ==
  ASSUME NEW i \in 1 .. 9, NEW j \in 1 .. 9, i # j
  PROVE  AllPhaseTypes[i] # AllPhaseTypes[j]
BY SMT DEF AllPhaseTypes

(* The inductive invariant holds at the start.                             *)
THEOREM InitInv == Init => IInv
<1> SUFFICES ASSUME Init PROVE IInv
  OBVIOUS
<1>1. TypeOK
  BY InitType
<1>2. TableOK(phases)
  <2> DEFINE row(i) == [ id |-> i, type |-> AllPhaseTypes[i], status |-> "done",
                         attempts |-> 1, conf |-> "high" ]
  <2>1. \A r \in phases : \E i \in 1 .. 9 : r = row(i)
    BY SMT, PhaseIndexType, ServiceAssumption DEF Init, FinishedRows
  <2>2. \A r \in phases : Appendable(phases, r)
    BY SMT, <2>1, RetryBudgetAssumption DEF Appendable
  <2>3. \A r \in phases : EnvOK(r)
    BY SMT, <2>1 DEF EnvOK, EnvelopeStatuses
  <2>4. ASSUME NEW r \in phases, NEW s \in phases, r # s
        PROVE  r.id # s.id /\ Key(r) # Key(s)
    <3>1. PICK i \in 1 .. 9 : r = row(i)
      BY <2>1
    <3>2. PICK j \in 1 .. 9 : s = row(j)
      BY <2>1
    <3>3. i # j
      BY <2>4, <3>1, <3>2
    <3>4. AllPhaseTypes[i] # AllPhaseTypes[j]
      BY <3>3, PhaseTypesDistinct
    <3> QED BY <3>1, <3>2, <3>3, <3>4 DEF Key
  <2> QED BY <2>2, <2>3, <2>4 DEF TableOK
<1>3. \A t \in Threads : ThreadOK(phases, th[t])
  BY DEF Init, ThreadOK, Idle
<1>4. OutboxOK
  BY DEF Init, OutboxOK, CompletedHasOutbox, NewChange, Idle
<1> QED BY <1>1, <1>2, <1>3, <1>4 DEF IInv

(* Every step of the server preserves the invariant and the rows'          *)
(* identities: one case per action.                                        *)
LEMMA ServerInv ==
  ASSUME IInv, TypeOK', ServerStep
  PROVE  StepOK
<1>0. TypeOK' /\ TypeOK
  BY DEF IInv
<1>T. ASSUME NEW t \in Threads
      PROVE  th[t].p \in Phase /\ ThreadOK(phases, th[t])
  BY DEF IInv, TypeOK
<1>R. ASSUME NEW r \in phases
      PROVE  r \in Phase /\ SameKey(phases, r) /\ Appendable(phases, r) /\ EnvOK(r)
  BY DEF IInv, TypeOK, TableOK, SameKey
<1>O. ASSUME NEW t \in Threads, up,
             th[t].pc \in {"async", "apply", "preflight", "dispatch", "advance", "fail"}
      PROVE  SameKey(phases, th[t].p)
  BY <1>O, <1>T DEF ThreadOK
<1>1. ASSUME NEW t \in Threads, NEW pt \in PhaseTypes, RunFindChange(t, pt)
      PROVE  StepOK
  <2>1. PICK id \in PhaseIds :
          th' = [th EXCEPT ![t] = [ pc |-> "run_check", c |-> change,
                                    p |-> [NoPhase EXCEPT !.id = id, !.type = pt] ]]
    BY <1>1 DEF RunFindChange
  <2>2. /\ th'[t] = [ pc |-> "run_check", c |-> change,
                      p |-> [NoPhase EXCEPT !.id = id, !.type = pt] ]
        /\ \A u \in Threads \ {t} : th'[u] = th[u]
    BY <2>1, SetFrame
  <2>3. ThreadOK(phases', th'[t])
    <3> DEFINE q == [NoPhase EXCEPT !.id = id, !.type = pt]
    <3>1. q.conf = "none"
      BY DEF NoPhase
    <3>2. th'[t] = [pc |-> "run_check", c |-> change, p |-> q]
      BY <2>2
    <3> HIDE DEF q
    <3>3. th'[t].pc = "run_check" /\ th'[t].p = q
      BY SMT, <3>2
    <3> QED BY <3>1, <3>3 DEF ThreadOK
  <2>4. phases' = phases /\ change' = change /\ outbox' = outbox
    BY <1>1 DEF RunFindChange
  <2>5. Frame(t)
    BY SMT, <2>2, <2>3, <2>4, TableUnchanged DEF Frame
  <2> QED BY <1>0, <2>4, <2>5, FrameStep
<1>2. ASSUME NEW t \in Threads, RunCheckRunning(t) PROVE StepOK
  <2>1. phases' = phases /\ change' = change /\ outbox' = outbox /\ th[t].pc = "run_check"
    BY <1>2 DEF RunCheckRunning, At
  <2>2. CASE Return(t)
    BY <1>0, <2>1, <2>2, ReturnOnly, FrameStep
  <2>3. CASE Goto(t, "run_prior")
    <3>1. /\ th'[t].pc = "run_prior" /\ th'[t].p = th[t].p /\ th'[t].c = th[t].c
          /\ \A u \in Threads \ {t} : th'[u] = th[u]
      BY <2>3, GotoFrame
    <3>2. ThreadOK(phases', th'[t])
      BY <1>T, <2>1, <3>1 DEF ThreadOK
    <3>3. Frame(t)
      BY <2>1, <3>1, <3>2, TableUnchanged DEF Frame
    <3> QED BY <1>0, <2>1, <3>3, FrameStep
  <2> QED BY <1>2, <2>2, <2>3 DEF RunCheckRunning
<1>3. ASSUME NEW t \in Threads, RunFindPrior(t) PROVE StepOK
  <2>1. phases' = phases /\ change' = change /\ outbox' = outbox /\ th[t].pc = "run_prior"
    BY <1>3 DEF RunFindPrior, At
  <2>2. PICK n \in {0, PriorAttempts(phases, th[t].p.type)} :
          LET p == [th[t].p EXCEPT !.attempts = n]
          IN  \/ CanStart(p) /\ th' = [th EXCEPT ![t].pc = "run_save", ![t].p = Start(p)]
              \/ Return(t)
    BY <1>3 DEF RunFindPrior
  <2> DEFINE p == [th[t].p EXCEPT !.attempts = n]
             q == Start(p)
  <2>3. CASE Return(t)
    BY <1>0, <2>1, <2>3, ReturnOnly, FrameStep
  <2>4. CASE CanStart(p) /\ th' = [th EXCEPT ![t].pc = "run_save", ![t].p = q]
    <3>1. n = 0 \/ \E r \in phases : r.type = th[t].p.type /\ r.attempts = n
      BY <2>2 DEF PriorAttempts, Latest
    <3>2. n \in Nat
      BY SMT, <1>R, <3>1 DEF Phase
    <3>3. p \in Phase /\ p.attempts = n /\ p.type = th[t].p.type /\ p.conf = th[t].p.conf
      BY <1>T, <3>2 DEF Phase
    <3> HIDE DEF p
    <3>4. /\ q \in Phase /\ q.type = th[t].p.type /\ q.attempts = n + 1
          /\ q.status = "running" /\ q.conf = th[t].p.conf
      BY <3>3, AggregateTypes, StartFields
    <3>5. n < RetryBudget
      BY <2>4, <3>3 DEF CanStart
    <3> HIDE DEF q
    <3>6. Appendable(phases, q)
      BY SMT, <3>1, <3>2, <3>4, <3>5, RetryBudgetAssumption DEF Appendable
    <3>7. EnvOK(q)
      BY <1>T, <2>1, <3>4 DEF ThreadOK, EnvOK, EnvelopeStatuses
    <3>8. /\ th'[t].pc = "run_save" /\ th'[t].p = q /\ th'[t].c = th[t].c
          /\ \A u \in Threads \ {t} : th'[u] = th[u]
      BY <2>4, MoveFrame
    <3>9. ThreadOK(phases', th'[t])
      BY <2>1, <3>6, <3>7, <3>8 DEF ThreadOK
    <3>10. Frame(t)
      BY <2>1, <3>8, <3>9, TableUnchanged DEF Frame
    <3> QED BY <1>0, <2>1, <3>10, FrameStep
  <2> QED BY <2>2, <2>3, <2>4
<1>S. ASSUME NEW t \in Threads, NEW pc \in {"async", "rejected"},
             th[t].pc \in {"run_save", "resume_save", "reject"},
             \/ SaveOk(th[t].p) /\ Goto(t, pc)
             \/ SaveFails(th[t].p) /\ Return(t)
      PROVE  Frame(t)
  <2>1. Appendable(phases, th[t].p) /\ EnvOK(th[t].p) /\ th[t].p \in Phase
    BY <1>T, <1>S DEF ThreadOK
  <2>2. CASE SaveOk(th[t].p) /\ Goto(t, pc)
    <3>1. TableOK(phases') /\ Keeps(phases, phases') /\ SameKey(phases', th[t].p)
      BY <2>1, <2>2, SaveOKKept
    <3>2. /\ th'[t].pc = pc /\ th'[t].p = th[t].p /\ th'[t].c = th[t].c
          /\ \A u \in Threads \ {t} : th'[u] = th[u]
      BY <2>2, GotoFrame
    <3>3. ThreadOK(phases', th'[t])
      BY <3>1, <3>2 DEF ThreadOK
    <3> QED BY <3>1, <3>2, <3>3 DEF Frame
  <2>3. CASE SaveFails(th[t].p) /\ Return(t)
    BY <2>3, SaveFailsKept, ReturnOnly
  <2> QED BY <1>S, <2>2, <2>3
<1>4. ASSUME NEW t \in Threads, RunSave(t) PROVE StepOK
  <2>1. Frame(t)
    BY <1>4, <1>S DEF RunSave, At
  <2> QED BY <1>0, <1>4, <2>1, FrameStep DEF RunSave
<1>5. ASSUME NEW t \in Threads, NEW r \in phases, ResumeFind(t, r) PROVE StepOK
  <2>1. phases' = phases /\ change' = change /\ outbox' = outbox
    BY <1>5 DEF ResumeFind
  <2> DEFINE Rec(pc, p) == [pc |-> pc, p |-> p, c |-> change]
  <2>2. ASSUME NEW pc, NEW p, th' = [th EXCEPT ![t] = Rec(pc, p)],
               \/ pc = "resume_save" /\ Appendable(phases, p) /\ EnvOK(p)
               \/ pc = "async" /\ SameKey(phases, p)
        PROVE  StepOK
    <3>1. th'[t] = Rec(pc, p) /\ \A u \in Threads \ {t} : th'[u] = th[u]
      BY <2>2, SetFrame
    <3>2. ThreadOK(phases', th'[t])
      BY SMT, <2>1, <2>2, <3>1 DEF ThreadOK
    <3>3. Frame(t)
      BY SMT, <2>1, <3>1, <3>2, TableUnchanged DEF Frame
    <3> QED BY <1>0, <2>1, <3>3, FrameStep
  <2>3. CASE /\ r.status = "interrupted" /\ CanStart(r)
             /\ th' = [th EXCEPT ![t] = Rec("resume_save", Start(r))]
    <3>1. Appendable(phases, Start(r))
      BY <1>R, <2>3, StartAppendable DEF CanStart
    <3>2. EnvOK(Start(r))
      BY <1>R, <2>3, StartEnvOK
    <3> QED BY <2>2, <2>3, <3>1, <3>2
  <2>4. CASE /\ CanRestart(r)
             /\ th' = [th EXCEPT ![t] = Rec("resume_save", Restart(r))]
    <3>1. Appendable(phases, Restart(r))
      BY <1>R, <2>4, StartAppendable DEF CanRestart
    <3>2. EnvOK(Restart(r))
      BY <1>R, StartEnvOK
    <3> QED BY <2>2, <2>4, <3>1, <3>2
  <2>5. CASE th' = [th EXCEPT ![t] = Rec("async", r)]
    BY <1>R, <2>2, <2>5
  <2> QED BY <1>5, <2>3, <2>4, <2>5 DEF ResumeFind
<1>6. ASSUME NEW t \in Threads, ResumeSave(t) PROVE StepOK
  <2>1. Frame(t)
    BY <1>6, <1>S DEF ResumeSave, At
  <2> QED BY <1>0, <1>6, <2>1, FrameStep DEF ResumeSave
<1>7. ASSUME NEW t \in Threads, NEW r \in phases, ApproveCheck(t, r) PROVE StepOK
  <2>1. phases' = phases /\ change' = change /\ outbox' = outbox
    BY <1>7 DEF ApproveCheck
  <2>2. /\ th'[t] = [Idle EXCEPT !.pc = "approve", !.p = r]
        /\ \A u \in Threads \ {t} : th'[u] = th[u]
    BY <1>7, SetFrame DEF ApproveCheck
  <2>3. ThreadOK(phases', th'[t]) /\ th'[t].c = NewChange
    BY <2>2 DEF ThreadOK, Idle
  <2>4. Frame(t)
    BY <2>1, <2>2, <2>3, TableUnchanged DEF Frame
  <2> QED BY <1>0, <2>1, <2>4, FrameStep
<1>8. ASSUME NEW t \in Threads, ApproveAppend(t) PROVE StepOK
  BY <1>0, <1>8, ReturnOnly, FrameStep DEF ApproveAppend
<1>9. ASSUME NEW t \in Threads, NEW r \in phases, RejectCheck(t, r) PROVE StepOK
  <2> DEFINE p == IF r.status = "running" THEN r ELSE Start(r)
             b == Complete(p, BlockedEnvelope)
  <2>1. phases' = phases /\ change' = change /\ outbox' = outbox
    BY <1>9 DEF RejectCheck
  <2>2. p \in Phase /\ Appendable(phases, p)
    <3>1. CASE r.status = "running"
      BY <1>R, <3>1
    <3>2. CASE r.status # "running"
      <4>1. r.attempts < RetryBudget
        BY <1>9, <3>2 DEF RejectCheck, CanStart
      <4>2. Start(r) \in Phase /\ Appendable(phases, Start(r))
        BY <1>R, <4>1, StartAppendable
      <4> QED BY <3>2, <4>2
    <3> QED BY <3>1, <3>2
  <2>3. th' = [th EXCEPT ![t] = [Idle EXCEPT !.pc = "reject", !.p = b]]
    BY <1>9 DEF RejectCheck
  <2> HIDE DEF p
  <2>4. Appendable(phases, b) /\ EnvOK(b)
    <3>1. b.attempts = p.attempts /\ b.type = p.type
      BY <2>2, CompleteFields
    <3>2. EnvOK(b)
      BY <2>2, EnvelopeTypes, CompleteEnvOK DEF BlockedEnvelope
    <3> QED BY <2>2, <3>1, <3>2 DEF Appendable
  <2> HIDE DEF b
  <2>5. /\ th'[t] = [Idle EXCEPT !.pc = "reject", !.p = b]
        /\ \A u \in Threads \ {t} : th'[u] = th[u]
    BY <2>3, SetFrame
  <2>6. ThreadOK(phases', th'[t]) /\ th'[t].c = NewChange
    BY <2>1, <2>4, <2>5 DEF ThreadOK, Idle
  <2>7. Frame(t)
    BY <2>1, <2>5, <2>6, TableUnchanged DEF Frame
  <2> QED BY <1>0, <2>1, <2>7, FrameStep
<1>10. ASSUME NEW t \in Threads, RejectSave(t) PROVE StepOK
  <2>1. Frame(t)
    BY <1>10, <1>S DEF RejectSave, At
  <2> QED BY <1>0, <1>10, <2>1, FrameStep DEF RejectSave
<1>11. ASSUME NEW t \in Threads, RejectAppend(t) PROVE StepOK
  BY <1>0, <1>11, ReturnOnly, FrameStep DEF RejectAppend
<1>12. ASSUME NEW t \in Threads, AbortFind(t) PROVE StepOK
  <2>1. phases' = phases /\ change' = change /\ outbox' = outbox
    BY <1>12 DEF AbortFind
  <2>2. /\ th'[t] = [Idle EXCEPT !.pc = "abort", !.c = change]
        /\ \A u \in Threads \ {t} : th'[u] = th[u]
    BY <1>12, SetFrame DEF AbortFind
  <2>3. ThreadOK(phases', th'[t]) /\ th'[t].c = change
    BY <2>2 DEF ThreadOK, Idle
  <2>4. Frame(t)
    BY <2>1, <2>2, <2>3, TableUnchanged DEF Frame
  <2> QED BY <1>0, <2>1, <2>4, FrameStep
<1>C. ASSUME NEW t \in Threads, phases' = phases, Return(t),
             OutboxOK'
      PROVE  StepOK
  <2>1. Frame(t)
    BY <1>C, ReturnOnly
  <2>2. ASSUME NEW u \in Threads PROVE ThreadOK(phases', th'[u])
    BY <1>T, <1>C, <2>1 DEF Frame
  <2> QED BY <1>0, <1>C, <2>1, <2>2 DEF IInv, Frame, StepOK
<1>13. ASSUME NEW t \in Threads, AbortSave(t) PROVE StepOK
  <2>1. Return(t) /\ phases' = phases /\ outbox' = outbox /\ change' \in {change, Abort(th[t].c)}
    BY <1>13 DEF AbortSave
  <2>A. Abort(th[t].c).status = "aborted"
    BY <1>0 DEF Abort, TypeOK, Change
  <2>2. \A u \in Threads : th'[u].c \in {th[u].c, NewChange}
    BY <2>1, ReturnFrame
  <2>3. OutboxOK'
    BY SMT, <2>1, <2>2, <2>A DEF IInv, OutboxOK, CompletedHasOutbox, NewChange
  <2> QED BY <1>C, <2>1, <2>3
<1>15. ASSUME NEW t \in Threads, RunInitPhase(t) PROVE StepOK
  <2>1. SameKey(phases, th[t].p)
    BY <1>15, <1>O DEF RunInitPhase, At
  <2>2. Frame(t)
    BY <1>15, <2>1, GotoFailFrame, CompleteAndSaveFrame, EnvelopeTypes DEF RunInitPhase
  <2> QED BY <1>0, <1>15, <2>2, FrameStep DEF RunInitPhase
<1>16. ASSUME NEW t \in Threads, GovernanceDenies(t) PROVE StepOK
  <2>1. SameKey(phases, th[t].p)
    BY <1>16, <1>O DEF GovernanceDenies, At
  <2>2. Frame(t)
    BY <1>16, <2>1, GotoFailFrame DEF GovernanceDenies
  <2> QED BY <1>0, <1>16, <2>2, FrameStep DEF GovernanceDenies
<1>17. ASSUME NEW t \in Threads, GovernanceRequiresApproval(t) PROVE StepOK
  BY <1>0, <1>17, ReturnOnly, FrameStep DEF GovernanceRequiresApproval
<1>18. ASSUME NEW t \in Threads, GovernanceAllows(t) PROVE StepOK
  <2>1. SameKey(phases, th[t].p)
    BY <1>18, <1>O DEF GovernanceAllows, At
  <2>2. /\ phases' = phases /\ change' = change /\ outbox' = outbox
        /\ th[t].p.type # "init"
    BY <1>18 DEF GovernanceAllows
  <2>3. PICK pc \in {"apply", "preflight"} : Goto(t, pc)
    BY <1>18 DEF GovernanceAllows
  <2>4. /\ th'[t].pc = pc /\ th'[t].p = th[t].p /\ th'[t].c = th[t].c
        /\ \A u \in Threads \ {t} : th'[u] = th[u]
    BY <2>3, GotoFrame
  <2>5. ThreadOK(phases', th'[t])
    BY <2>1, <2>2, <2>4 DEF ThreadOK
  <2>6. Frame(t)
    BY <2>2, <2>4, <2>5, TableUnchanged DEF Frame
  <2> QED BY <1>0, <2>2, <2>6, FrameStep
<1>19. ASSUME NEW t \in Threads, RunApplyPhase(t) PROVE StepOK
  <2>1. SameKey(phases, th[t].p) /\ th[t].p.type # "init"
    BY <1>19, <1>O, <1>T DEF RunApplyPhase, At, ThreadOK
  <2>2. PICK env \in Envelopes : CompleteAndSave(t, env)
    BY <1>19, EnvelopeTypes, EnvelopeOps DEF RunApplyPhase
  <2>3. Frame(t)
    BY <2>1, <2>2, CompleteAndSaveFrame
  <2> QED BY <1>0, <1>19, <2>3, FrameStep DEF RunApplyPhase
<1>20. ASSUME NEW t \in Threads, Preflight(t) PROVE StepOK
  <2>1. SameKey(phases, th[t].p) /\ th[t].p.type # "init"
    BY <1>20, <1>O, <1>T DEF Preflight, At, ThreadOK
  <2>2. CASE GotoFail(t)
    <3>1. Frame(t)
      BY <2>1, <2>2, GotoFailFrame
    <3> QED BY <1>0, <1>20, <3>1, FrameStep DEF Preflight
  <2>3. CASE Goto(t, "dispatch") /\ phases' = phases
    <3>1. /\ th'[t].pc = "dispatch" /\ th'[t].p = th[t].p /\ th'[t].c = th[t].c
          /\ \A u \in Threads \ {t} : th'[u] = th[u]
      BY <2>3, GotoFrame
    <3>2. ThreadOK(phases', th'[t])
      BY <2>1, <2>3, <3>1 DEF ThreadOK
    <3>3. Frame(t)
      BY <2>3, <3>1, <3>2, TableUnchanged DEF Frame
    <3> QED BY <1>0, <1>20, <3>3, FrameStep DEF Preflight
  <2> QED BY <1>20, <2>2, <2>3 DEF Preflight
<1>21. ASSUME NEW t \in Threads, Dispatch(t) PROVE StepOK
  <2>1. SameKey(phases, th[t].p) /\ th[t].p.type # "init"
    BY <1>21, <1>O, <1>T DEF Dispatch, At, ThreadOK
  <2>2. GotoFail(t) \/ \E env \in Envelopes : CompleteAndSave(t, env)
    BY <1>21, EnvelopeOps DEF Dispatch
  <2>3. Frame(t)
    BY <2>1, <2>2, GotoFailFrame, CompleteAndSaveFrame
  <2> QED BY <1>0, <1>21, <2>3, FrameStep DEF Dispatch
<1>22. ASSUME NEW t \in Threads, AdvanceChange(t) PROVE StepOK
  <2> DEFINE c == AdvancePhase(th[t].c, th[t].p.type)
  <2>1. Return(t) /\ phases' = phases
    BY <1>22 DEF AdvanceChange
  <2>2. \A u \in Threads : th'[u].c \in {th[u].c, NewChange}
    BY <2>1, ReturnFrame
  <2>3. \/ change' = change /\ outbox' = outbox
        \/ CanAdvancePhase(th[t].c, th[t].p.type) /\ change' = c /\ outbox' = outbox
        \/ outbox' = outbox + 1
    BY <1>22 DEF AdvanceChange, SaveCompletedWithOutbox
  <2>4. CanAdvancePhase(th[t].c, th[t].p.type) => c.status # "completed"
    BY <1>0 DEF CanAdvancePhase, ChangeIsTerminal, AdvancePhase, TypeOK, Change
  <2>5. outbox \in Nat
    BY <1>0 DEF TypeOK
  <2>6. OutboxOK'
    BY SMT, <2>2, <2>3, <2>4, <2>5 DEF IInv, OutboxOK, CompletedHasOutbox, NewChange
  <2> QED BY <1>C, <2>1, <2>6
<1>23. ASSUME NEW t \in Threads, FailPhase(t) PROVE StepOK
  <2> DEFINE m == th[t].p
             p == IF m.status # "running" /\ CanStart(m) THEN Start(m) ELSE m
             b == Complete(p, BlockedEnvelope)
  <2>1. m \in Phase /\ SameKey(phases, m)
    BY <1>23, <1>O, <1>T DEF FailPhase, At
  <2>2. CanStart(m) => Start(m) \in Phase /\ Appendable(phases, Start(m))
    BY <2>1, StartAppendable DEF CanStart
  <2>3. Appendable(phases, m)
    BY <2>1, OwnedAppendable
  <2>4. p \in Phase /\ Appendable(phases, p)
    BY <2>1, <2>2, <2>3
  <2>5. (SaveOk(b) \/ SaveFails(b) \/ phases' = phases) /\ Return(t)
    BY <1>23 DEF FailPhase
  <2> HIDE DEF p
  <2>6. b \in Phase /\ b.type = p.type /\ b.attempts = p.attempts /\ EnvOK(b)
    BY <2>4, AggregateTypes, EnvelopeTypes, CompleteFields, CompleteEnvOK
    DEF BlockedEnvelope
  <2>7. Appendable(phases, b)
    BY <2>4, <2>6 DEF Appendable
  <2> HIDE DEF b
  <2>8. TableOK(phases') /\ Keeps(phases, phases')
    BY <2>5, <2>6, <2>7, SaveOKKept, SaveFailsKept, TableUnchanged
  <2>9. Frame(t)
    BY <2>5, <2>8, ReturnFrame DEF Frame
  <2> QED BY <1>0, <1>23, <2>9, FrameStep DEF FailPhase
<1>24. CASE Crash
  <2>1. \A t \in Threads : th'[t] = Idle
    BY <1>24 DEF Crash
  <2>2. phases' = phases /\ change' = change /\ outbox' = outbox
    BY <1>24 DEF Crash
  <2>3. \A t \in Threads : ThreadOK(phases', th'[t])
    BY SMT, <2>1 DEF ThreadOK, Idle
  <2>4. OutboxOK'
    BY SMT, <2>1, <2>2 DEF IInv, OutboxOK, CompletedHasOutbox, Idle, NewChange
  <2> QED BY <1>0, <2>2, <2>3, <2>4, TableUnchanged DEF IInv, StepOK
<1>25. CASE Boot
  <2>1. PICK marked \in SUBSET { r \in phases : r.status = "running" } :
          phases' = { IF r \in marked THEN MarkInterrupted(r) ELSE r : r \in phases }
    <3> DEFINE stuck == { r \in phases : r.status = "running" /\ CanMarkInterrupted(r) }
    <3>1. PICK failed \in SUBSET stuck :
            phases' = { IF r \in stuck \ failed THEN MarkInterrupted(r) ELSE r :
                          r \in phases }
      BY <1>25 DEF Boot
    <3>2. stuck \ failed \in SUBSET { r \in phases : r.status = "running" }
      OBVIOUS
    <3> HIDE DEF stuck
    <3> QED BY <3>1, <3>2
  <2> DEFINE f(r) == IF r \in marked THEN MarkInterrupted(r) ELSE r
  <2>2. ASSUME NEW r \in phases PROVE f(r).id = r.id /\ Key(f(r)) = Key(r)
    BY <1>R, StartFields
  <2>3. Keeps(phases, phases')
    BY <2>1, <2>2 DEF Keeps
  <2>4. ASSUME NEW s \in phases' PROVE Appendable(phases, s) /\ EnvOK(s)
    <3>1. PICK r \in phases : s = f(r)
      BY <2>1
    <3>2. CASE r \in marked
      <4>1. s.attempts = r.attempts /\ s.type = r.type
        BY <2>2, <3>1 DEF Key
      <4>2. r.status = "running" /\ s = MarkInterrupted(r)
        BY <2>1, <3>1, <3>2
      <4>3. EnvOK(s)
        BY <1>R, <4>2, StartEnvOK
      <4> QED BY <1>R, <4>1, <4>3 DEF Appendable
    <3>3. CASE r \notin marked
      BY <1>R, <3>1, <3>3
    <3> QED BY <3>2, <3>3
  <2>5. \A s \in phases' : Appendable(phases', s) /\ EnvOK(s)
    <3>1. phases \in SUBSET Phase /\ phases' \in SUBSET Phase
      BY <1>0 DEF TypeOK
    <3> QED BY <2>3, <2>4, <3>1, AppendableKept
  <2>6. ASSUME NEW r \in phases', NEW s \in phases', r # s
        PROVE  r.id # s.id /\ Key(r) # Key(s)
    <3>1. PICK x \in phases : r = f(x)
      BY <2>1
    <3>2. PICK y \in phases : s = f(y)
      BY <2>1
    <3>3. x # y
      BY <2>6, <3>1, <3>2
    <3>4. x.id # y.id /\ Key(x) # Key(y)
      BY <3>3 DEF IInv, TableOK
    <3>5. /\ r.id = x.id /\ Key(r) = Key(x)
          /\ s.id = y.id /\ Key(s) = Key(y)
      BY <2>2, <3>1, <3>2
    <3> QED BY <3>4, <3>5
  <2>7. TableOK(phases')
    BY <2>5, <2>6 DEF TableOK
  <2>8. th' = th /\ change' = change /\ outbox' = outbox
    BY <1>25 DEF Boot
  <2>9. \A t \in Threads : ThreadOK(phases', th'[t])
    <3>1. /\ phases \in SUBSET Phase /\ phases' \in SUBSET Phase
          /\ \A t \in Threads : th[t] \in Thread
      BY <1>0 DEF TypeOK, Thread
    <3> QED BY <1>T, <2>3, <2>8, <3>1, ThreadOKKept
  <2>10. OutboxOK'
    BY <2>8 DEF IInv, OutboxOK, CompletedHasOutbox
  <2> QED BY <1>0, <2>3, <2>7, <2>9, <2>10 DEF IInv, StepOK
<1> QED
  BY <1>1, <1>2, <1>3, <1>4, <1>5, <1>6, <1>7, <1>8, <1>9, <1>10, <1>11, <1>12,
     <1>13, <1>15, <1>16, <1>17, <1>18, <1>19, <1>20, <1>21, <1>22, <1>23, <1>24,
     <1>25
  DEF ServerStep, Handler, HandlerStep, RunAsync

(* What a command's scan has listed: rows that were running, whose type    *)
(* and attempt are stored for good.                                        *)
ScanOK ==
  \A r \in scan : r.status = "running" /\ EnvOK(r) /\ SameKey(phases, r)

(* So does every step of a scan that runs beside the server.               *)
THEOREM NextInv == IInv /\ ScanOK /\ [Next]_vars => StepOK /\ ScanOK'
<1> SUFFICES ASSUME IInv, ScanOK, [Next]_vars PROVE StepOK /\ ScanOK'
  OBVIOUS
<1>0. TypeOK' /\ TypeOK
  BY NextType DEF IInv
<1>S. ASSUME StepOK, scan' \subseteq scan PROVE ScanOK'
  BY <1>S, SameKeyKept DEF ScanOK, StepOK
<1>P. ASSUME TableOK(phases'), Keeps(phases, phases'), UNCHANGED << change, outbox, th >>
      PROVE  StepOK
  <2>1. /\ phases \in SUBSET Phase /\ phases' \in SUBSET Phase
        /\ \A t \in Threads : th[t] \in Thread /\ ThreadOK(phases, th[t])
    BY <1>0 DEF TypeOK, Thread, IInv
  <2>2. \A t \in Threads : ThreadOK(phases', th'[t])
    BY <1>P, <2>1, ThreadOKKept
  <2>3. OutboxOK'
    BY <1>P DEF IInv, OutboxOK, CompletedHasOutbox
  <2> QED BY <1>0, <1>P, <2>2, <2>3 DEF IInv, StepOK
<1>1. CASE ServerStep /\ UNCHANGED << scan, scans >>
  BY <1>0, <1>1, <1>S, ServerInv
<1>2. CASE ScanList
  <2>1. StepOK
    BY <1>2, <1>P, TableUnchanged DEF ScanList
  <2>2. ASSUME NEW r \in scan'
        PROVE  r.status = "running" /\ EnvOK(r) /\ SameKey(phases', r)
    BY <1>2 DEF ScanList, IInv, TableOK, SameKey
  <2> QED BY <2>1, <2>2 DEF ScanOK
<1>3. ASSUME NEW r \in scan, ScanSave(r) PROVE StepOK /\ ScanOK'
  <2> DEFINE m == MarkInterrupted(r)
  <2>1. r \in Phase /\ m \in Phase
    BY <1>0, AggregateTypes DEF TypeOK
  <2>2. Key(m) = Key(r)
    BY <2>1, StartFields
  <2>3. Appendable(phases, m)
    BY <2>1, <2>2, OwnedAppendable DEF ScanOK
  <2>4. EnvOK(m)
    BY <2>1, StartEnvOK DEF ScanOK
  <2>5. SaveOk(m) \/ SaveFails(m)
    BY <1>3 DEF ScanSave
  <2> HIDE DEF m
  <2>6. TableOK(phases') /\ Keeps(phases, phases')
    BY <2>1, <2>3, <2>4, <2>5, SaveOKKept, SaveFailsKept
  <2>7. StepOK
    BY <1>3, <1>P, <2>6 DEF ScanSave
  <2> QED BY <1>3, <1>S, <2>7 DEF ScanSave
<1>4. CASE UNCHANGED vars
  BY <1>4, <1>P, <1>S, TableUnchanged DEF vars
<1> QED BY <1>1, <1>2, <1>3, <1>4 DEF Next, ScanStep

-----------------------------------------------------------------------------
(* The results, for any number of threads, crashes and database errors.    *)

(* The inductive invariant holds in every reachable state.                 *)
THEOREM InvCorrect == Spec => [](IInv /\ ScanOK)
<1>1. IInv /\ ScanOK /\ [Next]_vars => (IInv /\ ScanOK)'
  BY NextInv DEF StepOK
<1>2. Init => IInv /\ ScanOK
  BY InitInv DEF Init, ScanOK
<1> QED BY <1>1, <1>2, PTL DEF Spec

(* Run's unlocked numbering of attempts never leaves a gap, exceeds the    *)
(* retry budget, or lets two rows share an attempt or an id.               *)
THEOREM AttemptHistoryCorrect == Spec => []AttemptHistory
<1>1. IInv => AttemptHistory
  BY DEF IInv, TableOK, Appendable, AttemptHistory
<1> QED BY <1>1, InvCorrect, PTL

(* An envelope is recorded exactly for the settled rows, and a DONE row is *)
(* confident, whoever of runAsync, Reject, failPhase and the boot scan     *)
(* wrote it last.                                                          *)
THEOREM EnvelopeIffSettledCorrect == Spec => []EnvelopeIffSettled
<1>1. IInv => EnvelopeIffSettled
  BY DEF IInv, TableOK, EnvOK, EnvelopeIffSettled
<1> QED BY <1>1, InvCorrect, PTL

(* The goroutine that completes a phase always finds its row.              *)
THEOREM CompletionFindsRowCorrect == Spec => []CompletionFindsRow
<1>1. IInv => CompletionFindsRow
  BY DEF IInv, ThreadOK, CompletionFindsRow
<1> QED BY <1>1, InvCorrect, PTL

(* A completed change always has its outbox row, although advanceChange    *)
(* and Abort write snapshots that may be stale.                            *)
THEOREM CompletedHasOutboxCorrect == Spec => []CompletedHasOutbox
<1>1. IInv => CompletedHasOutbox
  BY DEF IInv, OutboxOK
<1> QED BY <1>1, InvCorrect, PTL

(* No Save of any handler, goroutine or boot scan drops or renumbers a row. *)
THEOREM HistoryKeptCorrect == Spec => HistoryKept
<1>1. IInv /\ ScanOK /\ [Next]_vars =>
        [\A r \in phases \ phases' :
           \E s \in phases' : s.id = r.id /\ Key(s) = Key(r)]_vars
  BY NextInv DEF StepOK, Keeps
<1> QED BY <1>1, InvCorrect, PTL DEF Spec, HistoryKept

-----------------------------------------------------------------------------
(* The row of the change.                                                  *)

(* A phase of type pt may run on a change read as c: the change is there,  *)
(* past it or just before it.                                              *)
Before(c, pt) == PhaseIndex(pt) <= PhaseIndex(c.current) + 1

Reached(pt) == Before(change, pt)

(* A request for a phase, from its look at the change to its last write.   *)
Owning ==
  { "run_check", "run_prior", "run_save", "resume_save", "async", "apply", "preflight",
    "dispatch", "advance", "fail" }

(* What a request knows: it holds a value the change has had and, unless   *)
(* the row was moved back, a phase that may run on it; archive is          *)
(* dispatched for a change that has been verified.                         *)
Local(t) ==
  /\ th[t].pc \in Owning => th[t].c \in versions
  /\ ~reverted /\ th[t].pc \in Owning => Before(th[t].c, th[t].p.type)
  /\ ~reverted /\ th[t].pc = "reject" => Reached(th[t].p.type)
  /\ th[t].pc = "abort" => th[t].c \in versions /\ ~ChangeIsTerminal(th[t].c)
  /\ th[t].pc \in {"run_save", "resume_save", "reject"} => ~AdvanceAllowed(th[t].p.status)
  /\ th[t].pc = "apply" => th[t].p.type = "apply"
  /\ th[t].pc \in {"dispatch", "advance"} /\ th[t].p.type = "archive" => verified

(* The values of the row: a completed one is at archive and verified, and  *)
(* unless the row was moved back the last one is the furthest.             *)
ChangeOK ==
  /\ change \in versions
  /\ \A v \in versions : v.status = "completed" => v.current = "archive" /\ verified
  /\ ~reverted =>
       \A v \in versions : /\ PhaseIndex(v.current) <= PhaseIndex(change.current)
                           /\ v.status = "aborted" => change.status = "aborted"
  /\ DoneConfident(Latest(phases, "verify"), "verify") => verified

(* The inductive invariant of the change, on top of IInv.                  *)
CInv ==
  /\ ChangeOK
  /\ ~reverted => \A r \in phases : Reached(r.type)
  /\ \A t \in Threads : Local(t)
  /\ FinishedIsAdvanced

Alone(t) == \A u \in Threads \ {t} : th'[u] = th[u]

(* PhaseIndex finds a type at its place in the canonical order.            *)
LEMMA IndexOf ==
  ASSUME NEW i \in 1 .. 9
  PROVE  PhaseIndex(AllPhaseTypes[i]) = i
<1>1. Len(AllPhaseTypes) = 9
  BY DEF AllPhaseTypes
<1>2. \A j \in 1 .. 9 : AllPhaseTypes[j] = AllPhaseTypes[i] => j = i
  BY PhaseTypesDistinct
<1> QED
  BY <1>1, <1>2 DEF PhaseIndex

(* The places, one by one.                                                 *)
LEMMA Places ==
  /\ PhaseIndex("init") = 1 /\ PhaseIndex("explore") = 2 /\ PhaseIndex("proposal") = 3
  /\ PhaseIndex("spec") = 4 /\ PhaseIndex("design") = 5 /\ PhaseIndex("tasks") = 6
  /\ PhaseIndex("apply") = 7 /\ PhaseIndex("verify") = 8 /\ PhaseIndex("archive") = 9
<1>1. /\ AllPhaseTypes[1] = "init" /\ AllPhaseTypes[2] = "explore"
      /\ AllPhaseTypes[3] = "proposal" /\ AllPhaseTypes[4] = "spec"
      /\ AllPhaseTypes[5] = "design" /\ AllPhaseTypes[6] = "tasks"
      /\ AllPhaseTypes[7] = "apply" /\ AllPhaseTypes[8] = "verify"
      /\ AllPhaseTypes[9] = "archive"
  BY SMT DEF AllPhaseTypes
<1>2. \A i \in 1 .. 9 : PhaseIndex(AllPhaseTypes[i]) = i
  BY IndexOf
<1> QED
  BY SMT, <1>1, <1>2

(* The successor of a type is the one at the next place.                   *)
LEMMA NextPlace ==
  ASSUME NEW current \in PhaseTypes, NEW pt \in PhaseTypes
  PROVE  pt \in NextValid(current) <=> PhaseIndex(pt) = PhaseIndex(current) + 1
BY SMT, Places DEF PhaseTypes, NextValid

(* Iron Law 3 looks at the latest attempt of verify only.                  *)
LEMMA VerifiedLatest ==
  ASSUME NEW T, DoneConfident(LoadPriorPhases(T), "verify")
  PROVE  DoneConfident(Latest(T, "verify"), "verify")
BY DEF DoneConfident, LoadPriorPhases, Latest

(* What a save puts into the table.                                        *)
LEMMA SavedRows ==
  ASSUME TypeOK, NEW p \in Phase, SaveOk(p), NEW r \in phases'
  PROVE  r \in phases \/ (r.type = p.type /\ r.status = p.status /\ Key(r) = Key(p))
<1>1. ASSUME NEW x PROVE [p EXCEPT !.id = x].type = p.type /\ [p EXCEPT !.id = x].status = p.status
                         /\ Key([p EXCEPT !.id = x]) = Key(p)
  BY DEF Phase, Key
<1>2. phases \in SUBSET Phase /\ r \in Upsert(phases, p)
  BY DEF SaveOk, TypeOK
<1>3. \/ r \in phases
      \/ \E x \in phases : r = [p EXCEPT !.id = x.id]
      \/ r = p
  BY <1>2, UpsertFrom
<1> QED
  BY <1>1, <1>3

-----------------------------------------------------------------------------
(* A step that leaves the change alone adds no value and moves nothing     *)
(* back.                                                                   *)
LEMMA Still ==
  ASSUME IInv, CInv, Record, change' = change
  PROVE  versions' = versions /\ (reverted' <=> reverted) /\ (verified => verified')
<1>1. reverted \in BOOLEAN /\ change \in versions
  BY DEF IInv, TypeOK, CInv, ChangeOK
<1> QED
  BY <1>1 DEF Record

(* Such a step keeps the invariant when what it writes is a phase that may *)
(* run, and an accepted one is advanced next.                              *)
LEMMA KeptStill ==
  ASSUME IInv, CInv, Record, change' = change, crashes' = crashes, faults' = 0 => faults = 0,
         \A u \in Threads : th'[u] = th[u] \/ (th[u].pc # "advance" /\ Local(u)'),
         \A r \in phases' :
           \/ r \in phases
           \/ /\ ~reverted => Reached(r.type)
              /\ AdvanceAllowed(r.status) =>
                   \E u \in Threads : th'[u].pc = "advance" /\ Key(th'[u].p) = Key(r)
  PROVE  CInv'
<1>0. versions' = versions /\ (reverted' <=> reverted) /\ (verified => verified')
  BY Still
<1>1. ChangeOK'
  <2>1. DoneConfident(Latest(phases', "verify"), "verify") => verified'
    BY DEF Record
  <2> QED
    BY <1>0, <2>1 DEF CInv, ChangeOK
<1>2. ~reverted' => \A r \in phases' : Reached(r.type)'
  BY <1>0 DEF CInv, Reached
<1>3. ASSUME NEW u \in Threads PROVE Local(u)'
  <2>1. CASE th'[u] = th[u]
    BY <1>0, <2>1 DEF CInv, Local, Reached
  <2> QED
    BY <2>1
<1>4. FinishedIsAdvanced'
  <2> SUFFICES ASSUME crashes' = 0, faults' = 0, change'.status # "aborted", ~reverted',
                      NEW r \in phases', AdvanceAllowed(r.status)
               PROVE  \/ PhaseIndex(r.type) <= PhaseIndex(change'.current)
                      \/ \E u \in Threads : th'[u].pc = "advance" /\ Key(th'[u].p) = Key(r)
    BY DEF FinishedIsAdvanced
  <2>1. CASE r \in phases
    <3>1. \/ PhaseIndex(r.type) <= PhaseIndex(change.current)
          \/ \E u \in Threads : th[u].pc = "advance" /\ Key(th[u].p) = Key(r)
      BY <1>0, <2>1 DEF CInv, FinishedIsAdvanced
    <3> QED
      BY <3>1
  <2>2. CASE r \notin phases
    BY <2>2
  <2> QED
    BY <2>1, <2>2
<1> QED
  BY <1>1, <1>2, <1>3, <1>4 DEF CInv

(* The same for a step of one request.                                     *)
LEMMA Moves ==
  ASSUME IInv, CInv, Record, NEW t \in Threads, Alone(t), change' = change,
         crashes' = crashes, faults' = 0 => faults = 0, th[t].pc # "advance", Local(t)',
         \A r \in phases' :
           \/ r \in phases
           \/ /\ ~reverted => Reached(r.type)
              /\ AdvanceAllowed(r.status) => th'[t].pc = "advance" /\ Key(th'[t].p) = Key(r)
  PROVE  CInv'
<1>1. \A u \in Threads : th'[u] = th[u] \/ (th[u].pc # "advance" /\ Local(u)')
  BY DEF Alone
<1> QED
  BY <1>1, KeptStill

(* Errors of the database are only ever counted up.                        *)
LEMMA FaultsCount ==
  ASSUME TypeOK
  PROVE  DBFault => faults' # 0
BY SMT DEF DBFault, TypeOK

(* A request that is through holds nothing.                                *)
LEMMA ReturnLocal ==
  ASSUME IInv, NEW t \in Threads, Return(t)
  PROVE  Local(t)'
<1>1. th'[t].pc = "idle"
  BY DEF Return, Idle, IInv, TypeOK
<1> QED
  BY <1>1 DEF Local, Owning

(* A request goes on with a phase of the same type and the same snapshot.  *)
LEMMA OnLocal ==
  ASSUME IInv, CInv, Record, NEW t \in Threads, th[t].pc \in Owning, change' = change,
         th'[t].p.type = th[t].p.type, th'[t].c = th[t].c,
         th'[t].pc \in Owning,
         th'[t].pc \in {"run_save", "resume_save"} => ~AdvanceAllowed(th'[t].p.status),
         th'[t].pc = "apply" => th[t].p.type = "apply",
         th'[t].pc \in {"dispatch", "advance"} /\ th[t].p.type = "archive" => verified
  PROVE  Local(t)'
<1>0. versions' = versions /\ (reverted' <=> reverted) /\ (verified => verified')
  BY Still
<1>1. th[t].c \in versions /\ (~reverted => Before(th[t].c, th[t].p.type))
  BY DEF CInv, Local
<1> QED
  BY <1>0, <1>1 DEF Local, Owning

(* The same without a new phase.                                           *)
LEMMA GotoLocal ==
  ASSUME IInv, CInv, Record, NEW t \in Threads, change' = change, th[t].pc \in Owning,
         NEW pc \in {"run_prior", "async", "preflight", "fail"}, Goto(t, pc)
  PROVE  Local(t)'
<1>1. th'[t].pc = pc /\ th'[t].p = th[t].p /\ th'[t].c = th[t].c
  BY GotoFrame
<1>2. /\ th'[t].pc \in Owning
      /\ th'[t].pc \notin {"run_save", "resume_save", "apply", "dispatch", "advance"}
  BY <1>1 DEF Owning
<1> QED
  BY <1>1, <1>2, OnLocal

(* What may run on the snapshot of a request may run on the row, which is  *)
(* at least as far.                                                        *)
LEMMA OwnReached ==
  ASSUME IInv, CInv, ~reverted, NEW t \in Threads, th[t].pc \in Owning \cup {"reject"}
  PROVE  Reached(th[t].p.type)
<1>1. CASE th[t].pc = "reject"
  BY <1>1 DEF CInv, Local
<1>2. CASE th[t].pc \in Owning
  <2> DEFINE i == PhaseIndex(th[t].p.type)
             j == PhaseIndex(th[t].c.current)
             k == PhaseIndex(change.current)
  <2>1. i \in 1 .. 9 /\ j \in 1 .. 9 /\ k \in 1 .. 9
    BY PhaseIndexType DEF IInv, TypeOK, Phase, Change
  <2>2. i <= j + 1 /\ j <= k
    BY <1>2 DEF CInv, Local, ChangeOK, Before
  <2>3. i <= k + 1
    BY SMT, <2>1, <2>2
  <2> QED
    BY <2>3 DEF Reached, Before
<1> QED
  BY <1>1, <1>2

(* A save, or its failure, of a phase that does not advance the change.    *)
LEMMA QuietSave ==
  ASSUME IInv, NEW p \in Phase, ~reverted => Reached(p.type), ~AdvanceAllowed(p.status),
         SaveOk(p) \/ SaveFails(p)
  PROVE  /\ \A r \in phases' :
              r \in phases \/ ((~reverted => Reached(r.type)) /\ ~AdvanceAllowed(r.status))
         /\ faults' = 0 => faults = 0
<1>1. TypeOK
  BY DEF IInv
<1>2. \A r \in phases' : r \in phases \/ (r.type = p.type /\ r.status = p.status)
  BY <1>1, SavedRows DEF SaveFails
<1>3. faults' = 0 => faults = 0
  BY <1>1, FaultsCount DEF SaveOk, SaveFails
<1> QED
  BY <1>2, <1>3

(* Run, up to the save of the running row.                                 *)
LEMMA RunChange ==
  ASSUME IInv, CInv, Record, NEW t \in Threads, Alone(t),
         \/ \E pt \in PhaseTypes : RunFindChange(t, pt)
         \/ RunCheckRunning(t) \/ RunFindPrior(t) \/ RunSave(t)
  PROVE  CInv'
<1>0. TypeOK /\ change' = change /\ crashes' = crashes
  BY DEF IInv, RunFindChange, RunCheckRunning, RunFindPrior, RunSave
<1>1. ASSUME NEW pt \in PhaseTypes, RunFindChange(t, pt) PROVE CInv'
  <2>1. PICK id \in PhaseIds :
          th' = [th EXCEPT ![t] = [ pc |-> "run_check", c |-> change,
                                    p |-> [NoPhase EXCEPT !.id = id, !.type = pt] ]]
    BY <1>1 DEF RunFindChange
  <2> DEFINE q == [NoPhase EXCEPT !.id = id, !.type = pt]
  <2>2. th'[t] = [ pc |-> "run_check", c |-> change, p |-> q ]
    BY <2>1, SetFrame
  <2>3. q.type = pt
    BY DEF NoPhase
  <2> HIDE DEF q
  <2>4. th'[t].pc = "run_check" /\ th'[t].c = change /\ th'[t].p.type = pt
    BY SMT, <2>2, <2>3
  <2>5. change.current \in PhaseTypes /\ PhaseIndex(change.current) \in 1 .. 9
    BY <1>0, PhaseIndexType DEF TypeOK, Change
  <2>6. pt = change.current \/ PhaseIndex(pt) = PhaseIndex(change.current) + 1
    BY <1>1, <2>5, NextPlace DEF RunFindChange, IsNextValidTransition
  <2>7. PhaseIndex(pt) <= PhaseIndex(change.current) + 1
    BY SMT, <2>5, <2>6
  <2>8. Local(t)'
    BY <1>0, <2>4, <2>7, Still DEF Local, Owning, Before, CInv, ChangeOK
  <2>9. phases' = phases /\ faults' = faults /\ th[t].pc = "idle"
    BY <1>1 DEF RunFindChange, Arrives, At
  <2> QED
    BY <1>0, <2>8, <2>9, Moves
<1>2. ASSUME RunCheckRunning(t) PROVE CInv'
  <2>1. phases' = phases /\ faults' = faults /\ th[t].pc = "run_check"
    BY <1>2 DEF RunCheckRunning, At
  <2>2. Local(t)'
    <3>1. CASE Return(t)
      BY <3>1, ReturnLocal
    <3>2. CASE Goto(t, "run_prior")
      BY <1>0, <2>1, <3>2, GotoLocal DEF Owning
    <3> QED
      BY <1>2, <3>1, <3>2 DEF RunCheckRunning
  <2> QED
    BY <1>0, <2>1, <2>2, Moves
<1>3. ASSUME RunFindPrior(t) PROVE CInv'
  <2>1. phases' = phases /\ th[t].pc = "run_prior"
    BY <1>3 DEF RunFindPrior, At
  <2>2. faults' = 0 => faults = 0
    BY <1>0, <1>3, FaultsCount DEF RunFindPrior
  <2>3. Local(t)'
    <3>1. CASE Return(t)
      BY <3>1, ReturnLocal
    <3>2. CASE ~Return(t)
      <4>1. PICK n \in {0, PriorAttempts(phases, th[t].p.type)} :
              th' = [th EXCEPT ![t].pc = "run_save",
                               ![t].p = Start([th[t].p EXCEPT !.attempts = n])]
        BY <1>3, <3>2 DEF RunFindPrior
      <4>2. PICK p : p = Start([th[t].p EXCEPT !.attempts = n])
        OBVIOUS
      <4>3. p.type = th[t].p.type /\ p.status = "running"
        BY <1>0, <4>2 DEF Start, TypeOK, Phase
      <4>4. th' = [th EXCEPT ![t].pc = "run_save", ![t].p = p]
        BY <4>1, <4>2
      <4>5. th'[t].pc = "run_save" /\ th'[t].p = p /\ th'[t].c = th[t].c
        BY <1>0, <4>4 DEF TypeOK
      <4>6. ~AdvanceAllowed(p.status)
        BY <4>3 DEF AdvanceAllowed
      <4> QED
        BY <1>0, <2>1, <4>3, <4>5, <4>6, OnLocal DEF Owning
    <3> QED
      BY <3>1, <3>2
  <2> QED
    BY <1>0, <2>1, <2>2, <2>3, Moves
<1>4. ASSUME RunSave(t) PROVE CInv'
  <2>1. th[t].pc = "run_save" /\ (SaveOk(th[t].p) \/ SaveFails(th[t].p))
        /\ (Goto(t, "async") \/ Return(t))
    BY <1>4 DEF RunSave, At
  <2>2. /\ th[t].p \in Phase /\ (~reverted => Reached(th[t].p.type))
        /\ ~AdvanceAllowed(th[t].p.status)
    BY <1>0, <2>1, OwnReached DEF TypeOK, CInv, Local, Owning
  <2>3. /\ \A r \in phases' :
             r \in phases \/ ((~reverted => Reached(r.type)) /\ ~AdvanceAllowed(r.status))
        /\ faults' = 0 => faults = 0
    BY <2>1, <2>2, QuietSave
  <2>4. Local(t)'
    <3>1. CASE Return(t)
      BY <3>1, ReturnLocal
    <3>2. CASE Goto(t, "async")
      BY <1>0, <2>1, <3>2, GotoLocal DEF Owning
    <3> QED
      BY <2>1, <3>1, <3>2
  <2> QED
    BY <1>0, <2>1, <2>3, <2>4, Moves
<1> QED
  BY <1>1, <1>2, <1>3, <1>4

(* Resume, Approve, Reject and Abort, up to their first write.             *)
LEMMA ArrivalChange ==
  ASSUME IInv, CInv, Record, NEW t \in Threads, Alone(t),
         \/ \E r \in phases : ResumeFind(t, r) \/ ApproveCheck(t, r) \/ RejectCheck(t, r)
         \/ AbortFind(t)
  PROVE  CInv'
<1>0. /\ TypeOK /\ UNCHANGED << phases, change, crashes, faults >>
      /\ th[t].pc = "idle"
  BY DEF IInv, ResumeFind, ApproveCheck, RejectCheck, AbortFind, Arrives, At
<1>1. SUFFICES Local(t)'
  BY <1>0, Moves
<1>2. ASSUME NEW r \in phases, ResumeFind(t, r) PROVE Local(t)'
  <2>1. r \in Phase /\ (~reverted => Reached(r.type))
    BY <1>0 DEF TypeOK, CInv
  <2>2. PICK pc \in {"resume_save", "async"}, p \in {Start(r), Restart(r), r} :
          /\ th' = [th EXCEPT ![t] = [pc |-> pc, p |-> p, c |-> change]]
          /\ pc = "resume_save" => p # r
    <3>1. Start(r) # r /\ Restart(r) # r
      <4>1. Start(r).attempts = r.attempts + 1 /\ Restart(r).attempts = r.attempts + 1
        BY <2>1, StartFields
      <4>2. r.attempts + 1 # r.attempts
        BY SMT, <2>1 DEF Phase
      <4> QED
        BY <4>1, <4>2
    <3> QED
      BY <1>2, <3>1 DEF ResumeFind
  <2>3. th'[t] = [pc |-> pc, p |-> p, c |-> change]
    BY <2>2, SetFrame
  <2>4. p.type = r.type /\ (p # r => p.status = "running")
    BY <2>1, <2>2, StartFields
  <2>5. pc = "resume_save" => ~AdvanceAllowed(p.status)
    BY <2>2, <2>4 DEF AdvanceAllowed
  <2>6. th'[t].pc = pc /\ th'[t].p = p /\ th'[t].c = change
    BY SMT, <2>3
  <2>7. ~reverted => Before(change, th'[t].p.type)
    BY <2>1, <2>4, <2>6 DEF Reached
  <2> QED
    BY <1>0, <2>2, <2>5, <2>6, <2>7, Still DEF Local, Owning, CInv, ChangeOK
<1>3. ASSUME NEW r \in phases, ApproveCheck(t, r) PROVE Local(t)'
  <2>1. th'[t] = [Idle EXCEPT !.pc = "approve", !.p = r]
    BY <1>3, SetFrame DEF ApproveCheck
  <2>2. th'[t].pc = "approve"
    BY <2>1 DEF Idle
  <2> QED
    BY <2>2 DEF Local, Owning
<1>4. ASSUME NEW r \in phases, RejectCheck(t, r) PROVE Local(t)'
  <2>1. r \in Phase /\ (~reverted => Reached(r.type))
    BY <1>0 DEF TypeOK, CInv
  <2>2. PICK p \in {r, Start(r)} :
          th' = [th EXCEPT ![t] = [Idle EXCEPT !.pc = "reject", !.p = Complete(p, BlockedEnvelope)]]
    BY <1>4 DEF RejectCheck
  <2>3. p \in Phase /\ p.type = r.type
    <3>1. Start(r) \in Phase /\ Start(r).type = r.type
      BY <2>1, StartFields, AggregateTypes
    <3> QED
      BY <2>1, <2>2, <3>1
  <2>4. PICK b : b = Complete(p, BlockedEnvelope)
    OBVIOUS
  <2>5. b.type = r.type /\ b.status = "blocked"
    BY <2>3, <2>4, CompleteFields DEF BlockedEnvelope
  <2>6. th'[t] = [Idle EXCEPT !.pc = "reject", !.p = b]
    BY <2>2, <2>4, SetFrame
  <2>7. th'[t].pc = "reject" /\ th'[t].p = b
    BY <2>6 DEF Idle
  <2> QED
    BY <1>0, <2>1, <2>5, <2>7, Still DEF Local, Owning, Reached, AdvanceAllowed
<1>5. ASSUME AbortFind(t) PROVE Local(t)'
  <2>1. th'[t] = [Idle EXCEPT !.pc = "abort", !.c = change]
    BY <1>5, SetFrame DEF AbortFind
  <2>2. th'[t].pc = "abort" /\ th'[t].c = change
    BY <2>1 DEF Idle
  <2> QED
    BY <1>0, <1>5, <2>2, Still DEF Local, Owning, AbortFind, CInv, ChangeOK
<1> QED
  BY <1>2, <1>3, <1>4, <1>5

(* The writes of Resume, Approve and Reject.                               *)
LEMMA HandlerChange ==
  ASSUME IInv, CInv, Record, NEW t \in Threads, Alone(t),
         ResumeSave(t) \/ RejectSave(t) \/ ApproveAppend(t) \/ RejectAppend(t)
  PROVE  CInv'
<1>0. /\ TypeOK /\ UNCHANGED << change, crashes >>
      /\ th[t].pc \in {"resume_save", "reject", "approve", "rejected"}
  BY DEF IInv, ResumeSave, RejectSave, ApproveAppend, RejectAppend, At
<1>1. CASE ResumeSave(t) \/ RejectSave(t)
  <2>1. /\ th[t].pc \in {"resume_save", "reject"} /\ (SaveOk(th[t].p) \/ SaveFails(th[t].p))
        /\ \/ Return(t)
           \/ th[t].pc = "resume_save" /\ Goto(t, "async")
           \/ Goto(t, "rejected")
    BY <1>1 DEF ResumeSave, RejectSave, At
  <2>2. /\ th[t].p \in Phase /\ (~reverted => Reached(th[t].p.type))
        /\ ~AdvanceAllowed(th[t].p.status)
    BY <1>0, <2>1, OwnReached DEF TypeOK, CInv, Local, Owning
  <2>3. /\ \A r \in phases' :
             r \in phases \/ ((~reverted => Reached(r.type)) /\ ~AdvanceAllowed(r.status))
        /\ faults' = 0 => faults = 0
    BY <2>1, <2>2, QuietSave
  <2>4. Local(t)'
    <3>1. CASE Return(t)
      BY <3>1, ReturnLocal
    <3>2. CASE th[t].pc = "resume_save" /\ Goto(t, "async")
      BY <1>0, <3>2, GotoLocal DEF Owning
    <3>3. CASE Goto(t, "rejected")
      <4>1. th'[t].pc = "rejected"
        BY <3>3, GotoFrame
      <4> QED
        BY <4>1 DEF Local, Owning
    <3> QED
      BY <2>1, <3>1, <3>2, <3>3
  <2> QED
    BY <1>0, <2>3, <2>4, Moves
<1>2. CASE ApproveAppend(t) \/ RejectAppend(t)
  <2>1. phases' = phases /\ Return(t) /\ (faults' = faults \/ DBFault)
    BY <1>2 DEF ApproveAppend, RejectAppend
  <2>2. faults' = 0 => faults = 0
    BY <1>0, <2>1, FaultsCount
  <2> QED
    BY <1>0, <2>1, <2>2, ReturnLocal, Moves
<1> QED
  BY <1>1, <1>2

-----------------------------------------------------------------------------
(* Completing a phase: an accepted row is written by a request that goes   *)
(* on to advance the change.                                               *)
LEMMA CompleteChange ==
  ASSUME IInv, CInv, Record, NEW t \in Threads, Alone(t), NEW env \in Envelopes,
         th[t].pc \in {"async", "apply", "dispatch"},
         th[t].p.type = "archive" => th[t].pc = "dispatch",
         CompleteAndSave(t, env), UNCHANGED << change, crashes >>
  PROVE  CInv'
<1>0. TypeOK /\ th[t].pc \in Owning /\ th[t].pc # "advance"
  BY DEF IInv, Owning
<1>1. PICK p : p = Complete(th[t].p, env)
  OBVIOUS
<1>2. th[t].p \in Phase /\ p \in Phase
  BY <1>0, <1>1, AggregateTypes DEF TypeOK
<1>3. p.type = th[t].p.type
  BY <1>1, <1>2, CompleteFields
<1>4. ~reverted => Reached(p.type)
  BY <1>0, <1>3, OwnReached
<1>5. CASE Goto(t, "fail") /\ UNCHANGED << phases, faults >>
  BY <1>0, <1>5, GotoLocal, Moves
<1>6. CASE SaveFails(p) /\ th' = [th EXCEPT ![t].pc = "fail", ![t].p = p]
  <2>1. th'[t].pc = "fail" /\ th'[t].p = p /\ th'[t].c = th[t].c
    BY <1>0, <1>6 DEF TypeOK
  <2>2. Local(t)'
    BY <1>0, <1>3, <2>1, OnLocal DEF Owning
  <2>3. phases' = phases /\ (faults' = 0 => faults = 0)
    BY <1>0, <1>6, FaultsCount DEF SaveFails
  <2> QED
    BY <1>0, <2>2, <2>3, Moves
<1>7. CASE SaveOk(p) /\ th' = [th EXCEPT ![t].pc = "advance", ![t].p = p]
  <2>1. th'[t].pc = "advance" /\ th'[t].p = p /\ th'[t].c = th[t].c
    BY <1>0, <1>7 DEF TypeOK
  <2>2. th[t].p.type = "archive" => verified
    BY DEF CInv, Local
  <2>3. Local(t)'
    BY <1>0, <1>3, <2>1, <2>2, OnLocal DEF Owning
  <2>4. ASSUME NEW r \in phases'
        PROVE  \/ r \in phases
               \/ /\ ~reverted => Reached(r.type)
                  /\ AdvanceAllowed(r.status) => th'[t].pc = "advance" /\ Key(th'[t].p) = Key(r)
    BY <1>0, <1>2, <1>4, <1>7, <2>1, SavedRows
  <2>5. faults' = faults
    BY <1>7 DEF SaveOk
  <2> QED
    BY <1>0, <2>3, <2>4, <2>5, Moves
<1>8. CASE SaveOk(p) /\ ~AdvanceAllowed(p.status) /\ Return(t)
  <2>1. /\ \A r \in phases' :
             r \in phases \/ ((~reverted => Reached(r.type)) /\ ~AdvanceAllowed(r.status))
        /\ faults' = 0 => faults = 0
    BY <1>2, <1>4, <1>8, QuietSave
  <2> QED
    BY <1>0, <1>8, <2>1, ReturnLocal, Moves
<1> QED
  BY <1>1, <1>5, <1>6, <1>7, <1>8 DEF CompleteAndSave

(* The goroutine, up to the row it completes.                              *)
LEMMA AsyncChange ==
  ASSUME IInv, CInv, Record, NEW t \in Threads, Alone(t),
         \/ RunInitPhase(t) \/ GovernanceDenies(t) \/ GovernanceRequiresApproval(t)
         \/ GovernanceAllows(t) \/ RunApplyPhase(t) \/ Preflight(t) \/ Dispatch(t)
  PROVE  CInv'
<1>0. /\ TypeOK /\ UNCHANGED << change, crashes >>
      /\ th[t].pc \in {"async", "apply", "preflight", "dispatch"}
  BY DEF IInv, RunInitPhase, GovernanceDenies, GovernanceRequiresApproval, GovernanceAllows,
         RunApplyPhase, Preflight, Dispatch, At
<1>1. th[t].pc \in Owning /\ th[t].pc # "advance"
  BY <1>0 DEF Owning
<1>2. CASE GotoFail(t)
  BY <1>0, <1>1, <1>2, GotoLocal, Moves DEF GotoFail
<1>3. CASE GovernanceRequiresApproval(t)
  <2>1. phases' = phases /\ Return(t) /\ (faults' = faults \/ DBFault)
    BY <1>3 DEF GovernanceRequiresApproval
  <2>2. faults' = 0 => faults = 0
    BY <1>0, <2>1, FaultsCount
  <2> QED
    BY <1>0, <1>1, <2>1, <2>2, ReturnLocal, Moves
<1>4. CASE GovernanceAllows(t)
  <2>1. /\ phases' = phases /\ faults' = faults
        /\ Goto(t, IF th[t].p.type = "apply" THEN "apply" ELSE "preflight")
    BY <1>4 DEF GovernanceAllows
  <2>2. PICK pc : pc = IF th[t].p.type = "apply" THEN "apply" ELSE "preflight"
    OBVIOUS
  <2>3. th'[t].pc = pc /\ th'[t].p = th[t].p /\ th'[t].c = th[t].c
    BY <2>1, <2>2, GotoFrame
  <2>4. Local(t)'
    BY <1>0, <1>1, <2>2, <2>3, OnLocal DEF Owning
  <2> QED
    BY <1>0, <1>1, <2>1, <2>4, Moves
<1>5. CASE Preflight(t) /\ ~GotoFail(t)
  <2>1. /\ IronLawsHold(th[t].p, LoadPriorPhases(phases))
        /\ Goto(t, "dispatch") /\ phases' = phases /\ faults' = faults
    BY <1>5 DEF Preflight
  <2>2. th'[t].pc = "dispatch" /\ th'[t].p = th[t].p /\ th'[t].c = th[t].c
    BY <2>1, GotoFrame
  <2>3. th[t].p.type = "archive" => verified
    BY <2>1, VerifiedLatest DEF IronLawsHold, CInv, ChangeOK
  <2>4. Local(t)'
    BY <1>0, <1>1, <2>2, <2>3, OnLocal DEF Owning
  <2> QED
    BY <1>0, <1>1, <2>1, <2>4, Moves
<1>6. CASE RunInitPhase(t) /\ ~GotoFail(t)
  BY <1>0, <1>6, CompleteChange, EnvelopeTypes DEF RunInitPhase, At
<1>7. CASE RunApplyPhase(t)
  <2>1. PICK env \in {BlockedEnvelope} \cup ReviewConcerns([status |-> "done", conf |-> "high"]) :
          CompleteAndSave(t, env)
    BY <1>7 DEF RunApplyPhase
  <2>2. env \in Envelopes
    BY <2>1, EnvelopeTypes, EnvelopeOps
  <2>3. th[t].pc = "apply" /\ th[t].p.type = "apply"
    BY <1>7 DEF RunApplyPhase, At, CInv, Local
  <2> QED
    BY <1>0, <2>1, <2>2, <2>3, CompleteChange
<1>8. CASE Dispatch(t) /\ ~GotoFail(t)
  <2>1. PICK env \in Envelopes :
          \E reviewed \in ReviewConcerns(Validate(th[t].p, env)) : CompleteAndSave(t, reviewed)
    BY <1>8 DEF Dispatch
  <2>2. PICK reviewed \in Envelopes : CompleteAndSave(t, reviewed)
    BY <2>1, EnvelopeOps
  <2>3. th[t].pc = "dispatch"
    BY <1>8 DEF Dispatch, At
  <2> QED
    BY <1>0, <2>1, <2>2, <2>3, CompleteChange
<1> QED
  BY <1>2, <1>3, <1>4, <1>5, <1>6, <1>7, <1>8 DEF GovernanceDenies

(* failPhase writes a blocked row or nothing.                              *)
LEMMA FailChange ==
  ASSUME IInv, CInv, Record, NEW t \in Threads, Alone(t), FailPhase(t)
  PROVE  CInv'
<1>0. /\ TypeOK /\ UNCHANGED << change, crashes >>
      /\ th[t].pc = "fail" /\ Return(t) /\ th[t].p \in Phase
  BY DEF IInv, TypeOK, FailPhase, At
<1>1. ~reverted => Reached(th[t].p.type)
  BY <1>0, OwnReached DEF Owning
<1>2. CASE phases' = phases /\ (faults' = faults \/ DBFault)
  <2>1. faults' = 0 => faults = 0
    BY <1>0, <1>2, FaultsCount
  <2> QED
    BY <1>0, <1>2, <2>1, ReturnLocal, Moves
<1>3. CASE \E p \in {th[t].p, Start(th[t].p)} :
             LET b == Complete(p, BlockedEnvelope) IN SaveOk(b) \/ SaveFails(b)
  <2>1. PICK p \in {th[t].p, Start(th[t].p)} :
          LET b == Complete(p, BlockedEnvelope) IN SaveOk(b) \/ SaveFails(b)
    BY <1>3
  <2>2. PICK b : b = Complete(p, BlockedEnvelope)
    OBVIOUS
  <2>3. p \in Phase /\ p.type = th[t].p.type
    <3>1. Start(th[t].p) \in Phase /\ Start(th[t].p).type = th[t].p.type
      BY <1>0, StartFields, AggregateTypes
    <3> QED
      BY <1>0, <2>1, <3>1
  <2>4. b \in Phase /\ b.type = th[t].p.type /\ b.status = "blocked"
    <3>1. Complete(p, BlockedEnvelope) \in Phase
      BY <2>3, AggregateTypes, EnvelopeTypes
    <3>2. BlockedEnvelope.status = "blocked"
      BY DEF BlockedEnvelope
    <3>3. /\ Complete(p, BlockedEnvelope).type = p.type
          /\ Complete(p, BlockedEnvelope).status = BlockedEnvelope.status
      BY <2>3, CompleteFields
    <3> QED
      BY <2>2, <2>3, <3>1, <3>2, <3>3
  <2>5. (~reverted => Reached(b.type)) /\ ~AdvanceAllowed(b.status) /\ (SaveOk(b) \/ SaveFails(b))
    BY <1>1, <2>1, <2>2, <2>4 DEF AdvanceAllowed
  <2>6. /\ \A r \in phases' :
             r \in phases \/ ((~reverted => Reached(r.type)) /\ ~AdvanceAllowed(r.status))
        /\ faults' = 0 => faults = 0
    BY <2>4, <2>5, QuietSave
  <2> QED
    BY <1>0, <2>6, ReturnLocal, Moves
<1> QED
  BY <1>2, <1>3 DEF FailPhase

-----------------------------------------------------------------------------
(* A write of the change, or its failure, by a request that ends with it:  *)
(* unless the row is moved back or the database failed, the phase that was *)
(* accepted is behind the pointer afterwards.                              *)
LEMMA Writes ==
  ASSUME IInv, CInv, Record, TypeOK', NEW t \in Threads, Alone(t), Return(t),
         phases' = phases, crashes' = crashes, faults' = 0 => faults = 0,
         th[t].pc \in {"advance", "abort"},
         change' # change /\ change'.status = "completed" =>
           change'.current = "archive" /\ verified,
         /\ th[t].pc = "advance" /\ faults' = 0 /\ ~reverted' /\ change'.status # "aborted"
         => PhaseIndex(th[t].p.type) <= PhaseIndex(change'.current)
  PROVE  CInv'
<1> DEFINE k == PhaseIndex(change.current)
           l == PhaseIndex(change'.current)
<1>0. /\ versions' = versions \cup {change'} /\ (verified => verified')
      /\ ~reverted' => ~reverted /\ (change' # change => ~Reverts(change, change'))
  BY DEF Record
<1>1. k \in 1 .. 9 /\ l \in 1 .. 9
  BY PhaseIndexType DEF IInv, TypeOK, Change
<1>2. ASSUME ~reverted'
      PROVE  k <= l /\ (change.status = "aborted" => change'.status = "aborted")
  <2>1. ~(l < k) /\ (change.status = "aborted" => change'.status = "aborted")
    <3>1. CASE change' = change
      BY SMT, <1>1, <3>1
    <3>2. CASE change' # change
      BY <1>0, <1>2, <3>2 DEF Reverts
    <3> QED
      BY <3>1, <3>2
  <2> QED
    BY SMT, <1>1, <2>1
<1>3. ChangeOK'
  <2>1. ASSUME NEW v \in versions', v.status = "completed"
        PROVE  v.current = "archive" /\ verified'
    BY <1>0, <2>1 DEF CInv, ChangeOK
  <2>2. ASSUME ~reverted', NEW v \in versions'
        PROVE  /\ PhaseIndex(v.current) <= l
               /\ v.status = "aborted" => change'.status = "aborted"
    <3>1. CASE v = change'
      BY SMT, <1>1, <3>1
    <3>2. CASE v \in versions
      <4>1. PhaseIndex(v.current) <= k /\ (v.status = "aborted" => change.status = "aborted")
        BY <1>0, <2>2, <3>2 DEF CInv, ChangeOK
      <4>2. PhaseIndex(v.current) \in 1 .. 9
        BY <3>2, PhaseIndexType DEF IInv, TypeOK, Change
      <4>3. PhaseIndex(v.current) <= l
        BY SMT, <1>1, <1>2, <2>2, <4>1, <4>2
      <4> QED
        BY <1>2, <2>2, <4>1, <4>3
    <3> QED
      BY <1>0, <3>1, <3>2
  <2>3. DoneConfident(Latest(phases', "verify"), "verify") => verified'
    BY DEF Record
  <2> QED
    BY <1>0, <2>1, <2>2, <2>3 DEF ChangeOK
<1>4. ASSUME ~reverted', NEW pt \in PhaseTypes, Reached(pt) PROVE Reached(pt)'
  <2>1. PhaseIndex(pt) \in 1 .. 9 /\ PhaseIndex(pt) <= k + 1
    BY <1>4, PhaseIndexType DEF Reached, Before
  <2>2. PhaseIndex(pt) <= l + 1
    BY SMT, <1>1, <1>2, <1>4, <2>1
  <2> QED
    BY <2>2 DEF Reached, Before
<1>5. ~reverted' => \A r \in phases' : Reached(r.type)'
  <2>1. \A r \in phases : r.type \in PhaseTypes
    BY DEF IInv, TypeOK, Phase
  <2> QED
    BY <1>0, <1>4, <2>1 DEF CInv
<1>6. ASSUME NEW u \in Threads PROVE Local(u)'
  <2>1. CASE u = t
    BY <2>1, ReturnLocal
  <2>2. CASE u # t
    <3>1. th'[u] = th[u] /\ Local(u) /\ th[u].p.type \in PhaseTypes
      BY <2>2 DEF Alone, CInv, IInv, TypeOK, Phase
    <3>2. ~reverted' /\ th[u].pc = "reject" => Reached(th[u].p.type)'
      BY <1>0, <1>4, <3>1 DEF Local
    <3> QED
      BY <1>0, <3>1, <3>2 DEF Local
  <2> QED
    BY <2>1, <2>2
<1>7. FinishedIsAdvanced'
  <2> SUFFICES ASSUME crashes' = 0, faults' = 0, change'.status # "aborted", ~reverted',
                      NEW r \in phases', AdvanceAllowed(r.status)
               PROVE  \/ PhaseIndex(r.type) <= l
                      \/ \E u \in Threads : th'[u].pc = "advance" /\ Key(th'[u].p) = Key(r)
    BY DEF FinishedIsAdvanced
  <2>1. \/ PhaseIndex(r.type) <= k
        \/ \E u \in Threads : th[u].pc = "advance" /\ Key(th[u].p) = Key(r)
    BY <1>0, <1>2 DEF CInv, FinishedIsAdvanced
  <2>2. PhaseIndex(r.type) \in 1 .. 9
    BY PhaseIndexType DEF IInv, TypeOK, Phase
  <2>3. CASE PhaseIndex(r.type) <= k
    BY SMT, <1>1, <1>2, <2>2, <2>3
  <2>4. ASSUME NEW u \in Threads, th[u].pc = "advance", Key(th[u].p) = Key(r), u # t
        PROVE  th'[u].pc = "advance" /\ Key(th'[u].p) = Key(r)
    BY <2>4 DEF Alone
  <2>5. ASSUME th[t].pc = "advance", Key(th[t].p) = Key(r)
        PROVE  PhaseIndex(r.type) <= l
    <3>1. th[t].p.type = r.type
      BY <2>5 DEF Key
    <3> QED
      BY <2>5, <3>1
  <2> QED
    BY <2>1, <2>3, <2>4, <2>5
<1> QED
  BY <1>3, <1>5, <1>6, <1>7 DEF CInv

(* What a step writes to the change: a legal successor of a value the row  *)
(* has had.                                                                *)
ChangeStep ==
  \/ change' = change
  \/ \E c \in versions : ~ChangeIsTerminal(c) /\ change' = Abort(c)
  \/ \E c \in versions : \E pt \in PhaseTypes \ {"archive"} :
       CanAdvancePhase(c, pt) /\ change' = AdvancePhase(c, pt)
  \/ \E c \in versions :
       CanAdvancePhase(c, "archive") /\ change' = MarkCompleted(AdvancePhase(c, "archive"))

(* The change is aborted.                                                  *)
LEMMA AbortChange ==
  ASSUME IInv, CInv, Record, TypeOK', NEW t \in Threads, Alone(t), AbortSave(t)
  PROVE  CInv' /\ ChangeStep
<1>0. /\ TypeOK /\ UNCHANGED << phases, crashes >> /\ th[t].pc = "abort" /\ Return(t)
      /\ th[t].c \in Change /\ th[t].c \in versions /\ ~ChangeIsTerminal(th[t].c)
  BY DEF IInv, AbortSave, At, CInv, Local, TypeOK
<1>1. faults' = 0 => faults = 0
  BY <1>0, FaultsCount DEF AbortSave
<1>2. change' = change \/ change' = Abort(th[t].c)
  BY DEF AbortSave
<1>3. Abort(th[t].c).status = "aborted"
  BY <1>0 DEF Abort, Change
<1>4. ChangeStep
  BY <1>0, <1>2 DEF ChangeStep
<1> QED
  BY <1>0, <1>1, <1>2, <1>3, <1>4, Writes

(* The change is advanced on the snapshot of the request.                  *)
LEMMA AdvanceTheChange ==
  ASSUME IInv, CInv, Record, TypeOK', NEW t \in Threads, Alone(t), AdvanceChange(t)
  PROVE  CInv' /\ ChangeStep
<1> DEFINE pt == th[t].p.type
           c == th[t].c
<1>0. /\ TypeOK /\ UNCHANGED << phases, crashes >> /\ th[t].pc = "advance" /\ Return(t)
  BY DEF IInv, AdvanceChange, At
<1>1. /\ c \in versions /\ (~reverted => Before(c, pt)) /\ (pt = "archive" => verified)
      /\ pt \in PhaseTypes /\ c \in Change /\ c.current \in PhaseTypes
  BY <1>0 DEF CInv, Local, Owning, TypeOK, Phase, Change
<1>2. /\ PhaseIndex(pt) \in 1 .. 9 /\ PhaseIndex(c.current) \in 1 .. 9
      /\ PhaseIndex(change.current) \in 1 .. 9
  BY <1>0, <1>1, PhaseIndexType DEF TypeOK, Change
<1>3. CASE change' = change /\ faults' = faults /\ ~CanAdvancePhase(c, pt)
  <2>1. ASSUME ~reverted, change.status # "aborted"
        PROVE  PhaseIndex(pt) <= PhaseIndex(change.current)
    <3>1. PhaseIndex(c.current) <= PhaseIndex(change.current) /\ c.status # "aborted"
      BY <1>1, <2>1 DEF CInv, ChangeOK
    <3>2. PhaseIndex(pt) <= PhaseIndex(c.current)
      <4>1. CASE c.status = "completed"
        <5>1. PhaseIndex(c.current) = 9
          BY <1>1, <4>1, Places DEF CInv, ChangeOK
        <5> QED
          BY SMT, <1>2, <5>1
      <4>2. CASE pt \notin NextValid(c.current)
        <5>1. PhaseIndex(pt) # PhaseIndex(c.current) + 1
          BY <1>1, <4>2, NextPlace
        <5>2. PhaseIndex(pt) <= PhaseIndex(c.current) + 1
          BY <1>1, <2>1 DEF Before
        <5> QED
          BY SMT, <1>2, <5>1, <5>2
      <4> QED
        BY <1>3, <3>1, <4>1, <4>2 DEF CanAdvancePhase, ChangeIsTerminal
    <3> QED
      BY SMT, <1>2, <3>1, <3>2
  <2>2. ~reverted' => ~reverted
    BY <1>3 DEF Record
  <2> QED
    BY <1>0, <1>3, <2>1, <2>2, Writes DEF ChangeStep
<1>4. CASE change' = change /\ DBFault
  BY <1>0, <1>4, FaultsCount, Writes DEF ChangeStep
<1>5. CASE /\ CanAdvancePhase(c, pt) /\ faults' = faults
           /\ \/ pt # "archive" /\ change' = AdvancePhase(c, pt)
              \/ pt = "archive" /\ change' = MarkCompleted(AdvancePhase(c, pt))
  <2>1. change'.current = pt
    BY <1>1, <1>5 DEF AdvancePhase, MarkCompleted, Change
  <2>2. PhaseIndex(pt) <= PhaseIndex(pt)
    BY SMT, <1>2
  <2>3. pt # "archive" => change'.status # "completed"
    BY <1>1, <1>5 DEF CanAdvancePhase, ChangeIsTerminal, AdvancePhase, Change
  <2>4. ChangeStep
    BY <1>1, <1>5 DEF ChangeStep
  <2> QED
    BY <1>0, <1>1, <1>5, <2>1, <2>2, <2>3, <2>4, Writes
<1> QED
  BY <1>3, <1>4, <1>5 DEF AdvanceChange, SaveCompletedWithOutbox

(* A step that only marks rows interrupted keeps the invariant.            *)
LEMMA MarksOnly ==
  ASSUME IInv, CInv, Record, UNCHANGED << change, th, crashes >>, faults' = 0 => faults = 0,
         \A r \in phases' :
           r \in phases \/ \E x \in phases : r.type = x.type /\ r.status = "interrupted"
  PROVE  CInv'
<1>1. \A r \in phases' :
        \/ r \in phases
        \/ (~reverted => Reached(r.type)) /\ ~AdvanceAllowed(r.status)
  BY DEF CInv, AdvanceAllowed
<1> QED
  BY <1>1, KeptStill

(* A crash ends every request; the boot scan marks stranded rows.          *)
LEMMA RestartChange ==
  ASSUME IInv, CInv, Record, Crash \/ Boot
  PROVE  CInv'
<1>0. TypeOK /\ change' = change
  BY DEF IInv, Crash, Boot
<1>1. CASE Crash
  <2>1. /\ phases' = phases /\ crashes' # 0
        /\ \A t \in Threads : th'[t] = Idle
    BY SMT, <1>0, <1>1 DEF Crash, TypeOK
  <2>2. Idle.pc = "idle"
    BY DEF Idle
  <2>3. \A t \in Threads : Local(t)'
    BY <2>1, <2>2 DEF Local, Owning
  <2>4. FinishedIsAdvanced'
    BY <2>1 DEF FinishedIsAdvanced
  <2>5. ChangeOK' /\ (~reverted' => \A r \in phases' : Reached(r.type)')
    BY <1>0, <2>1, Still DEF CInv, ChangeOK, Reached
  <2> QED
    BY <2>3, <2>4, <2>5 DEF CInv
<1>2. CASE Boot
  <2>1. UNCHANGED << th, crashes >>
    BY <1>2 DEF Boot
  <2>2. PICK stuck : phases' = { IF r \in stuck THEN MarkInterrupted(r) ELSE r : r \in phases }
    BY <1>2 DEF Boot
  <2>3. ASSUME NEW r \in phases'
        PROVE  r \in phases \/ \E x \in phases : r.type = x.type /\ r.status = "interrupted"
    <3>1. PICK x \in phases : r = IF x \in stuck THEN MarkInterrupted(x) ELSE x
      BY <2>2
    <3>2. MarkInterrupted(x).type = x.type /\ MarkInterrupted(x).status = "interrupted"
      BY <1>0 DEF MarkInterrupted, TypeOK, Phase
    <3> QED
      BY <3>1, <3>2
  <2>4. faults' = 0 => faults = 0
    <3>1. PICK n \in 0 .. (MaxFaults - faults) : faults' = faults + n
      BY <1>2 DEF Boot
    <3> QED
      BY SMT, <1>0, <3>1, ServiceAssumption DEF TypeOK
  <2> QED
    BY <1>0, <2>1, <2>3, <2>4, MarksOnly
<1> QED
  BY <1>1, <1>2

(* So does a scan beside the server, whatever it overwrites.               *)
LEMMA ScanChange ==
  ASSUME IInv, ScanOK, CInv, Record, ScanStep
  PROVE  CInv' /\ change' = change
<1>0. TypeOK
  BY DEF IInv
<1>1. CASE ScanList
  BY <1>1, MarksOnly DEF ScanList
<1>2. ASSUME NEW x \in scan, ScanSave(x) PROVE CInv' /\ change' = change
  <2>1. PICK m : m = MarkInterrupted(x)
    OBVIOUS
  <2>2. /\ m \in Phase /\ m.type = x.type /\ m.status = "interrupted"
        /\ SaveOk(m) \/ SaveFails(m)
    BY <1>0, <1>2, <2>1, AggregateTypes DEF MarkInterrupted, TypeOK, Phase, ScanSave
  <2>3. PICK s \in phases : s.type = x.type
    BY DEF ScanOK, SameKey, Key
  <2>4. \A r \in phases' : r \in phases \/ (r.type = m.type /\ r.status = m.status)
    BY <1>0, <2>2, SavedRows DEF SaveFails
  <2>5. faults' = 0 => faults = 0
    BY <1>0, <2>2, FaultsCount DEF SaveOk, SaveFails
  <2> QED
    BY <1>2, <2>2, <2>3, <2>4, <2>5, MarksOnly DEF ScanSave
<1> QED
  BY <1>1, <1>2 DEF ScanStep

(* A change that finished the phases up to StartPhase.                     *)
LEMMA InitChange == Init => CInv
<1> SUFFICES ASSUME Init PROVE CInv
  OBVIOUS
<1>1. change.current = StartPhase /\ change.status = "active" /\ StartPhase \in PhaseTypes
  BY ServiceAssumption DEF Init, NewChange
<1>2. PhaseIndex(StartPhase) \in 1 .. 9
  BY <1>1, PhaseIndexType
<1>3. \A r \in phases : PhaseIndex(r.type) \in 1 .. PhaseIndex(StartPhase)
  <2>1. \A r \in phases : \E i \in 1 .. PhaseIndex(StartPhase) : r.type = AllPhaseTypes[i]
    BY SMT DEF Init, FinishedRows
  <2>2. \A i \in 1 .. PhaseIndex(StartPhase) : i \in 1 .. 9
    BY SMT, <1>2
  <2> QED
    BY <2>1, <2>2, IndexOf
<1>4. /\ \A r \in phases : PhaseIndex(r.type) <= PhaseIndex(change.current)
      /\ \A r \in phases : Reached(r.type)
      /\ PhaseIndex(change.current) <= PhaseIndex(change.current)
  BY SMT, <1>1, <1>2, <1>3 DEF Reached, Before
<1>5. FinishedIsAdvanced
  BY <1>4 DEF FinishedIsAdvanced
<1>6. ChangeOK
  BY <1>1, <1>4 DEF ChangeOK, Init
<1>7. \A t \in Threads : th[t].pc = "idle"
  BY DEF Init, Idle
<1>8. \A t \in Threads : Local(t)
  BY <1>7 DEF Local, Owning
<1> QED
  BY <1>4, <1>5, <1>6, <1>8 DEF CInv

-----------------------------------------------------------------------------
(* A step of a request leaves the other requests alone.                    *)
LEMMA OthersStay ==
  ASSUME TypeOK, NEW t \in Threads, Handler(t) \/ HandlerStep(t) \/ RunAsync(t)
  PROVE  Alone(t)
<1>0. th \in [Threads -> Thread]
  BY DEF TypeOK, Thread
<1>1. ASSUME NEW rec, th' = [th EXCEPT ![t] = rec] PROVE Alone(t)
  BY <1>0, <1>1 DEF Alone
<1>2. ASSUME NEW pc, Goto(t, pc) PROVE Alone(t)
  BY <1>0, <1>2 DEF Alone, Goto
<1>3. ASSUME Return(t) PROVE Alone(t)
  BY <1>0, <1>3 DEF Alone, Return
<1>4. ASSUME NEW pc, NEW p, th' = [th EXCEPT ![t].pc = pc, ![t].p = p] PROVE Alone(t)
  BY <1>0, <1>4 DEF Alone
<1>5. ASSUME NEW env, CompleteAndSave(t, env) PROVE Alone(t)
  BY <1>2, <1>3, <1>4, <1>5 DEF CompleteAndSave
<1>6. ASSUME Handler(t) PROVE Alone(t)
  BY <1>1, <1>6 DEF Handler, RunFindChange, ResumeFind, ApproveCheck, RejectCheck, AbortFind
<1>7. ASSUME HandlerStep(t) PROVE Alone(t)
  BY <1>2, <1>3, <1>4, <1>7 DEF HandlerStep, RunCheckRunning, RunFindPrior, RunSave,
     ResumeSave, ApproveAppend, RejectSave, RejectAppend, AbortSave
<1>8. ASSUME RunAsync(t) PROVE Alone(t)
  BY <1>2, <1>3, <1>5, <1>8 DEF RunAsync, RunInitPhase, GovernanceDenies,
     GovernanceRequiresApproval, GovernanceAllows, RunApplyPhase, Preflight, Dispatch,
     AdvanceChange, FailPhase, GotoFail
<1> QED
  BY <1>6, <1>7, <1>8

(* Every step of every request, crash and scan keeps the invariant.        *)
LEMMA NextChange ==
  ASSUME IInv, ScanOK, CInv, [Next]_vars
  PROVE  CInv' /\ ChangeStep
<1>0. TypeOK' /\ TypeOK
  BY NextType DEF IInv
<1>1. CASE UNCHANGED vars
  <2>1. UNCHANGED << phases, change, th, crashes, faults, versions, verified, reverted >>
    BY <1>1 DEF vars
  <2> QED
    BY <2>1 DEF CInv, ChangeOK, Reached, Local, FinishedIsAdvanced, ChangeStep
<1>2. CASE Next
  <2>0. Record
    BY <1>2 DEF Next
  <2>1. ASSUME NEW t \in Threads, AdvanceChange(t)
        PROVE  CInv' /\ ChangeStep
    BY <1>0, <2>0, <2>1, OthersStay, AdvanceTheChange DEF RunAsync
  <2>2. ASSUME NEW t \in Threads, AbortSave(t)
        PROVE  CInv' /\ ChangeStep
    BY <1>0, <2>0, <2>2, OthersStay, AbortChange DEF HandlerStep
  <2>3. ASSUME NEW t \in Threads, FailPhase(t)
        PROVE  CInv' /\ change' = change
    <3>1. Alone(t)
      BY <1>0, <2>3, OthersStay DEF RunAsync
    <3> QED
      BY <2>0, <2>3, <3>1, FailChange DEF FailPhase
  <2>4. ASSUME NEW t \in Threads, Handler(t)
        PROVE  CInv' /\ change' = change
    <3>0. Alone(t)
      BY <1>0, <2>4, OthersStay
    <3>1. CASE \E pt \in PhaseTypes : RunFindChange(t, pt)
      BY <2>0, <3>0, <3>1, RunChange DEF RunFindChange
    <3>2. CASE \/ \E r \in phases : ResumeFind(t, r) \/ ApproveCheck(t, r) \/ RejectCheck(t, r)
               \/ AbortFind(t)
      BY <2>0, <3>0, <3>2, ArrivalChange DEF ResumeFind, ApproveCheck, RejectCheck, AbortFind
    <3> QED
      BY <2>4, <3>1, <3>2 DEF Handler
  <2>5. ASSUME NEW t \in Threads, HandlerStep(t), ~AbortSave(t)
        PROVE  CInv' /\ change' = change
    <3>0. Alone(t)
      BY <1>0, <2>5, OthersStay
    <3>1. CASE RunCheckRunning(t) \/ RunFindPrior(t) \/ RunSave(t)
      BY <2>0, <3>0, <3>1, RunChange DEF RunCheckRunning, RunFindPrior, RunSave
    <3>2. CASE ResumeSave(t) \/ RejectSave(t) \/ ApproveAppend(t) \/ RejectAppend(t)
      BY <2>0, <3>0, <3>2, HandlerChange DEF ResumeSave, RejectSave, ApproveAppend, RejectAppend
    <3> QED
      BY <2>5, <3>1, <3>2 DEF HandlerStep
  <2>6. ASSUME NEW t \in Threads, RunAsync(t), ~AdvanceChange(t), ~FailPhase(t)
        PROVE  CInv' /\ change' = change
    <3>0. Alone(t)
      BY <1>0, <2>6, OthersStay
    <3>1. \/ RunInitPhase(t) \/ GovernanceDenies(t) \/ GovernanceRequiresApproval(t)
          \/ GovernanceAllows(t) \/ RunApplyPhase(t) \/ Preflight(t) \/ Dispatch(t)
      BY <2>6 DEF RunAsync
    <3>2. change' = change
      BY <3>1 DEF RunInitPhase, GovernanceDenies, GovernanceRequiresApproval,
                  GovernanceAllows, RunApplyPhase, Preflight, Dispatch
    <3> QED
      BY <2>0, <3>0, <3>1, <3>2, AsyncChange
  <2>7. CASE Crash \/ Boot
    BY <2>0, <2>7, RestartChange DEF Crash, Boot, ChangeStep
  <2>8. CASE ScanStep
    BY <2>0, <2>8, ScanChange DEF ChangeStep
  <2> QED
    BY <1>2, <2>1, <2>2, <2>3, <2>4, <2>5, <2>6, <2>7, <2>8 DEF Next, ServerStep, ChangeStep
<1> QED
  BY <1>1, <1>2

(* Whatever requests overlap, a request holds a value the change has had,  *)
(* and unless the row was moved back every stored phase is one it reached. *)
THEOREM ChangeInvCorrect == Spec => []CInv
<1>1. IInv /\ ScanOK /\ CInv /\ [Next]_vars => CInv'
  BY NextChange
<1> QED
  BY <1>1, InitChange, InvCorrect, PTL DEF Spec

(* An accepted phase is behind the pointer of its change once its          *)
(* goroutine is through, unless the process crashed, the database failed,  *)
(* the change was aborted or a stale save moved it back.                   *)
THEOREM FinishedIsAdvancedCorrect == Spec => []FinishedIsAdvanced
<1>1. CInv => FinishedIsAdvanced
  BY DEF CInv
<1> QED
  BY <1>1, ChangeInvCorrect, PTL

(* However requests overlap, no change is completed that has not had a     *)
(* latest verify that was DONE with confidence (Iron Law 3).               *)
THEOREM CompletedIsVerifiedCorrect == Spec => []CompletedIsVerified
<1>1. CInv => CompletedIsVerified
  BY DEF CInv, ChangeOK, CompletedIsVerified
<1> QED
  BY <1>1, ChangeInvCorrect, PTL

(* However requests overlap, PhaseService implements ChangeLifecycle: what *)
(* it writes to the change is a legal successor of a value the row has had.*)
THEOREM ImplementsLifecycleCorrect == Spec => ImplementsLifecycle
<1>1. Init => Lifecycle!Init
  BY DEF Init, Lifecycle!Init, NewChange, Lifecycle!NewChange
<1>2. IInv /\ ScanOK /\ CInv /\ [Next]_vars => [Lifecycle!Next]_<< change, versions >>
  <2> SUFFICES ASSUME IInv, ScanOK, CInv, [Next]_vars
               PROVE  [Lifecycle!Next]_<< change, versions >>
    OBVIOUS
  <2>1. ChangeStep
    BY NextChange
  <2>2. versions' = versions \cup {change'} \/ UNCHANGED << change, versions >>
    BY DEF Next, Record, vars
  <2>3. change' = change => versions' = versions
    BY <2>2 DEF CInv, ChangeOK
  <2> QED
    BY <2>1, <2>2, <2>3
    DEF ChangeStep, Lifecycle!Next, Lifecycle!Advance, Lifecycle!Finish, Lifecycle!Cancel,
        CanAdvancePhase, Lifecycle!CanAdvancePhase, ChangeIsTerminal,
        Lifecycle!ChangeIsTerminal, AdvancePhase, Lifecycle!AdvancePhase, MarkCompleted,
        Lifecycle!MarkCompleted, Abort, Lifecycle!Abort, NextValid, Lifecycle!NextValid,
        PhaseTypes, Lifecycle!PhaseTypes
<1> QED
  BY <1>1, <1>2, ChangeInvCorrect, InvCorrect, PTL DEF Spec, ImplementsLifecycle, Lifecycle!Spec
=============================================================================
