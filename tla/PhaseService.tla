---------------------------- MODULE PhaseService ----------------------------
(***************************************************************************)
(* phase.Service driving one change: the HTTP handlers Run, Resume,        *)
(* Approve, Reject (internal/application/phase/service.go) and Abort       *)
(* (internal/application/change/service.go), the goroutine that Run and    *)
(* Resume schedule (runAsync), the Postgres tables they share, process     *)
(* crashes, and the recovery scan (internal/application/recovery) at boot  *)
(* and of a command that is wired beside the running server.               *)
(*                                                                         *)
(* A thread is one request together with the goroutine it schedules.       *)
(* Every write to the database is a step of its own, and so are the reads  *)
(* that lead up to it, so that two threads interleave wherever the code    *)
(* lets them: LockByChange takes a transaction-scoped lock on a statement  *)
(* of its own and has released it by the time the next statement runs, so  *)
(* it orders nothing and needs no state.  A lifecycle event goes with the  *)
(* write it reports; the approval gate, which handlers read back, does not.*)
(***************************************************************************)
EXTENDS PhaseAggregate, FiniteSets

CONSTANTS
  Threads,      \* concurrent requests (and their goroutines)
  PhaseIds,     \* ids the generator can mint; bounds the number of runs
  StartPhase,   \* the change's current phase when the model starts
  MaxRequests,  \* bound on HTTP requests
  MaxCrashes,   \* bound on process crashes
  MaxScans,     \* bound on commands wired beside the server
  MaxFaults     \* bound on transient database errors

ASSUME ServiceAssumption ==
  /\ PhaseIds \subseteq Nat \ {0}
  /\ StartPhase \in PhaseTypes
  /\ MaxRequests \in Nat
  /\ MaxCrashes \in Nat
  /\ MaxScans \in Nat
  /\ MaxFaults \in Nat

VARIABLES
  phases,   \* the rows of table phases
  change,   \* the row of table changes
  outbox,   \* number of phase.archived rows in table webhook_outbox
  audit,    \* <<phase id, event>> pairs of audit_log, published to SSE too
  th,       \* the threads
  up,       \* the process is serving
  requests, \* requests so far
  crashes,  \* crashes so far
  faults,   \* transient database errors so far
  scan,     \* rows a command's recovery scan has listed and not yet saved
  scans     \* such commands so far

(* Auxiliary variables: what has happened so far.  No step reads them.      *)
VARIABLES
  versions, \* the values the row of table changes has had
  verified, \* the latest attempt of verify has been DONE with confidence
  reverted  \* a save has moved the change back

vars ==
  << phases, change, outbox, audit, th, up, requests, crashes, faults, scan,
     scans, versions, verified, reverted >>

-----------------------------------------------------------------------------
(* Tables.                                                                 *)

Key(r) == << r.type, r.attempts >>

SameKey(T, p) == \E r \in T : Key(r) = Key(p)

(* Mutant: the conflicting row takes the id of the saved phase.            *)
UpsertWithId(T, p) ==
  IF SameKey(T, p)
  THEN { IF Key(r) = Key(p) THEN p ELSE r : r \in T }
  ELSE T \cup {p}

(* INSERT ... ON CONFLICT (change_id, phase_type, attempts) DO UPDATE: the *)
(* conflicting row keeps its id.  Without such a row the primary key       *)
(* refuses a second row with the same id.                                  *)
Upsert(T, p) ==
  IF SameKey(T, p)
  THEN { IF Key(r) = Key(p) THEN [p EXCEPT !.id = r.id] ELSE r : r \in T }
  ELSE T \cup {p}

DuplicateId(T, p) == ~SameKey(T, p) /\ \E r \in T : r.id = p.id

Latest(T, pt) ==
  { r \in T : r.type = pt /\ \A s \in T : s.type = pt => s.attempts <= r.attempts }

LoadPriorPhases(T) == UNION { Latest(T, pt) : pt \in PhaseTypes }

RunningByChange(T) == { r \in T : r.status \in {"running", "interrupted"} }

Stored(id) == \E r \in phases : r.id = id

DBFault == faults < MaxFaults /\ faults' = faults + 1

(* The two outcomes of PhaseRepo.Save.                                     *)
SaveOk(p) ==
  ~DuplicateId(phases, p) /\ phases' = Upsert(phases, p) /\ UNCHANGED faults

SaveFails(p) ==
  /\ \/ DuplicateId(phases, p) /\ UNCHANGED faults
     \/ DBFault
  /\ UNCHANGED phases

-----------------------------------------------------------------------------
(* Threads.                                                                *)

NoPhase ==
  [ id |-> 0, type |-> "init", status |-> "pending", attempts |-> 0,
    conf |-> "none" ]

Idle == [ pc |-> "idle", p |-> NoPhase, c |-> NewChange ]

Locations ==
  { "idle", "run_check", "run_prior", "run_save", "resume_save", "approve",
    "reject", "rejected", "abort", "async", "apply", "preflight", "dispatch",
    "advance", "fail" }

At(t, pc) == up /\ th[t].pc = pc

(* A new request takes a free thread.                                      *)
Arrives(t) ==
  At(t, "idle") /\ requests < MaxRequests /\ requests' = requests + 1

Goto(t, pc) == th' = [th EXCEPT ![t].pc = pc]

Return(t) == th' = [th EXCEPT ![t] = Idle]

Unused(id) ==
  /\ ~Stored(id)
  /\ \A t \in Threads : th[t].p.id # id
  /\ \A e \in audit : e[1] # id

(* IDGen.NewID: the least unused id, which is as good as any.              *)
NewID(id) ==
  /\ id \in PhaseIds
  /\ Unused(id)
  /\ \A i \in PhaseIds : Unused(i) => id <= i

Events ==
  { "phase.started", "phase.completed", "phase.completed_with_concerns",
    "phase.failed", "phase.needs_context", "approval.required",
    "approval.approved", "approval.rejected" }

EventTypeForStatus(status) ==
  CASE status = "done"               -> "phase.completed"
    [] status = "done_with_concerns" -> "phase.completed_with_concerns"
    [] status = "blocked"            -> "phase.failed"
    [] status = "needs_context"      -> "phase.needs_context"
    [] OTHER                         -> "phase.completed"

Emit(id, event) == audit' = audit \cup { << id, event >> }

-----------------------------------------------------------------------------
(* A change that has finished every phase up to StartPhase at the first    *)
(* attempt; a fresh change when StartPhase is init.                        *)

PhaseIndex(pt) == CHOOSE i \in 1 .. Len(AllPhaseTypes) : AllPhaseTypes[i] = pt

FinishedRows ==
  IF StartPhase = "init"
  THEN {}
  ELSE { [ id |-> i, type |-> AllPhaseTypes[i], status |-> "done",
           attempts |-> 1, conf |-> "high" ] : i \in 1 .. PhaseIndex(StartPhase) }

Init ==
  /\ phases = FinishedRows
  /\ change = [ NewChange EXCEPT !.current = StartPhase ]
  /\ outbox = 0
  /\ audit = {}
  /\ th = [ t \in Threads |-> Idle ]
  /\ up = TRUE
  /\ requests = 0
  /\ crashes = 0
  /\ faults = 0
  /\ scan = {}
  /\ scans = 0
  /\ versions = {change}
  /\ verified = DoneConfident(Latest(phases, "verify"), "verify")
  /\ reverted = FALSE

-----------------------------------------------------------------------------
(* Run.                                                                    *)

IsNextValidTransition(current, next) ==
  next = current \/ next \in NextValid(current)

(* Steps 1-2: read the change and validate the transition.                 *)
RunFindChange(t, pt) ==
  /\ Arrives(t)
  /\ IsNextValidTransition(change.current, pt)
  /\ \E id \in PhaseIds :
       /\ NewID(id)
       /\ th' = [th EXCEPT ![t] = [ pc |-> "run_check", c |-> change,
                                    p |-> [NoPhase EXCEPT !.id = id, !.type = pt] ]]
  /\ UNCHANGED << phases, change, outbox, audit, up, crashes, faults >>

(* LockByChange and FindRunningByChange.                                   *)
RunCheckRunning(t) ==
  /\ At(t, "run_check")
  /\ \/ RunningByChange(phases) = {} /\ Goto(t, "run_prior")
     \/ RunningByChange(phases) # {} /\ Return(t)
  /\ UNCHANGED << phases, change, outbox, audit, up, requests, crashes, faults >>

PriorAttempts(T, pt) ==
  LET prior == { r \in Latest(T, pt) :
                   IsTerminal(r.status) \/ r.status = "needs_context" }
  IN  IF prior = {} THEN 0 ELSE (CHOOSE r \in prior : TRUE).attempts

(* FindByChangeAndType, then Start on the hydrated phase.  An error of the *)
(* lookup is taken for "no prior attempt".                                 *)
RunFindPrior(t) ==
  /\ At(t, "run_prior")
  /\ \E n \in {0, PriorAttempts(phases, th[t].p.type)} :
       LET p == [th[t].p EXCEPT !.attempts = n]
       IN  /\ \/ n = PriorAttempts(phases, th[t].p.type) /\ UNCHANGED faults
              \/ n = 0 /\ DBFault
           /\ \/ CanStart(p) /\ th' = [th EXCEPT ![t].pc = "run_save", ![t].p = Start(p)]
              \/ ~CanStart(p) /\ Return(t)
  /\ UNCHANGED << phases, change, outbox, audit, up, requests, crashes >>

(* Save the running row, emit phase.started, schedule runAsync.            *)
RunSave(t) ==
  /\ At(t, "run_save")
  /\ \/ SaveOk(th[t].p) /\ Emit(th[t].p.id, "phase.started") /\ Goto(t, "async")
     \/ SaveFails(th[t].p) /\ Return(t) /\ UNCHANGED audit
  /\ UNCHANGED << change, outbox, up, requests, crashes >>

-----------------------------------------------------------------------------
(* Resume.                                                                 *)

(* Find the phase and its change; a terminal phase is refused unless it is *)
(* a blocked apply.  Running, pending and needs_context phases go straight *)
(* to runAsync.                                                            *)
ResumeFind(t, r) ==
  /\ Arrives(t)
  /\ IsTerminal(r.status) => r.status = "blocked" /\ r.type = "apply"
  /\ \/ /\ r.status = "interrupted" /\ CanStart(r)
        /\ th' = [th EXCEPT ![t] = [pc |-> "resume_save", p |-> Start(r), c |-> change]]
     \/ /\ CanRestart(r)
        /\ th' = [th EXCEPT ![t] = [pc |-> "resume_save", p |-> Restart(r), c |-> change]]
     \/ /\ r.status \in {"running", "pending", "needs_context"}
        /\ th' = [th EXCEPT ![t] = [pc |-> "async", p |-> r, c |-> change]]
  /\ UNCHANGED << phases, change, outbox, audit, up, crashes, faults >>

(* Mutant: the error of the Save is dropped.                               *)
ResumeSaveUnchecked(t) ==
  /\ At(t, "resume_save")
  /\ SaveOk(th[t].p) \/ SaveFails(th[t].p)
  /\ Goto(t, "async")
  /\ UNCHANGED << change, outbox, audit, up, requests, crashes >>

(* The Save fails on a transient error and on a duplicate primary key.     *)
ResumeSave(t) ==
  /\ At(t, "resume_save")
  /\ \/ SaveOk(th[t].p) /\ Goto(t, "async")
     \/ SaveFails(th[t].p) /\ Return(t)
  /\ UNCHANGED << change, outbox, audit, up, requests, crashes >>

-----------------------------------------------------------------------------
(* Approve and Reject.                                                     *)

GateOpen(id) ==
  /\ << id, "approval.required" >> \in audit
  /\ << id, "approval.approved" >> \notin audit
  /\ << id, "approval.rejected" >> \notin audit

ApproveCheck(t, r) ==
  /\ Arrives(t)
  /\ ~IsTerminal(r.status)
  /\ GateOpen(r.id)
  /\ th' = [th EXCEPT ![t] = [Idle EXCEPT !.pc = "approve", !.p = r]]
  /\ UNCHANGED << phases, change, outbox, audit, up, crashes, faults >>

(* The error of the audit append is dropped.                               *)
ApproveAppend(t) ==
  /\ At(t, "approve")
  /\ \/ Emit(th[t].p.id, "approval.approved") /\ UNCHANGED faults
     \/ DBFault /\ UNCHANGED audit
  /\ Return(t)
  /\ UNCHANGED << phases, change, outbox, up, requests, crashes >>

RejectCheck(t, r) ==
  LET p == IF r.status = "running" THEN r ELSE Start(r)
  IN  /\ Arrives(t)
      /\ ~IsTerminal(r.status)
      /\ GateOpen(r.id)
      /\ r.status # "running" => CanStart(r)
      /\ th' = [th EXCEPT ![t] =
                  [Idle EXCEPT !.pc = "reject", !.p = Complete(p, BlockedEnvelope)]]
      /\ UNCHANGED << phases, change, outbox, audit, up, crashes, faults >>

RejectSave(t) ==
  /\ At(t, "reject")
  /\ \/ SaveOk(th[t].p) /\ Goto(t, "rejected")
     \/ SaveFails(th[t].p) /\ Return(t)
  /\ UNCHANGED << change, outbox, audit, up, requests, crashes >>

RejectAppend(t) ==
  /\ At(t, "rejected")
  /\ \/ Emit(th[t].p.id, "approval.rejected") /\ UNCHANGED faults
     \/ DBFault /\ UNCHANGED audit
  /\ Return(t)
  /\ UNCHANGED << phases, change, outbox, up, requests, crashes >>

-----------------------------------------------------------------------------
(* Abort (change.Service).                                                 *)

(* Mutant: a terminal change can be aborted.                               *)
AbortFindAny(t) ==
  /\ Arrives(t)
  /\ th' = [th EXCEPT ![t] = [Idle EXCEPT !.pc = "abort", !.c = change]]
  /\ UNCHANGED << phases, change, outbox, audit, up, crashes, faults >>

AbortFind(t) ==
  /\ Arrives(t)
  /\ ~ChangeIsTerminal(change)
  /\ th' = [th EXCEPT ![t] = [Idle EXCEPT !.pc = "abort", !.c = change]]
  /\ UNCHANGED << phases, change, outbox, audit, up, crashes, faults >>

AbortSave(t) ==
  /\ At(t, "abort")
  /\ \/ change' = Abort(th[t].c) /\ UNCHANGED faults
     \/ DBFault /\ UNCHANGED change
  /\ Return(t)
  /\ UNCHANGED << phases, outbox, audit, up, requests, crashes >>

-----------------------------------------------------------------------------
(* runAsync.                                                               *)

(* Mutant: only DONE advances the change.                                  *)
CompleteAndSaveDoneOnly(t, env) ==
  LET p == Complete(th[t].p, env)
  IN  \/ /\ ~CanComplete(th[t].p, env)
         /\ Goto(t, "fail")
         /\ UNCHANGED << phases, audit, faults >>
      \/ /\ CanComplete(th[t].p, env)
         /\ SaveFails(p)
         /\ th' = [th EXCEPT ![t].pc = "fail", ![t].p = p]
         /\ UNCHANGED audit
      \/ /\ CanComplete(th[t].p, env)
         /\ SaveOk(p)
         /\ \/ /\ p.status = "done"
               /\ th' = [th EXCEPT ![t].pc = "advance", ![t].p = p]
               /\ UNCHANGED audit
            \/ /\ p.status # "done"
               /\ Emit(p.id, EventTypeForStatus(p.status))
               /\ Return(t)

(* Step 13: complete the phase and save it.  Both refusals lead to         *)
(* failPhase; after a failed Save the in-memory phase is already complete. *)
(* A phase that does not advance the change ends here with its event.      *)
CompleteAndSave(t, env) ==
  LET p == Complete(th[t].p, env)
  IN  \/ /\ ~CanComplete(th[t].p, env)
         /\ Goto(t, "fail")
         /\ UNCHANGED << phases, audit, faults >>
      \/ /\ CanComplete(th[t].p, env)
         /\ SaveFails(p)
         /\ th' = [th EXCEPT ![t].pc = "fail", ![t].p = p]
         /\ UNCHANGED audit
      \/ /\ CanComplete(th[t].p, env)
         /\ SaveOk(p)
         /\ \/ /\ AdvanceAllowed(p.status)
               /\ th' = [th EXCEPT ![t].pc = "advance", ![t].p = p]
               /\ UNCHANGED audit
            \/ /\ ~AdvanceAllowed(p.status)
               /\ Emit(p.id, EventTypeForStatus(p.status))
               /\ Return(t)

GotoFail(t) == Goto(t, "fail") /\ UNCHANGED << phases, audit, faults >>

(* The advisory critic only ever upgrades DONE to DONE_WITH_CONCERNS.      *)
ReviewConcerns(env) ==
  {env} \cup (IF env.status = "done"
              THEN {[env EXCEPT !.status = "done_with_concerns"]}
              ELSE {})

(* The init branch: deterministic detection, no governance, no dispatch.   *)
RunInitPhase(t) ==
  /\ At(t, "async")
  /\ th[t].p.type = "init"
  /\ \/ GotoFail(t)
     \/ CompleteAndSave(t, [status |-> "done", conf |-> "high"])
  /\ UNCHANGED << change, outbox, up, requests, crashes >>

(* Governance error or deny.                                               *)
GovernanceDenies(t) ==
  /\ At(t, "async")
  /\ th[t].p.type # "init"
  /\ GotoFail(t)
  /\ UNCHANGED << change, outbox, up, requests, crashes >>

(* The goroutine ends; the row stays running.  The error of the audit      *)
(* append is dropped.                                                      *)
GovernanceRequiresApproval(t) ==
  /\ At(t, "async")
  /\ th[t].p.type # "init"
  /\ \/ Emit(th[t].p.id, "approval.required") /\ UNCHANGED faults
     \/ DBFault /\ UNCHANGED audit
  /\ Return(t)
  /\ UNCHANGED << phases, change, outbox, up, requests, crashes >>

GovernanceAllows(t) ==
  /\ At(t, "async")
  /\ th[t].p.type # "init"
  /\ Goto(t, IF th[t].p.type = "apply" THEN "apply" ELSE "preflight")
  /\ UNCHANGED << phases, change, outbox, audit, up, requests, crashes, faults >>

(* runApplyPhase.  The board references the phase row, so Execute returns  *)
(* a BLOCKED envelope when the phase id is not stored.                     *)
RunApplyPhase(t) ==
  /\ At(t, "apply")
  /\ \E env \in {BlockedEnvelope} \cup
                 (IF Stored(th[t].p.id)
                  THEN ReviewConcerns([status |-> "done", conf |-> "high"])
                  ELSE {}) :
        CompleteAndSave(t, env)
  /\ UNCHANGED << change, outbox, up, requests, crashes >>

(* Iron Laws, then the session row (which references the phase row) and    *)
(* the spawn slot, either of which may be refused.                         *)
Preflight(t) ==
  /\ At(t, "preflight")
  /\ \/ GotoFail(t)
     \/ /\ IronLawsHold(th[t].p, LoadPriorPhases(phases))
        /\ Stored(th[t].p.id)
        /\ Goto(t, "dispatch")
        /\ UNCHANGED << phases, audit, faults >>
  /\ UNCHANGED << change, outbox, up, requests, crashes >>

(* The agent runs and its envelope is validated: a dispatch error, an      *)
(* invalid envelope or a tasks schema mismatch fails the phase.            *)
Dispatch(t) ==
  /\ At(t, "dispatch")
  /\ \/ GotoFail(t)
     \/ \E env \in Envelopes :
          \E reviewed \in ReviewConcerns(Validate(th[t].p, env)) :
            CompleteAndSave(t, reviewed)
  /\ UNCHANGED << change, outbox, up, requests, crashes >>

(* Mutant: the completed change is saved without its outbox row.           *)
SaveCompletedOnly(c) == change' = MarkCompleted(c) /\ UNCHANGED outbox

(* The change and its phase.archived row are saved in one transaction.     *)
SaveCompletedWithOutbox(c) == change' = MarkCompleted(c) /\ outbox' = outbox + 1

(* advanceChange on the change read when the request began, then the       *)
(* terminal event.  A refused AdvancePhase and a failed Save are ignored.  *)
AdvanceChange(t) ==
  LET p == th[t].p
      c == AdvancePhase(th[t].c, p.type)
  IN  /\ At(t, "advance")
      /\ \/ /\ ~CanAdvancePhase(th[t].c, p.type)
            /\ UNCHANGED << change, outbox, faults >>
         \/ /\ CanAdvancePhase(th[t].c, p.type)
            /\ \/ /\ p.type # "archive"
                  /\ change' = c
                  /\ UNCHANGED << outbox, faults >>
               \/ /\ p.type = "archive"
                  /\ SaveCompletedWithOutbox(c)
                  /\ UNCHANGED faults
               \/ DBFault /\ UNCHANGED << change, outbox >>
      /\ Emit(p.id, EventTypeForStatus(p.status))
      /\ Return(t)
      /\ UNCHANGED << phases, up, requests, crashes >>

(* failPhaseWithReason: returns without a trace when the change cannot be  *)
(* read; otherwise a phase that is not running is started again if it can  *)
(* be, completed as BLOCKED and saved, errors ignored, and phase.failed is *)
(* emitted in every case.                                                  *)
FailPhase(t) ==
  LET m == th[t].p
      p == IF m.status # "running" /\ CanStart(m) THEN Start(m) ELSE m
      b == Complete(p, BlockedEnvelope)
  IN  /\ At(t, "fail")
      /\ \/ DBFault /\ UNCHANGED << phases, audit >>
         \/ /\ \/ CanComplete(p, BlockedEnvelope) /\ (SaveOk(b) \/ SaveFails(b))
               \/ ~CanComplete(p, BlockedEnvelope) /\ UNCHANGED << phases, faults >>
            /\ Emit(m.id, "phase.failed")
      /\ Return(t)
      /\ UNCHANGED << change, outbox, up, requests, crashes >>

-----------------------------------------------------------------------------
(* Crash and boot.                                                         *)

Crash ==
  /\ up
  /\ crashes < MaxCrashes
  /\ crashes' = crashes + 1
  /\ up' = FALSE
  /\ th' = [ t \in Threads |-> Idle ]
  /\ UNCHANGED << phases, change, outbox, audit, requests, faults >>

(* Mutant: no recovery scan.                                               *)
BootWithoutScan ==
  ~up /\ up' = TRUE
      /\ UNCHANGED << phases, change, outbox, audit, th, requests, crashes, faults >>

(* MarkStuckInterrupted, before the server accepts requests: each stranded *)
(* row is marked and saved; a row whose Save fails stays running, and so   *)
(* do all of them when they cannot be listed.  Booting goes on regardless. *)
Boot ==
  LET stuck == { r \in phases : r.status = "running" /\ CanMarkInterrupted(r) }
  IN  /\ ~up
      /\ up' = TRUE
      /\ \E failed \in SUBSET stuck, n \in 0 .. (MaxFaults - faults) :
           /\ n = Cardinality(failed) \/ (n = 1 /\ failed = stuck)
           /\ faults' = faults + n
           /\ phases' = { IF r \in stuck \ failed THEN MarkInterrupted(r) ELSE r :
                            r \in phases }
      /\ UNCHANGED << change, outbox, audit, th, requests, crashes >>

(* The reeval command wires the whole application, the scan included, in a *)
(* process of its own, whether or not a server is running: the rows are    *)
(* listed first, then each is marked as it was listed and saved, an error  *)
(* skipping the row.                                                       *)
ScanList ==
  /\ scan = {}
  /\ scans < MaxScans
  /\ scans' = scans + 1
  /\ scan' = { r \in phases : r.status = "running" /\ CanMarkInterrupted(r) }
  /\ UNCHANGED << phases, change, outbox, audit, th, up, requests, crashes, faults >>

ScanSave(r) ==
  /\ scan' = scan \ {r}
  /\ SaveOk(MarkInterrupted(r)) \/ SaveFails(MarkInterrupted(r))
  /\ UNCHANGED << change, outbox, audit, th, up, requests, crashes, scans >>

-----------------------------------------------------------------------------
Handler(t) ==
  \/ \E pt \in PhaseTypes : RunFindChange(t, pt)
  \/ \E r \in phases : ResumeFind(t, r) \/ ApproveCheck(t, r) \/ RejectCheck(t, r)
  \/ AbortFind(t)

HandlerStep(t) ==
  \/ RunCheckRunning(t) \/ RunFindPrior(t) \/ RunSave(t)
  \/ ResumeSave(t)
  \/ ApproveAppend(t) \/ RejectSave(t) \/ RejectAppend(t)
  \/ AbortSave(t)

RunAsync(t) ==
  \/ RunInitPhase(t)
  \/ GovernanceDenies(t) \/ GovernanceRequiresApproval(t) \/ GovernanceAllows(t)
  \/ RunApplyPhase(t) \/ Preflight(t) \/ Dispatch(t)
  \/ AdvanceChange(t) \/ FailPhase(t)

ServerStep ==
  \/ \E t \in Threads : Handler(t) \/ HandlerStep(t) \/ RunAsync(t)
  \/ Crash
  \/ Boot

ScanStep == ScanList \/ \E r \in scan : ScanSave(r)

(* The save moves the pointer back or undoes an abort.                     *)
Reverts(c, d) ==
  \/ PhaseIndex(d.current) < PhaseIndex(c.current)
  \/ c.status = "aborted" /\ d.status # "aborted"

Record ==
  /\ versions' = versions \cup {change'}
  /\ verified' = (verified \/ DoneConfident(Latest(phases', "verify"), "verify"))
  /\ reverted' = (reverted \/ (change' # change /\ Reverts(change, change')))

Next == ((ServerStep /\ UNCHANGED << scan, scans >>) \/ ScanStep) /\ Record

Spec == Init /\ [][Next]_vars

(* A handler and a goroutine that can run do run, every external call is   *)
(* bounded by a timeout, and a crashed process is restarted.  Requests are *)
(* the clients' choice and get no fairness.                                *)
FairSpec ==
  /\ Spec
  /\ \A t \in Threads :
       WF_vars((HandlerStep(t) \/ RunAsync(t)) /\ UNCHANGED << scan, scans >> /\ Record)
  /\ WF_vars(Boot /\ UNCHANGED << scan, scans >> /\ Record)
-----------------------------------------------------------------------------
(* Properties that hold for any number of concurrent requests, crashes and *)
(* database errors.                                                        *)

(* Every variable keeps its type: rows are started phases, a thread holds  *)
(* a phase aggregate and a snapshot of the change row.                     *)
TypeOK ==
  /\ phases \subseteq Phase
  /\ change \in Change
  /\ outbox \in Nat
  /\ audit \subseteq (Nat \X Events)
  /\ th \in [ Threads -> [ pc : Locations, p : Phase, c : Change ] ]
  /\ up \in BOOLEAN
  /\ requests \in 0 .. MaxRequests
  /\ crashes \in 0 .. MaxCrashes
  /\ faults \in 0 .. MaxFaults
  /\ scan \subseteq Phase
  /\ scans \in 0 .. MaxScans
  /\ versions \subseteq Change
  /\ verified \in BOOLEAN
  /\ reverted \in BOOLEAN

(* Run numbers the attempts of a phase type from the rows it reads without *)
(* a lock.  Whatever the interleaving, the stored attempts of a type are   *)
(* 1, 2, ..., n without a gap, n never exceeds the retry budget, and no    *)
(* two rows share an attempt or an id.                                     *)
AttemptHistory ==
  \A r \in phases :
    /\ r.attempts \in 1 .. RetryBudget
    /\ r.attempts > 1 =>
         \E s \in phases : s.type = r.type /\ s.attempts = r.attempts - 1
    /\ \A s \in phases : r # s => r.id # s.id /\ Key(r) # Key(s)

(* Domain invariants I5 and I6: an envelope is recorded exactly for the    *)
(* rows that an agent, an operator or failPhase has settled, and a DONE    *)
(* row has a confidence at or above its threshold.                         *)
EnvelopeIffSettled ==
  \A r \in phases :
    /\ r.conf # "none" <=> r.status \in EnvelopeStatuses
    /\ r.status = "done" => r.conf = "high"

(* A goroutine that is to complete its phase finds a row for its type and  *)
(* attempt, so that completing never runs into the primary key; this is    *)
(* what lets runAsync treat a failed Save as a transient error.            *)
CompletionFindsRow ==
  \A t \in Threads :
    th[t].pc \in {"async", "apply", "preflight", "dispatch", "advance"} =>
      SameKey(phases, th[t].p)

(* advanceChange writes the completed change and the outbox row in one     *)
(* transaction: a completed change always has its phase.archived row, also *)
(* after a crash at any point.                                             *)
CompletedHasOutbox == change.status = "completed" => outbox > 0

(* Saving a phase never drops or renumbers history: a row stays, with its  *)
(* id, type and attempt, whatever is written later.                        *)
HistoryKept ==
  [][\A r \in phases \ phases' :
      \E s \in phases' : s.id = r.id /\ Key(s) = Key(r)]_vars

(* Iron Law 3, for any number of requests: no change is completed that has *)
(* not had a latest attempt of verify that was DONE with sufficient        *)
(* confidence.  The law is checked before the agent is dispatched, so what *)
(* other requests do to verify from then on is not seen.                   *)
CompletedIsVerified == change.status = "completed" => verified

(* A finished phase is not forgotten: a type with an accepted attempt is   *)
(* at or before the change's pointer once its goroutine is through, unless *)
(* the process crashed, the database failed, the change was aborted or a   *)
(* request saved over a newer row and moved it back.                       *)
FinishedIsAdvanced ==
  crashes = 0 /\ faults = 0 /\ change.status # "aborted" /\ ~reverted =>
    \A r \in phases :
      AdvanceAllowed(r.status) =>
        \/ PhaseIndex(r.type) <= PhaseIndex(change.current)
        \/ \E t \in Threads : th[t].pc = "advance" /\ Key(th[t].p) = Key(r)

Lifecycle == INSTANCE ChangeLifecycle

(* The change row evolves as ChangeLifecycle promises: whatever requests   *)
(* overlap, what a goroutine or Abort writes is a legal successor of a     *)
(* value the row has had, or the value it has.                             *)
ImplementsLifecycle == Lifecycle!Spec

(* Without database errors and without a scan beside the server, a running *)
(* phase does not stay running for ever: its goroutine settles it, or the  *)
(* boot scan marks it interrupted, unless governance put it on hold for an *)
(* approval.                                                               *)
RunningSettles ==
  \A id \in PhaseIds :
    (\E r \in phases : r.id = id /\ r.status = "running") ~>
      \/ \E r \in phases : r.id = id /\ r.status # "running"
      \/ << id, "approval.required" >> \in audit

-----------------------------------------------------------------------------
(* What comments and documents say and the code does not do.               *)

(* "so only one phase can be running per Change at a time": at most one    *)
(* phase of the change is running or interrupted.                          *)
OneRunning == \A r, s \in RunningByChange(phases) : r = s

(* The phase id that Run returned is found by the next poll: its row was   *)
(* written under that id and not merged into another attempt's row.        *)
PhaseIdsStored == \A e \in audit : e[2] = "phase.started" => Stored(e[1])

(* "a phantom 'running' row no goroutine owns": the recovery scan marks    *)
(* only rows that no goroutine is working on.                              *)
ScanFindsNoOwner ==
  [][\A r \in scan \ scan' :
      \A t \in Threads : th[t].pc \in {"apply", "preflight", "dispatch"} => th[t].p # r]_vars

(* "manual resume reactivates it": a Resume whose Save met no transient    *)
(* error leaves the interrupted phase running again.                       *)
ResumeReactivates ==
  [][\A t \in Threads :
      ResumeSave(t) /\ faults' = faults =>
        \E r \in phases' : r.id = th[t].p.id /\ r.status = "running"]_vars

(* "so the orchestrator does NOT auto-transition CurrentPhase": a phase    *)
(* whose confidence is below its threshold does not move the pointer.      *)
LowConfidenceDoesNotAdvance ==
  [][change'.current # change.current =>
       \E r \in Latest(phases, change'.current) : r.conf = "high"]_vars

(* Iron Law 2: apply runs only on top of a tasks phase that is DONE with   *)
(* sufficient confidence.                                                  *)
ApplyNeedsTasks ==
  \A t \in Threads :
    th[t].pc = "apply" => DoneConfident(LoadPriorPhases(phases), "tasks")

(* "a terminal state (no further transitions)": an aborted change stays    *)
(* aborted.                                                                *)
AbortIsFinal == [][change.status = "aborted" => change' = change]_vars

(* "persists a synthetic BLOCKED envelope and emits phase.failed": when    *)
(* phase.failed is first emitted for a phase, its row is blocked.          *)
FailedIsBlocked ==
  [][\A e \in audit' \ audit :
      e[2] = "phase.failed" =>
        \E r \in phases' : r.id = e[1] /\ r.status = "blocked"]_vars

(* "a terminal state (no further transitions allowed)": a row that is DONE *)
(* or DONE_WITH_CONCERNS is never written again.                           *)
TerminalIsFinal ==
  [][\A r \in phases : AdvanceAllowed(r.status) => r \in phases']_vars

(* "not policy blockers ... cycle progression continues": the Iron Laws    *)
(* let archive pass on top of a verify phase that advanced the change.     *)
ConcernsAreNotBlockers ==
  \A t \in Threads :
    /\ th[t].pc = "preflight" /\ th[t].p.type = "archive"
    /\ \E r \in Latest(phases, "verify") : AdvanceAllowed(r.status)
    => IronLawsHold(th[t].p, LoadPriorPhases(phases))
=============================================================================
