--------------------------- MODULE PhaseAggregate ---------------------------
(***************************************************************************)
(* The domain rules of one SDD change and of its phases: the Phase and     *)
(* Change aggregates (internal/domain/phase, internal/domain/change) and   *)
(* the Iron Law checker (internal/application/discipline).  Everything     *)
(* here is a pure operator: a domain method that may refuse is a pair of a *)
(* guard (CanX) and a result (X), and the services decide what a refusal   *)
(* leads to.                                                               *)
(*                                                                         *)
(* A confidence is abstracted to what the code tells apart: "none" (no     *)
(* envelope recorded), "low" (below the threshold of the phase type) and   *)
(* "high" (at or above it).                                                *)
(***************************************************************************)
EXTENDS Integers, Sequences

CONSTANT RetryBudget      \* in.RetryBudget of every request, 3 when absent

ASSUME RetryBudgetAssumption == RetryBudget \in Nat \ {0}

-----------------------------------------------------------------------------
(* Phase types and statuses.                                               *)

AllPhaseTypes ==
  << "init", "explore", "proposal", "spec", "design", "tasks", "apply",
     "verify", "archive" >>

PhaseTypes ==
  { "init", "explore", "proposal", "spec", "design", "tasks", "apply",
    "verify", "archive" }

(* The lifecycle is strictly sequential: the successor of a type is the    *)
(* next one in canonical order, and archive has none.                      *)
NextValid(pt) ==
  CASE pt = "init"     -> {"explore"}
    [] pt = "explore"  -> {"proposal"}
    [] pt = "proposal" -> {"spec"}
    [] pt = "spec"     -> {"design"}
    [] pt = "design"   -> {"tasks"}
    [] pt = "tasks"    -> {"apply"}
    [] pt = "apply"    -> {"verify"}
    [] pt = "verify"   -> {"archive"}
    [] OTHER           -> {}

PhaseStatuses ==
  { "pending", "running", "done", "done_with_concerns", "blocked",
    "needs_context", "interrupted" }

IsTerminal(status) == status \in {"done", "done_with_concerns", "blocked"}

AdvanceAllowed(status) == status \in {"done", "done_with_concerns"}

-----------------------------------------------------------------------------
(* The Phase aggregate.  A row of the phases table has the same fields.    *)

Confidences == {"none", "low", "high"}

Phase ==
  [ id : Nat, type : PhaseTypes, status : PhaseStatuses, attempts : Nat,
    conf : Confidences ]

(* An agent envelope whose phase field matches the phase.                  *)
EnvelopeStatuses == {"done", "done_with_concerns", "blocked", "needs_context"}

(* No rule reads the confidence of a BLOCKED or NEEDS_CONTEXT envelope, so  *)
(* it is taken as low.                                                     *)
Envelopes ==
  [ status : {"done", "done_with_concerns"}, conf : {"low", "high"} ]
    \cup [ status : {"blocked", "needs_context"}, conf : {"low"} ]

BlockedEnvelope == [ status |-> "blocked", conf |-> "low" ]

(* Mutant: the retry budget is off by one.                                 *)
CanStartOnceMore(p) == ~IsTerminal(p.status) /\ p.attempts <= RetryBudget

CanStart(p) == ~IsTerminal(p.status) /\ p.attempts < RetryBudget

Start(p) == [ p EXCEPT !.status = "running", !.attempts = @ + 1 ]

(* A DONE envelope below the threshold is refused; for init the threshold  *)
(* is zero, so no confidence is below it.                                  *)
BelowThreshold(p, env) == env.conf = "low" /\ p.type # "init"

CanComplete(p, env) ==
  /\ p.status = "running"
  /\ ~(env.status = "done" /\ BelowThreshold(p, env))

(* Validator.Validate: a DONE claim below the threshold is coerced.         *)
Validate(p, env) ==
  IF env.status = "done" /\ BelowThreshold(p, env)
  THEN [ env EXCEPT !.status = "done_with_concerns" ]
  ELSE env

(* Mutant: the envelope is not recorded.                                   *)
CompleteStatusOnly(p, env) == [ p EXCEPT !.status = env.status ]

Complete(p, env) == [ p EXCEPT !.status = env.status, !.conf = env.conf ]

CanMarkInterrupted(p) == ~IsTerminal(p.status)

MarkInterrupted(p) == [ p EXCEPT !.status = "interrupted" ]

CanRestart(p) == p.status = "blocked" /\ p.attempts < RetryBudget

Restart(p) ==
  [ p EXCEPT !.status = "running", !.attempts = @ + 1, !.conf = "none" ]

-----------------------------------------------------------------------------
(* The Change aggregate.                                                   *)

ChangeStatuses == {"active", "completed", "aborted"}

Change == [ status : ChangeStatuses, current : PhaseTypes ]

NewChange == [ status |-> "active", current |-> "init" ]

ChangeIsTerminal(c) == c.status \in {"completed", "aborted"}

CanAdvancePhase(c, next) == ~ChangeIsTerminal(c) /\ next \in NextValid(c.current)

AdvancePhase(c, next) == [ c EXCEPT !.current = next ]

MarkCompleted(c) == [ c EXCEPT !.status = "completed" ]

Abort(c) == [ c EXCEPT !.status = "aborted" ]

-----------------------------------------------------------------------------
(* The Iron Laws that phase.Service can trip.  prior is the set of latest  *)
(* rows per type (loadPriorPhases).  Law 4 never trips: the service passes *)
(* HasGovernanceDecision = true.                                           *)

DoneConfident(prior, pt) ==
  \E r \in prior : r.type = pt /\ r.status = "done" /\ r.conf = "high"

(* Mutant: Iron Law 3 is not checked.                                      *)
IronLawsWithoutThree(p, prior) ==
  /\ p.type = "apply"   => DoneConfident(prior, "tasks")
  /\ p.attempts - 1 < 3

IronLawsHold(p, prior) ==
  /\ p.type = "apply"   => DoneConfident(prior, "tasks")
  /\ p.type = "archive" => DoneConfident(prior, "verify")
  /\ p.attempts - 1 < 3
=============================================================================
