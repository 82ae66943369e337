--------------------------- MODULE ApplyAggregate ---------------------------
(***************************************************************************)
(* The aggregates of the apply phase (internal/domain/apply): Board, Group *)
(* and Task, as pure operators.  A method that refuses a transition leaves *)
(* the aggregate as it is: the apply service only logs those refusals,     *)
(* except Group.Start and Board.Start, whose guards are CanStart...        *)
(***************************************************************************)
EXTENDS Integers, Sequences, FiniteSets

CONSTANT MaxAttempts      \* Iron Law 5: attempts before escalation, 3

ASSUME MaxAttemptsAssumption == MaxAttempts \in Nat \ {0}

-----------------------------------------------------------------------------
(* Task.  "absent" is a task that has no row, or is not on the board.      *)

TaskStatuses ==
  { "absent", "pending", "claimed", "running", "done", "failed", "blocked" }

Task == [ status : TaskStatuses, attempts : 0 .. MaxAttempts ]

NoTask == [ status |-> "absent", attempts |-> 0 ]

NewTask == [ status |-> "pending", attempts |-> 0 ]

ReleaseTask(t) ==
  IF t.status \in {"claimed", "running"} THEN [t EXCEPT !.status = "pending"] ELSE t

(* Mutant: the guard on the status is dropped.                             *)
CompleteAnyTask(t) == [t EXCEPT !.status = "done"]

CompleteTask(t) ==
  IF t.status = "running" THEN [t EXCEPT !.status = "done"] ELSE t

RecordAttempt(t, success) ==
  [ status   |-> IF success THEN "done"
                 ELSE IF t.attempts + 1 >= MaxAttempts THEN "blocked" ELSE "failed",
    attempts |-> t.attempts + 1 ]

-----------------------------------------------------------------------------
(* Group, with its build gate.                                             *)

GroupStatuses == { "absent", "pending", "running", "completed", "failed" }

BuildStatuses == { "pending", "skipped", "passed", "failed" }

Group == [ status : GroupStatuses, build : BuildStatuses, builds : 0 .. MaxAttempts ]

NoGroup == [ status |-> "absent", build |-> "pending", builds |-> 0 ]

NewGroup == [ status |-> "pending", build |-> "pending", builds |-> 0 ]

CanStartGroup(g) == g.status = "pending"

StartGroup(g) == [g EXCEPT !.status = "running"]

CompleteGroup(g) ==
  IF g.status = "running" THEN [g EXCEPT !.status = "completed"] ELSE g

FailGroup(g) ==
  IF g.status \in {"completed", "failed"} THEN g ELSE [g EXCEPT !.status = "failed"]

SkipBuild(g) == [g EXCEPT !.build = "skipped"]

RecordBuildAttempt(g, success) ==
  [g EXCEPT !.builds = @ + 1,
            !.build  = IF success THEN "passed"
                       ELSE IF g.builds + 1 >= MaxAttempts THEN "failed" ELSE "pending"]

-----------------------------------------------------------------------------
(* Board.                                                                  *)

BoardStatuses == { "absent", "building", "running", "completed", "failed" }

CompleteBoard(b) == IF b = "running" THEN "completed" ELSE b

FailBoard(b) == IF b \in {"completed", "failed"} THEN b ELSE "failed"

-----------------------------------------------------------------------------
(* The dependency graph.  deps[g] is the sequence of groups g depends on;  *)
(* only the groups in on are on the board, other dependencies are ignored. *)
(* A finite graph has a cycle iff some non-empty set of its nodes has no   *)
(* node without a dependency inside the set.                               *)

DepSet(deps, g) == { deps[g][i] : i \in 1 .. Len(deps[g]) }

HasCycle(deps, on) ==
  \E S \in (SUBSET on) \ {{}} : \A g \in S : DepSet(deps, g) \cap S # {}
=============================================================================
