--------------------------- MODULE SkillLifecycle ---------------------------
(***************************************************************************)
(* The rules of one skill (internal/domain/skill, and the guard, the gate  *)
(* and the path search of internal/application/skill), as pure operators.  *)
(*                                                                         *)
(* A row of the skills table keeps what those rules read or write: the     *)
(* status, whether last_validated_at is set, and the rollback counter of   *)
(* the metrics.  Name, content, techniques and scope are fixed per skill.  *)
(***************************************************************************)
EXTENDS Integers, Sequences, FiniteSets

Statuses ==
  { "candidate", "validated", "active", "deprecated", "blocked", "archived" }

Row == [ status : Statuses, validated : BOOLEAN, rollbacks : Nat ]

(* skill.New with a zero lifecycle, and with the importer's: a candidate.  *)
NewSkill == [ status |-> "candidate", validated |-> FALSE, rollbacks |-> 0 ]

(* skill.NewLegacy: the payload of the boot seeder.                        *)
NewLegacy == [ status |-> "active", validated |-> FALSE, rollbacks |-> 0 ]

-----------------------------------------------------------------------------
(* The guard of PatchStatus.                                               *)

(* Mutant: a candidate may be activated directly.                          *)
AllowedTransitionsShortcut(from) ==
  CASE from = "candidate"  -> {"validated", "active", "blocked"}
    [] from = "validated"  -> {"active", "blocked"}
    [] from = "active"     -> {"deprecated", "blocked"}
    [] from = "deprecated" -> {"blocked"}
    [] from = "blocked"    -> {"candidate"}
    [] OTHER               -> {}

AllowedTransitions(from) ==
  CASE from = "candidate"  -> {"validated", "blocked"}
    [] from = "validated"  -> {"active", "blocked"}
    [] from = "active"     -> {"deprecated", "blocked"}
    [] from = "deprecated" -> {"blocked"}
    [] from = "blocked"    -> {"candidate"}
    [] OTHER               -> {}

(* SkillRepo.PatchStatus: last_validated_at is set with "validated".       *)
SetStatus(row, to) ==
  [ row EXCEPT !.status = to, !.validated = @ \/ to = "validated" ]

-----------------------------------------------------------------------------
(* The gate of the re-evaluation.  The metric is (1.5 - attempts) / 1.5;   *)
(* times 3 it is the integer 3 - 2 * attempts, so that the thresholds 0.20 *)
(* and 0.05 become 3/5 and 3/20.                                           *)

Recompute(attempts) == 3 - 2 * attempts

Promotes(status, metric) == 5 * metric >= 3 /\ status = "validated"

Demotes(status, metric) == 20 * metric < 3 /\ status = "active"

Proposed(status, attempts) ==
  IF Promotes(status, Recompute(attempts)) THEN "active"
  ELSE IF Demotes(status, Recompute(attempts)) THEN "deprecated"
  ELSE status

-----------------------------------------------------------------------------
(* The entries of a list that are wanted, in their order: SelectSeq with a *)
(* set for the test, as a recursive function that can be reasoned about.   *)
Select(list, wanted) ==
  LET kept[n \in 0 .. Len(list)] ==
        IF n = 0 THEN << >>
        ELSE IF list[n] \in wanted THEN Append(kept[n - 1], list[n]) ELSE kept[n - 1]
  IN  kept[Len(list)]

(* transitionPath: breadth-first search over AllowedTransitions.  A search *)
(* state has the queue and, per discovered status, the status it was       *)
(* reached from (the start is its own predecessor).                        *)

StatusOrder ==
  << "candidate", "validated", "active", "deprecated", "blocked", "archived" >>

NewTargets(b) ==
  Select(StatusOrder, AllowedTransitions(Head(b.queue)) \ DOMAIN b.prev)

Discover(b) ==
  LET new == NewTargets(b)
  IN  [ queue |-> Tail(b.queue) \o new,
        prev  |-> [ s \in DOMAIN b.prev \cup { new[i] : i \in 1 .. Len(new) } |->
                      IF s \in DOMAIN b.prev THEN b.prev[s] ELSE Head(b.queue) ] ]

(* The search stops when it discovers the goal or runs out of statuses.    *)
Search(from, to) ==
  LET step[n \in 0 .. Len(StatusOrder)] ==
        IF n = 0 THEN [ queue |-> << from >>, prev |-> [ s \in {from} |-> from ] ]
        ELSE LET b == step[n - 1]
             IN  IF b.queue = << >> \/ to \in DOMAIN b.prev THEN b ELSE Discover(b)
  IN  step[Len(StatusOrder)].prev

(* reconstruct: back from the goal to the start, the start left out.       *)
Reconstruct(prev, from, to) ==
  LET back[n \in 0 .. Len(StatusOrder)] ==
        IF n = 0 THEN << to >>
        ELSE LET p == back[n - 1]
             IN  IF prev[Head(p)] = from THEN p ELSE << prev[Head(p)] >> \o p
  IN  back[Len(StatusOrder)]

(* The graph of transitionPath: the pairs that have a path, with it.       *)
Paths ==
  { [ from |-> e[1], to   |-> e[2],
      path |-> IF e[1] = e[2] THEN << >>
               ELSE Reconstruct(Search(e[1], e[2]), e[1], e[2]) ] :
      e \in { p \in Statuses \X Statuses : p[2] \in DOMAIN Search(p[1], p[2]) } }

HasPath(from, to) == \E p \in Paths : p.from = from /\ p.to = to

TransitionPath(from, to) == (CHOOSE p \in Paths : p.from = from /\ p.to = to).path
=============================================================================
