-------------------------- MODULE ChangeLifecycle ---------------------------
(***************************************************************************)
(* What the orchestrator promises about the row of one change, however its *)
(* requests overlap.  A request saves the change as it read it when it     *)
(* began, so a new value is a legal successor of a value the row has had,  *)
(* which need not be the last: the pointer enters a phase only from the    *)
(* one before it, reaching archive and being completed are one event, an   *)
(* abort is of an active change, and a completed or aborted value has no   *)
(* successor of its own.                                                   *)
(***************************************************************************)
EXTENDS PhaseAggregate

CONSTANT StartPhase

VARIABLES
  change,    \* the row
  versions   \* the values it has had

Init ==
  /\ change = [ NewChange EXCEPT !.current = StartPhase ]
  /\ versions = {change}

Advance(c) ==
  \E pt \in PhaseTypes \ {"archive"} :
    CanAdvancePhase(c, pt) /\ change' = AdvancePhase(c, pt)

Finish(c) ==
  /\ CanAdvancePhase(c, "archive")
  /\ change' = MarkCompleted(AdvancePhase(c, "archive"))

Cancel(c) == ~ChangeIsTerminal(c) /\ change' = Abort(c)

Next ==
  /\ \E c \in versions : Advance(c) \/ Finish(c) \/ Cancel(c)
  /\ versions' = versions \cup {change'}

Spec == Init /\ [][Next]_<< change, versions >>
=============================================================================
