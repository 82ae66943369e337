----------------------------- MODULE MCApplyRun -----------------------------
(***************************************************************************)
(* Instances of ApplyRun for TLC.                                          *)
(***************************************************************************)
EXTENDS ApplyRun

CONSTANTS g1, g2, g3, t1, t2, t3

NoDeps == [ g \in Groups |-> << >> ]

Plan(deps, invalid) == [ deps |-> deps, invalid |-> invalid ]

(* One task per group.                                                     *)
OneEach == [ t \in Tasks |-> CASE t = t1 -> g1 [] t = t2 -> g2 [] OTHER -> g3 ]
RowsOneEach == << g1, t1, g2, t2, g3, t3 >>

FanIn  == [ g \in Groups |-> IF g = g3 THEN << g1, g2 >> ELSE << >> ]
FanOut == [ g \in Groups |-> IF g = g1 THEN << >> ELSE << g1 >> ]
Cyclic == [ g \in Groups |-> CASE g = g1 -> << g3 >> [] g = g3 -> << g1 >> [] OTHER -> << >> ]
Chain  == [ g \in Groups |-> IF g = g2 THEN << g1 >> ELSE << >> ]

DagPlans == { Plan(FanIn, {}), Plan(FanOut, {}), Plan(Cyclic, {}), Plan(NoDeps, {g2}) }

(* Two tasks in the first group, one in the second.                        *)
TwoAndOne == [ t \in Tasks |-> IF t = t3 THEN g2 ELSE g1 ]
RowsTwoAndOne == << g1, t1, t2, g2, t3 >>

ResumePlans == { Plan(Chain, {}) }

(* A single group.                                                         *)
OneGroup == [ t \in Tasks |-> g1 ]
RowsOneGroup == << g1, t1 >>

SharedPlans == { Plan(NoDeps, {}) }
=============================================================================
