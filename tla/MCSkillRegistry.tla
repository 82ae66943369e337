-------------------------- MODULE MCSkillRegistry --------------------------
(***************************************************************************)
(* Small instances of SkillRegistry.                                       *)
(***************************************************************************)
EXTENDS SkillRegistry

CONSTANTS s1, s2, c1

MCSkillOrder == << s1, s2 >>

(* A skill was imported, validated and promoted by a run of the tool; it   *)
(* may have been brought back since, or imported anew.                     *)
MCInitRows == { NewSkill, SetStatus(NewSkill, "validated"),
                SetStatus(SetStatus(NewSkill, "validated"), "active") }

MCInitAudit ==
  << [ mode |-> "apply", reverts |-> 0,
       items |-> << [ skill |-> s2, prior |-> "validated", new |-> "active",
                      read |-> "validated" ] >> ] >>

MCUsage == { << s1, c1 >>, << s2, c1 >> }

=============================================================================
