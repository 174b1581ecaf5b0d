---------------------------- MODULE MCSkillRun ----------------------------
(* SkillRun with the constants its configurations give.                    *)
EXTENDS SkillRun
=============================================================================
