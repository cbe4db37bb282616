---------------------------- MODULE MCCronRunner ----------------------------
(* Instances of CronRunner for TLC. *)
EXTENDS CronRunner

(* Every run belongs to one spec that allows one run at a time. *)
OneSpec == CHOOSE s \in SpecId : TRUE
SingleSpecOf == [r \in Run |-> OneSpec]
OneAtATime == [s \in SpecId |-> 1]
=============================================================================
