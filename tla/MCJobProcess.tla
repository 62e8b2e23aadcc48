---------------------------- MODULE MCJobProcess ----------------------------
(* Instances of JobProcess for TLC: two Ansible jobs, a project update and  *)
(* a Terraform job on one node.                                             *)
EXTENDS JobProcess, TLC

CONSTANTS a1, a2, s1, t1

MCKindOf == [r \in JobRun |->
    CASE r = s1 -> "sync" [] r = t1 -> "terraform" [] OTHER -> "ansible"]

MCKeyOf == [r \in JobRun |->
    CASE r = a2 -> "locked" [] r = t1 -> "none" [] OTHER -> "plain"]

=============================================================================
