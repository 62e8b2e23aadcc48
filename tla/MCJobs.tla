------------------------------- MODULE MCJobs -------------------------------
(* Instances of TensorJobs for TLC. *)
EXTENDS TensorJobs, TLC

CONSTANTS n1, n2, a1, a2, t1, u1, u2, p1, ta, tt

MCJob == Job
OneProject == [j \in Job |-> p1]
OneTemplateEach == [j \in LaunchedJob |-> IF j \in TerraformJob THEN tt ELSE ta]

Interchangeable == Permutations(Node) \cup Permutations(AnsibleJob) \cup Permutations(UpdateJob)

=============================================================================
