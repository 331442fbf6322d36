-------------------------- MODULE MCPostLifecycle --------------------------
(* PostLifecycle on small instances.  The author, who may be an approver    *)
(* too, is not interchangeable with the other approvers.                    *)
EXTENDS PostLifecycle, TLC

Symmetry == Permutations(Targets) \cup Permutations(Approvers \ {Author})
=============================================================================
