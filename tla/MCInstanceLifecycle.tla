------------------------ MODULE MCInstanceLifecycle ------------------------
(***************************************************************************)
(* Instances of InstanceLifecycle for TLC: clients, readers and workflow   *)
(* identities are interchangeable.                                         *)
(***************************************************************************)
EXTENDS InstanceLifecycle, TLC

MCMaxResults == [kind \in Kind |-> IF kind = "regular" THEN 3 ELSE 1]

Symmetry == Permutations(Clients) \cup Permutations(Readers) \cup Permutations(Workflows)
=============================================================================
