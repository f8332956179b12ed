------------------------------ MODULE MCAudit ------------------------------
(* Audit with two replicas, queues of one record and segments of two lines. *)
EXTENDS Audit, TLC

Symmetry == Permutations(Replicas)
=============================================================================
