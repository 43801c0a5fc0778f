----------------------------- MODULE MCAuditLog -----------------------------
(* Small instances of AuditLog for TLC. *)
EXTENDS AuditLog, TLC

Symmetry == Permutations(Requests) \cup Permutations(Replicas)
=============================================================================
