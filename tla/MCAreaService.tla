---------------------------- MODULE MCAreaService ---------------------------
(* Small instances of AreaService for TLC. *)
EXTENDS AreaService, TLC

AreaSymmetry == Permutations(CompetentAuthorities) \cup Permutations(AreaIds)
=============================================================================
