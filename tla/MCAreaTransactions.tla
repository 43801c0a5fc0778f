------------------------- MODULE MCAreaTransactions -------------------------
(* Small instances of AreaTransactions for TLC. *)
EXTENDS AreaTransactions, TLC

Symmetry ==
  UNION {Permutations(S) : S \in {Workers, CompetentAuthorities, AreaIds}}
=============================================================================
