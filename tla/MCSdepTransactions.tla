------------------------- MODULE MCSdepTransactions -------------------------
(* Small instances of SdepTransactions for TLC. *)
EXTENDS SdepTransactions, TLC

Symmetry ==
  UNION {Permutations(S) : S \in {Workers, Platforms, Names, ActivityIds}}
=============================================================================
