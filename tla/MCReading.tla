------------------------------ MODULE MCReading ------------------------------
(* Small instances of Reading for TLC. *)
EXTENDS Reading, TLC

Symmetry ==
  UNION {Permutations(S) : S \in {CompetentAuthorities, AreaIds, Platforms,
                                  Names, ActivityIds}}
=============================================================================
