------------------------------- MODULE MCSdep -------------------------------
(* Small instances of Sdep for TLC. *)
EXTENDS Sdep, TLC

Symmetry ==
  UNION {Permutations(S) : S \in {CompetentAuthorities, AreaIds, Platforms,
                                  Names, ActivityIds}}
=============================================================================
