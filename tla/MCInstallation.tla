---------------------------- MODULE MCInstallation ----------------------------
(* Two host controllers, so that a reset may succeed for one of them only, and
   two filters of other programs.                                             *)
EXTENDS Installation, TLC

Symmetry == Permutations(Controllers) \cup Permutations(OtherFilters)
================================================================================
