---------------------------- MODULE MCFilterDevices ----------------------------
(***************************************************************************)
(* Filter devices and places for control devices are interchangeable.      *)
(***************************************************************************)
EXTENDS FilterDevices, TLC

Interchangeable == Permutations(Filters) \cup Permutations(Objects)
=============================================================================
