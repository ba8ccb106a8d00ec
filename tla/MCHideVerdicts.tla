----------------------------- MODULE MCHideVerdicts -----------------------------
(***************************************************************************)
(* The rules and devices of MCHideRules for the verdicts with history.     *)
(***************************************************************************)
EXTENDS MCHideRules, HideRulesHistory
=============================================================================
