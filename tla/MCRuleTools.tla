------------------------------ MODULE MCRuleTools ------------------------------
(***************************************************************************)
(* The rules of MCHideRules for processes that add and delete one rule, or  *)
(* delete all. The names of keys are interchangeable: they are GUIDs, and  *)
(* a key may be enumerated at any place.                                   *)
(***************************************************************************)
EXTENDS MCHideRules, RuleTools

AddVendor == [op |-> "add", rule |-> HideVendor]
DeleteVendor == [op |-> "delete", rule |-> HideVendor]
DeleteAll == [op |-> "deleteAll", rule |-> Partial]

MCCalls == {AddVendor, DeleteVendor, DeleteAll}

ToolRules == {HideVendor, HideMask}

UpToTwoKeys ==
    {s \in UNION {[1 .. n -> KeyNames] : n \in 0 .. 2} : Cardinality(ToSet(s)) = Len(s)}

Interchangeable == Permutations(KeyNames) \cup Permutations(Tools)
=============================================================================
