------------------------------ MODULE MCHideRules ------------------------------
(***************************************************************************)
(* Rules and devices for TLC. The device d1 is a storage device of vendor  *)
(* v1; the rules hide it or keep it visible, by either type of rule.       *)
(***************************************************************************)
EXTENDS HideVisitor

Rule(type, class, vid, hide) ==
    [type |-> type, class |-> class, vid |-> vid, pid |-> MatchAll, bcd |-> MatchAll,
     hide |-> hide]

MCDescriptor ==
    [d \in Devices |-> [class |-> "storage", vid |-> "v1", pid |-> "p1", bcd |-> "b1",
                        masks |-> {"storage", "storageOrVideo", MatchAll}]]

HideVendor == Rule("default", MatchAll, "v1", TRUE)
KeepStorage == Rule("default", "storage", MatchAll, FALSE)
HideMask == Rule("determinative", "storageOrVideo", MatchAll, TRUE)
KeepMask == Rule("determinative", "storage", "v1", FALSE)

MatchingRules == {HideVendor, KeepStorage, HideMask, KeepMask}
VerdictRules == {HideVendor, HideMask, KeepMask}

NoKeys == {<<>>}
OneKey == {<<>>, <<"k1">>}
=============================================================================
