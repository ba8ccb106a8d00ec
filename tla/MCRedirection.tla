---------------------------- MODULE MCRedirection ----------------------------
(* Redirection on small instances. *)
EXTENDS RedirectionInvariant, TLC

Symmetry == Permutations(Pdos) \cup Permutations(Redirs) \cup Permutations(Pids)

\* Ports can be cycled, PnP is not slower than the wait for a detachment, and a
\* client closes its handles itself: there is one.
LivenessFaults == AllFaults \ {"cycle", "detachTimeout", "context"}
=============================================================================
