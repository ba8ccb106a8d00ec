------------------------------ MODULE HideVisitor ------------------------------
(***************************************************************************)
(* The loop behind Visit: CWdmList::ForEach over the rules of a set, in    *)
(* the order in which they were added, with HideVisitor or HideVisitorExt. *)
(***************************************************************************)
EXTENDS HideRules

\* One call of the visitor; it returns whether the loop goes on.
VisitorStep(s, r, d, hide) ==
    IF Match(s, r, d) THEN [hide |-> r.hide, goesOn |-> r.hide]
                      ELSE [hide |-> hide, goesOn |-> TRUE]

ForEach(s, list, d, hide) ==
    LET loop[i \in 0 .. Len(list)] ==
          IF i = 0 THEN [hide |-> hide, goesOn |-> TRUE]
          ELSE IF loop[i - 1].goesOn THEN VisitorStep(s, list[i], d, loop[i - 1].hide)
          ELSE loop[i - 1]
    IN loop[Len(list)].hide

\* The verdict of a set does not depend on the order in which its rules were
\* added, and is what Visit says.
VisitIsForEach ==
    \A d \in Devices, s \in Sets, hide \in BOOLEAN :
        \A list \in SetToSeqs(rules[s]) : ForEach(s, list, d, hide) = Visit(s, d, hide)
=============================================================================
