------------------------ MODULE MCSubmissionApproval ------------------------
(* The instance of SubmissionApproval that TLC checks: the author heads    *)
(* unit n3, always involved; one person heads n1 and n2, leads, and can be *)
(* put in place of himself: who decides is told apart by no property.      *)
EXTENDS SubmissionRefinement, TLC

CONSTANTS n1, n2, n3, h1

MCHead == n1 :> h1 @@ n2 :> h1 @@ n3 :> Author

\* The person put in the place of another is read while the step waits, and
\* no more: states that differ in the approver of a closed step are one.
Seeing == <<wf, doc, created, req, crossed,
            [i \in StepId |-> IF steps[i].st = "PENDING" THEN steps[i]
                              ELSE [steps[i] EXCEPT !.approver = None]]>>

SlotUnitSymmetry == Permutations(Slots) \cup Permutations({n1, n2})
=============================================================================
