------------------------ MODULE SubmissionRefinement ------------------------
(***************************************************************************)
(* The refinement mapping from the commands as they are coded to the       *)
(* promise: those are asked who have a pending step in the current round.  *)
(***************************************************************************)
EXTENDS SubmissionApproval

PhaseOf(st) ==
  CASE st \in {"NONE", "DRAFT"} -> "draft"
    [] st = "WAITING_UNIT_HEAD" -> "units"
    [] st = "WAITING_LEADER" -> "leader"
    [] st = "NEEDS_REVISION" -> "returned"
    [] st = "APPROVED" -> "approved"
    [] OTHER -> "rejected"

phaseBar == PhaseOf(wf.status)
askedBar == IF wf.status \in Waiting THEN {i[2] : i \in Pending(wf.round)} ELSE {}

Protocol == INSTANCE SubmissionProtocol
              WITH Leader <- None, phase <- phaseBar, asked <- askedBar, shown <- doc

\* Overlapping requests over separate rows keep the promise: until a transaction
\* uses a round that is no longer current, each transaction is a step of the
\* protocol or changes nothing that the author can see.
ImplementsProtocol ==
  Protocol!Init /\ [][Protocol!Next \/ crossed']_<<phaseBar, askedBar, doc>>
=============================================================================
