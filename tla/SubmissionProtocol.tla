------------------------- MODULE SubmissionProtocol -------------------------
(***************************************************************************)
(* What the approval of a submission promises its author, without rounds,  *)
(* rows of steps or requests under way (the comment at the head of         *)
(* submission-rules.ts): the heads of the units involved are asked         *)
(* together, the leader is asked when the last of them has agreed, one     *)
(* objection sends the submission back, only the leader approves or        *)
(* rejects, and then it is over.  The document always shows where its      *)
(* submission is.                                                          *)
(***************************************************************************)
CONSTANTS Units, Leader

VARIABLES
  phase,  \* "draft", "units", "leader", "returned", "approved" or "rejected"
  asked,  \* who is asked and has not answered yet
  shown   \* the status of the document

vars == <<phase, asked, shown>>

InApproval == {"units", "leader"}

ShownIn(p) ==
  CASE p \in InApproval -> "CHO_PHE_DUYET"
    [] p = "approved" -> "DA_HOAN_THANH"
    [] p = "rejected" -> "LUU_THEO_DOI"
    [] OTHER -> "CHO_PHAN_CONG"

Init == phase = "draft" /\ asked = {} /\ shown = ShownIn("draft")

Turns(p, who) == phase' = p /\ asked' = who /\ shown' = ShownIn(p)

\* The leader is asked at once when every unit is the author's own.
Submit ==
  /\ phase \in {"draft", "returned"}
  /\ \/ \E units \in SUBSET Units : units # {} /\ Turns("units", units)
     \/ Turns("leader", {Leader})

Agree(u) ==
  /\ phase = "units" /\ u \in asked
  /\ \/ asked # {u} /\ Turns("units", asked \ {u})
     \/ asked = {u} /\ Turns("leader", {Leader})

SendBack ==
  /\ phase \in InApproval /\ asked # {}
  /\ Turns("returned", {})

Close ==
  /\ phase = "leader" /\ Leader \in asked
  /\ \E outcome \in {"approved", "rejected"} : Turns(outcome, {})

\* The author withdraws, or an approver accepts to return the submission.
TakeBack ==
  /\ phase \in InApproval
  /\ Turns("draft", {})

Next == Submit \/ SendBack \/ Close \/ TakeBack \/ \E u \in Units : Agree(u)

Spec == Init /\ [][Next]_vars
=============================================================================
