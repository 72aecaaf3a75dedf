------------------------- MODULE SubmissionApproval -------------------------
(***************************************************************************)
(* The approval of one internal submission (to trinh): the commands of     *)
(* submission-approval-service.ts over its workflow row and the rows of    *)
(* its steps.  The heads of the units involved decide in parallel, then a  *)
(* leader decides.                                                         *)
(*                                                                         *)
(* A command reads the document with its workflow and steps and checks     *)
(* what it read; later a transaction writes, and other requests run        *)
(* between the two.  Each transaction locks or claims the workflow row, or *)
(* claims a step, first, so it is one step; a submission of an existing    *)
(* workflow reads its round before it takes the lock, and is two.          *)
(***************************************************************************)
EXTENDS Naturals

CONSTANTS
  Author,      \* who registered the document and submits it
  Users,       \* the others: heads, leaders, persons put in their place
  Units,
  Head,        \* the head of each unit; may be the author
  OwnUnits,    \* the author's own units, involved in every submission
  Leaders,     \* users the engine lets approve submissions
  Slots,       \* requests that can be in progress at the same time
  MaxRound,    \* bound: rounds of submission
  MaxBatches,  \* bound: transactions that create steps
  None

Waiting == {"WAITING_UNIT_HEAD", "WAITING_LEADER"}
Closed  == {"APPROVED", "REJECTED"}
Status  == {"NONE", "DRAFT", "NEEDS_REVISION"} \cup Waiting \cup Closed

Stages == Units \cup {None}                   \* None: the leader's step
StepId == (1..MaxBatches) \X Stages
NoStep == [round |-> 0, st |-> "NONE", approver |-> None]
Idle   == [cmd |-> "none", status |-> "NONE", round |-> 0,
           step |-> <<1, None>>, choice |-> None, units |-> {}]

ASSUME SubmissionAssumption ==
  /\ Author \notin Users /\ Leaders \subseteq Users
  /\ OwnUnits \subseteq Units
  /\ Head \in [Units -> Users \cup {Author}]
  /\ MaxRound \in Nat /\ MaxBatches \in Nat \ {0}
  /\ None \notin Users \cup Units \cup {Author}

VARIABLES
  wf,       \* the workflow row; asked: the round a return was asked in, 0 if none is
  doc,      \* Document.status
  steps,    \* the rows of the steps
  created,  \* transactions that have created steps
  req,      \* the request in each slot: what it remembers of its read
  crossed   \* history: has a transaction used a round that was no longer current?

vars == <<wf, doc, steps, created, req, crossed>>

Init ==
  /\ wf = [status |-> "NONE", round |-> 0, opened |-> FALSE, asked |-> 0]
  /\ doc = "CHO_PHAN_CONG"
  /\ steps = [i \in StepId |-> NoStep]
  /\ created = 0
  /\ req = [s \in Slots |-> Idle]
  /\ crossed = FALSE

-----------------------------------------------------------------------------
(* submission-rules.ts                                                     *)

CanSubmitFrom(st) == st \in {"NONE", "DRAFT", "NEEDS_REVISION"}

\* planUnitSteps: a unit the author heads is skipped.
PendingUnits(units) == {u \in units : Head[u] # Author}

AllowedDecisions(stage) ==
  {"APPROVE", "REVISION"} \cup IF stage = None THEN {"REJECT"} ELSE {}

DocumentStatusFor(st) ==
  CASE st \in Waiting -> "CHO_PHE_DUYET"
    [] st = "APPROVED" -> "DA_HOAN_THANH"
    [] st = "REJECTED" -> "LUU_THEO_DOI"
    [] OTHER -> "CHO_PHAN_CONG"

\* Mutant: the first unit that agrees does not wait for the others.
OutcomeFirstWins(stage, choice, othersWait) ==
  CASE choice = "REVISION" -> "NEEDS_REVISION"
    [] choice = "REJECT" -> "REJECTED"
    [] OTHER -> IF stage = None THEN "APPROVED" ELSE "WAITING_LEADER"

\* Mutant: pendingUnitStepsAfter >= 0 instead of > 0.
OutcomeAlwaysWaits(stage, choice, othersWait) ==
  CASE choice = "REVISION" -> "NEEDS_REVISION"
    [] choice = "REJECT" -> "REJECTED"
    [] OTHER -> IF stage = None THEN "APPROVED" ELSE "WAITING_UNIT_HEAD"

\* resolveOutcome and statusAfter.
Outcome(stage, choice, othersWait) ==
  CASE choice = "REVISION" -> "NEEDS_REVISION"
    [] choice = "REJECT" -> "REJECTED"
    [] OTHER -> IF stage = None THEN "APPROVED"
                ELSE IF othersWait THEN "WAITING_UNIT_HEAD"
                ELSE "WAITING_LEADER"

StepStatus(choice) ==
  CASE choice = "APPROVE" -> "APPROVED"
    [] choice = "REVISION" -> "REVISION_REQUIRED"
    [] OTHER -> "REJECTED"

-----------------------------------------------------------------------------
Pending(r) == {i \in StepId : steps[i].round = r /\ steps[i].st = "PENDING"}
Decided(r) == {i \in StepId : steps[i].round = r
                              /\ steps[i].st \notin {"NONE", "PENDING", "SKIPPED"}}

\* canWithdraw, of the workflow as it is.
CanWithdraw == wf.status \in Waiting /\ ~wf.opened /\ Decided(wf.round) = {}

\* canActOnStep: the person put in place, else the head of the unit or a leader.
CanAct(u, i) ==
  IF steps[i].approver # None THEN steps[i].approver = u
  ELSE IF i[2] = None THEN u \in Leaders ELSE Head[i[2]] = u

Remember(s, q) ==
  /\ req[s] = Idle
  /\ req' = [req EXCEPT ![s] = q]
  /\ UNCHANGED <<wf, doc, steps, created, crossed>>

Ends(s) == req' = [req EXCEPT ![s] = Idle]

\* The transaction throws a conflict: the request ends and nothing is written.
Refused(s) == Ends(s) /\ UNCHANGED <<wf, doc, steps, created, crossed>>

Seen(cmd) == [Idle EXCEPT !.cmd = cmd, !.status = wf.status, !.round = wf.round]

\* The steps of the round that still wait are closed as SKIPPED.
SkipPending(st, r) ==
  [i \in StepId |-> IF st[i].round = r /\ st[i].st = "PENDING"
                      THEN [st[i] EXCEPT !.st = "SKIPPED"] ELSE st[i]]

\* New rows, one per stage of stages, of the given status.
NewSteps(st, stages, r, status) ==
  [i \in StepId |-> IF i[1] = created + 1 /\ i[2] \in stages
                      THEN [NoStep EXCEPT !.round = r, !.st = status] ELSE st[i]]

Moves(status) == doc' = DocumentStatusFor(status)
-----------------------------------------------------------------------------
(* submitForApproval                                                       *)

ReceiveSubmit(s, units) ==
  /\ OwnUnits \subseteq units
  /\ CanSubmitFrom(wf.status)
  /\ Remember(s, [Idle EXCEPT !.cmd = IF wf.status = "NONE" THEN "submit" ELSE "submit-again",
                              !.units = units])

\* The round is read inside the transaction, before the lock.
ReadRound(s) ==
  /\ req[s].cmd = "submit-again"
  /\ req' = [req EXCEPT ![s].cmd = "submit-locked", ![s].round = wf.round]
  /\ UNCHANGED <<wf, doc, steps, created, crossed>>

\* Mutant: the round of a submission that is sent again is not a new one.
SubmitSameRound(s) ==
  LET q == req[s]
      pending == PendingUnits(q.units)
      stages == IF pending = {} THEN {None} ELSE pending
      status == IF pending = {} THEN "WAITING_LEADER" ELSE "WAITING_UNIT_HEAD"
      r == IF q.round = 0 THEN 1 ELSE q.round
  IN  /\ created < MaxBatches
      /\ steps' = NewSteps(NewSteps(steps, q.units \ pending, r, "SKIPPED"),
                           stages, r, "PENDING")
      /\ created' = created + 1
      /\ wf' = [wf EXCEPT !.status = status, !.round = r, !.opened = FALSE]
      /\ Moves(status)
      /\ UNCHANGED crossed

\* The steps of the round and the workflow that starts to wait for them.
SubmitRound(s) ==
  LET q == req[s]
      pending == PendingUnits(q.units)
      stages == IF pending = {} THEN {None} ELSE pending
      status == IF pending = {} THEN "WAITING_LEADER" ELSE "WAITING_UNIT_HEAD"
      r == q.round + 1
  IN  /\ created < MaxBatches /\ r <= MaxRound
      /\ steps' = NewSteps(NewSteps(steps, q.units \ pending, r, "SKIPPED"),
                           stages, r, "PENDING")
      /\ created' = created + 1
      /\ wf' = [wf EXCEPT !.status = status, !.round = r, !.opened = FALSE]
      /\ Moves(status)
      /\ crossed' = (crossed \/ q.round # wf.round)

\* A first submission creates the row, which its unique index lets one do;
\* a later one locks it and checks its status again.
CommitSubmit(s) ==
  \/ /\ req[s].cmd = "submit"
     /\ IF wf.status = "NONE" THEN SubmitRound(s) /\ Ends(s) ELSE Refused(s)
  \/ /\ req[s].cmd = "submit-locked"
     /\ IF CanSubmitFrom(wf.status) THEN SubmitRound(s) /\ Ends(s) ELSE Refused(s)

-----------------------------------------------------------------------------
(* decideApproval                                                          *)

ReceiveDecide(s, u, i, choice) ==
  /\ wf.status \in Waiting
  /\ i \in Pending(wf.round) /\ CanAct(u, i)
  /\ choice \in AllowedDecisions(i[2])
  /\ Remember(s, [Seen("decide") EXCEPT !.step = i, !.choice = choice])

\* Under the lock: is the workflow where the request saw it?
Unmoved(q) == wf.status = q.status /\ wf.round = q.round

\* The claim of the step: an update conditional on PENDING.
StillPending(i) == steps[i].st = "PENDING"

CommitDecide(s) ==
  LET q == req[s]  i == q.step
      claimed == [steps EXCEPT ![i].st = StepStatus(q.choice)]
      othersWait == \E j \in Pending(q.round) : j # i /\ j[2] # None
      status == Outcome(i[2], q.choice, othersWait)
      goesUp == status = "WAITING_LEADER"
      closing == status \in {"NEEDS_REVISION", "REJECTED"}
  IN  /\ q.cmd = "decide"
      /\ IF ~Unmoved(q) \/ ~StillPending(i) THEN Refused(s)
         ELSE /\ goesUp => created < MaxBatches
              /\ steps' = IF goesUp THEN NewSteps(claimed, {None}, q.round, "PENDING")
                          ELSE IF closing THEN SkipPending(claimed, q.round)
                          ELSE claimed
              /\ created' = IF goesUp THEN created + 1 ELSE created
              /\ wf' = [wf EXCEPT !.status = status, !.opened = TRUE]
              /\ Moves(status)
              /\ Ends(s) /\ UNCHANGED crossed

-----------------------------------------------------------------------------
(* withdrawApproval, markApprovalOpened                                    *)

ReceiveWithdraw(s) ==
  /\ CanWithdraw
  /\ Remember(s, Seen("withdraw"))

\* Mutant: the lock is taken but openedAt is not looked at again.
StillWithdrawableIfStatus(q) == wf.status = q.status

StillWithdrawable(q) == wf.status = q.status /\ ~wf.opened

CommitWithdraw(s) ==
  LET q == req[s]
  IN  /\ q.cmd = "withdraw"
      /\ IF ~StillWithdrawable(q) THEN Refused(s)
         ELSE /\ steps' = SkipPending(steps, q.round)
              /\ wf' = [wf EXCEPT !.status = "DRAFT"]
              /\ Moves("DRAFT")
              /\ crossed' = (crossed \/ q.round # wf.round)
              /\ Ends(s) /\ UNCHANGED created

\* An approver looks at the submission.
ReceiveOpen(s, u) ==
  /\ wf.status \in Waiting
  /\ \E i \in Pending(wf.round) : CanAct(u, i)
  /\ Remember(s, [Idle EXCEPT !.cmd = "open"])

CommitOpen(s) ==
  /\ req[s].cmd = "open"
  /\ wf' = [wf EXCEPT !.opened = TRUE]
  /\ Ends(s) /\ UNCHANGED <<doc, steps, created, crossed>>

-----------------------------------------------------------------------------
(* requestApprovalReturn, decideApprovalReturn                             *)

ReceiveAskReturn(s) ==
  /\ wf.status \in Waiting /\ ~CanWithdraw /\ wf.asked = 0
  /\ Remember(s, [Idle EXCEPT !.cmd = "ask-return", !.status = wf.status])

CommitAskReturn(s) ==
  LET q == req[s]
  IN  /\ q.cmd = "ask-return"
      /\ IF wf.asked # 0 \/ wf.status # q.status THEN Refused(s)
         ELSE /\ wf' = [wf EXCEPT !.asked = wf.round]
              /\ Ends(s) /\ UNCHANGED <<doc, steps, created, crossed>>

\* The status is not checked here; a step of the round must wait for u.
ReceiveDecideReturn(s, u, choice) ==
  /\ wf.asked # 0
  /\ \E i \in Pending(wf.round) : CanAct(u, i)
  /\ Remember(s, [Seen("decide-return") EXCEPT !.choice = choice])

\* Mutant: the claim does not compare the status.
ReturnStillAskedAnyStatus(q) == wf.asked # 0

\* The claim: the request is still there and the status the one that was read.
ReturnStillAsked(q) == wf.asked # 0 /\ wf.status = q.status

CommitDecideReturn(s) ==
  LET q == req[s]
  IN  /\ q.cmd = "decide-return"
      /\ \/ ~ReturnStillAsked(q) /\ Refused(s)
         \/ /\ ReturnStillAsked(q) /\ q.choice = "ACCEPT"
            /\ wf' = [wf EXCEPT !.asked = 0, !.status = "DRAFT"]
            /\ steps' = SkipPending(steps, q.round)
            /\ Moves("DRAFT")
            /\ crossed' = (crossed \/ q.round # wf.round)
            /\ Ends(s) /\ UNCHANGED created
         \/ /\ ReturnStillAsked(q) /\ q.choice = "REFUSE"
            /\ wf' = [wf EXCEPT !.asked = 0]
            /\ Ends(s) /\ UNCHANGED <<doc, steps, created, crossed>>

-----------------------------------------------------------------------------
(* reassignApprovalStep                                                    *)

ReceiveReassign(s, u, i, target) ==
  /\ i \in Pending(wf.round)
  /\ u \in Leaders \/ (i[2] # None /\ Head[i[2]] = u)
  /\ Remember(s, [Idle EXCEPT !.cmd = "reassign", !.step = i, !.choice = target])

CommitReassign(s) ==
  LET q == req[s]
  IN  /\ q.cmd = "reassign"
      /\ IF ~StillPending(q.step) THEN Refused(s)
         ELSE /\ steps' = [steps EXCEPT ![q.step].approver = q.choice]
              /\ Ends(s) /\ UNCHANGED <<wf, doc, created, crossed>>

-----------------------------------------------------------------------------
Receive(s) ==
  \/ \E units \in SUBSET Units : ReceiveSubmit(s, units)
  \/ ReceiveWithdraw(s) \/ ReceiveAskReturn(s)
  \/ \E u \in Users :
       \/ ReceiveOpen(s, u)
       \/ \E choice \in {"ACCEPT", "REFUSE"} : ReceiveDecideReturn(s, u, choice)
       \/ \E i \in StepId :
            \/ \E choice \in {"APPROVE", "REVISION", "REJECT"} :
                 ReceiveDecide(s, u, i, choice)
            \/ \E target \in Users : ReceiveReassign(s, u, i, target)

Commit(s) ==
  \/ CommitSubmit(s) \/ CommitDecide(s) \/ CommitWithdraw(s) \/ CommitOpen(s)
  \/ CommitAskReturn(s) \/ CommitDecideReturn(s) \/ CommitReassign(s)

Next == \E s \in Slots : Receive(s) \/ ReadRound(s) \/ Commit(s)

Spec == Init /\ [][Next]_vars

-----------------------------------------------------------------------------
(* Properties.                                                             *)

Row == [round : 0..MaxRound, approver : Users \cup {None},
        st : {"NONE", "PENDING", "APPROVED", "REVISION_REQUIRED", "REJECTED", "SKIPPED"}]

Request == [cmd : {"none", "submit", "submit-again", "submit-locked", "decide", "withdraw", "open",
                   "ask-return", "decide-return", "reassign"},
            status : Status, round : 0..MaxRound,
            step : StepId, units : SUBSET Units,
            choice : Users \cup {None, "APPROVE", "REVISION", "REJECT", "ACCEPT", "REFUSE"}]

\* The workflow, its steps and the requests keep their types, and the rows that
\* no transaction has created are empty.
TypeOK ==
  /\ wf \in [status : Status, round : 0..MaxRound, opened : BOOLEAN, asked : 0..MaxRound]
  /\ doc \in {"CHO_PHAN_CONG", "CHO_PHE_DUYET", "DA_HOAN_THANH", "LUU_THEO_DOI"}
  /\ steps \in [StepId -> Row]
  /\ created \in 0..MaxBatches
  /\ \A i \in StepId : i[1] > created => steps[i] = NoStep
  /\ req \in [Slots -> Request]
  /\ crossed \in BOOLEAN

\* A step that was decided or skipped is never decided, skipped or moved to a
\* round again: of two decisions on one step, or a decision and a withdrawal,
\* the second finds the step closed and changes nothing.
StepsAreFinal ==
  [][\A i \in StepId : steps[i].st \notin {"NONE", "PENDING"} =>
       steps'[i].st = steps[i].st /\ steps'[i].round = steps[i].round]_vars

\* A submission that waits always waits for somebody: a unit of the current
\* round, or the leader, still has a step to decide.  Nobody would be asked
\* otherwise and the submission could never leave its state.
WaitingHasPending ==
  /\ wf.status = "WAITING_UNIT_HEAD" => \E i \in Pending(wf.round) : i[2] # None
  /\ wf.status = "WAITING_LEADER" => \E i \in Pending(wf.round) : i[2] = None

\* Unless a transaction used a round that was no longer current, a step waits
\* only while the submission does, and only in its current round: every way
\* out of a round closes the steps that are still open.
NoOrphanStep ==
  ~crossed => \A i \in StepId : steps[i].st = "PENDING" =>
                 wf.status \in Waiting /\ steps[i].round = wf.round

\* With the same proviso, one round asks each unit, and the leader, once: a
\* submission sent again opens a new round, and units that agree at the same
\* time send one request to the leader, not two.
AskedOncePerRound ==
  ~crossed => \A i, j \in StepId :
     i[2] = j[2] /\ steps[i].round # 0 /\ steps[i].round = steps[j].round => i = j

\* With the same proviso, the leader sees, approves or rejects a submission only
\* when every unit of the round has agreed or is the author's own.
UnitsAgreedFirst ==
  ~crossed /\ wf.status \in {"WAITING_LEADER"} \cup Closed =>
     \A i \in StepId : steps[i].round = wf.round /\ i[2] # None =>
        steps[i].st \in {"APPROVED", "SKIPPED"}

\* With the same proviso, an approved or rejected submission stays so, and so
\* does its document, whatever withdrawals, decisions and answers to a request
\* for its return were under way.
FinalIsFinal ==
  [][wf.status \in Closed /\ ~crossed' => wf'.status = wf.status /\ doc' = doc]_vars

\* With the same proviso, the author takes a submission back without asking
\* (the request to return it, if any, stays) only when nobody has opened it
\* and no step of its round is decided.
WithdrawnUnseen ==
  [][wf.status \in Waiting /\ wf'.status = "DRAFT" /\ wf'.asked = wf.asked /\ ~crossed'
       => ~wf.opened /\ Decided(wf.round) = {}]_vars

(* What makes these inductive: the rows of a round, and what a request in   *)
(* progress still knows of the rows it read.                                *)

\* No row is of a round to come, and a workflow that was submitted has one.
RoundsInOrder ==
  /\ wf.status # "NONE" \/ wf.asked # 0 => wf.round > 0
  /\ ~crossed => \A i \in StepId : steps[i].round <= wf.round

\* While a round waits no step of it has gone wrong, and its leader's step is
\* not there before the units have agreed.
RoundInOrder ==
  ~crossed /\ wf.status \in Waiting => \A i \in StepId : steps[i].round = wf.round =>
     /\ steps[i].st \in {"PENDING", "APPROVED", "SKIPPED"}
     /\ wf.status = "WAITING_UNIT_HEAD" => i[2] # None

Knows(q) ==
  /\ q.cmd = "decide" => /\ q.status \in Waiting /\ q.choice \in AllowedDecisions(q.step[2])
                         /\ q.step[1] <= created /\ steps[q.step].round = q.round
  /\ q.cmd \in {"withdraw", "ask-return"} => q.status \in Waiting
  /\ q.cmd = "decide-return" /\ ~crossed => q.status \in Waiting
  /\ q.cmd = "reassign" => q.choice \in Users

RequestsKnow == \A s \in Slots : Knows(req[s])

\* A round that nobody has opened has no decision: every decision opens it.
UnopenedIsUndecided ==
  ~crossed /\ wf.status \in Waiting /\ ~wf.opened => Decided(wf.round) = {}

SubmissionInv ==
  /\ TypeOK /\ WaitingHasPending /\ NoOrphanStep /\ AskedOncePerRound
  /\ UnitsAgreedFirst /\ RoundsInOrder /\ RoundInOrder /\ RequestsKnow

\* What the schema says of returnRequestedAt: a return is asked of a submission
\* that was opened.  A decision and a new submission leave the request there,
\* so it is still asked of the next round, which nobody has opened.
ReturnAskedWasOpened == wf.asked # 0 /\ wf.status \in Waiting => wf.opened
=============================================================================
