---------------------- MODULE SubmissionApprovalProofs ----------------------
(***************************************************************************)
(* For any units, users, heads, leaders and number of concurrent requests: *)
(* SubmissionInv is inductive, so a waiting submission waits for somebody, *)
(* and, as long as no transaction uses a round it read too early, a round  *)
(* asks everybody once, leaves no step open behind it, and what was        *)
(* approved or rejected stays so.                                          *)
(***************************************************************************)
EXTENDS SubmissionRefinement, TLAPS

\* A step is its transaction and its stage.
LEMMA StepIsPair ==
  ASSUME NEW i \in StepId, NEW j \in StepId, i[1] = j[1], i[2] = j[2] PROVE i = j
  BY DEF StepId

LEMMA StepParts == ASSUME NEW i \in StepId PROVE i[1] \in 1..MaxBatches /\ i[2] \in Stages
  BY DEF StepId

\* The invariant holds before the first submission.
LEMMA InitEstablishes == Init => SubmissionInv
<1> SUFFICES ASSUME Init PROVE SubmissionInv
  OBVIOUS
<1> USE SubmissionAssumption DEF Init
<1>1. Idle \in Request
  BY DEF Idle, Request, StepId, Stages, Status
<1>2. NoStep \in Row
  BY DEF NoStep, Row
<1>3. TypeOK
  <2>1. steps \in [StepId -> Row] /\ req \in [Slots -> Request]
    BY <1>1, <1>2
  <2>2. wf \in [status : Status, round : 0..MaxRound, opened : BOOLEAN, asked : 0..MaxRound]
    BY DEF Status
  <2>3. created \in 0..MaxBatches /\ doc = "CHO_PHAN_CONG"
    OBVIOUS
  <2>4. crossed \in BOOLEAN /\ \A i \in StepId : steps[i] = NoStep
    BY Zenon
  <2> QED BY <2>1, <2>2, <2>3, <2>4 DEF TypeOK
<1>4. WaitingHasPending /\ UnitsAgreedFirst /\ RoundInOrder
  BY DEF WaitingHasPending, UnitsAgreedFirst, RoundInOrder, Waiting, Closed
<1>5. NoOrphanStep /\ AskedOncePerRound /\ RoundsInOrder
  BY DEF NoOrphanStep, AskedOncePerRound, RoundsInOrder, NoStep
<1>6. RequestsKnow
  BY DEF RequestsKnow, Knows, Idle
<1> QED BY <1>3, <1>4, <1>5, <1>6 DEF SubmissionInv

\* A step that changes no row: the request must be well formed.
LEMMA OnlyRequests ==
  ASSUME SubmissionInv, UNCHANGED <<wf, doc, steps, created, crossed>>,
         req' \in [Slots -> Request], RequestsKnow'
  PROVE  SubmissionInv'
<1>1. TypeOK'
  BY DEF SubmissionInv, TypeOK
<1>2. WaitingHasPending' /\ UnitsAgreedFirst' /\ RoundInOrder'
  BY DEF SubmissionInv, WaitingHasPending, UnitsAgreedFirst, RoundInOrder, Pending
<1>3. NoOrphanStep' /\ AskedOncePerRound' /\ RoundsInOrder'
  BY DEF SubmissionInv, NoOrphanStep, AskedOncePerRound, RoundsInOrder
<1> QED BY <1>1, <1>2, <1>3 DEF SubmissionInv

\* The slots that stay as they are know what they knew, if rows keep their round.
LEMMA OthersKnow ==
  ASSUME SubmissionInv, NEW s \in Slots, NEW q \in Request, Knows(q)',
         req' = [req EXCEPT ![s] = q],
         created' \in Nat, created <= created', crossed => crossed',
         \A i \in StepId : i[1] <= created => steps'[i].round = steps[i].round
  PROVE  req' \in [Slots -> Request] /\ RequestsKnow'
<1>1. req' \in [Slots -> Request]
  BY DEF SubmissionInv, TypeOK
<1>2. ASSUME NEW t \in Slots PROVE Knows(req[t])'
  <2>1. CASE t = s
    <3>1. req'[t] = q
      BY <2>1 DEF SubmissionInv, TypeOK
    <3> QED BY <3>1 DEF Knows
  <2>2. CASE t # s
    <3>1. req'[t] = req[t] /\ req[t] \in Request
      BY <2>2 DEF SubmissionInv, TypeOK
    <3>2. req[t].step \in StepId
      BY <3>1 DEF Request
    <3>3. req[t].step[1] \in Nat /\ created \in Nat
      BY <3>2, StepParts, SubmissionAssumption DEF SubmissionInv, TypeOK
    <3>4. Knows(req[t])
      BY DEF SubmissionInv, RequestsKnow
    <3> QED BY <3>1, <3>2, <3>3, <3>4 DEF Knows
  <2> QED BY <2>1, <2>2
<1> QED BY <1>1, <1>2 DEF RequestsKnow

LEMMA IdleIsRequest == Idle \in Request /\ Idle.cmd = "none"
  BY SubmissionAssumption DEF Idle, Request, StepId, Stages, Status

\* The same for a transaction, after which its own request is over.
LEMMA EndsKnows ==
  ASSUME SubmissionInv, NEW s \in Slots, Ends(s),
         created' \in Nat, created <= created', crossed => crossed',
         \A i \in StepId : i[1] <= created => steps'[i].round = steps[i].round
  PROVE  req' \in [Slots -> Request] /\ RequestsKnow'
<1>1. Knows(Idle)'
  BY IdleIsRequest DEF Knows
<1> QED BY <1>1, IdleIsRequest, OthersKnow DEF Ends

LEMMA RefusedPreserves ==
  ASSUME SubmissionInv, NEW s \in Slots, Refused(s) PROVE SubmissionInv'
<1>1. created' \in Nat /\ created <= created'
  BY SubmissionAssumption DEF Refused, SubmissionInv, TypeOK
<1>2. req' \in [Slots -> Request] /\ RequestsKnow'
  BY <1>1, EndsKnows DEF Refused
<1> QED BY <1>2, OnlyRequests DEF Refused

\* A request that is received changes no row, and knows what it has read.
LEMMA ReceivePreserves ==
  ASSUME SubmissionInv, NEW s \in Slots, Receive(s) PROVE SubmissionInv'
<1> USE SubmissionAssumption
<1>a. created \in Nat /\ wf.status \in Status /\ wf.round \in 0..MaxRound
  BY DEF SubmissionInv, TypeOK
<1>c. \A i \in Pending(wf.round) :
        i \in StepId /\ i[1] <= created /\ steps[i].round = wf.round
  <2> SUFFICES ASSUME NEW i \in Pending(wf.round)
               PROVE  i \in StepId /\ i[1] <= created /\ steps[i].round = wf.round
    OBVIOUS
  <2>1. i \in StepId /\ steps[i].round = wf.round /\ steps[i].st = "PENDING"
    BY DEF Pending
  <2>2. i[1] \in Nat /\ created \in Nat
    BY <2>1, <1>a, StepParts
  <2>3. ~(i[1] > created)
    BY <2>1 DEF SubmissionInv, TypeOK, NoStep
  <2> QED BY <2>1, <2>2, <2>3
<1>1. ASSUME NEW p \in Request, Knows(p), Remember(s, p) PROVE SubmissionInv'
  <2>1. /\ req' = [req EXCEPT ![s] = p]
        /\ UNCHANGED <<wf, doc, steps, created, crossed>>
    BY <1>1 DEF Remember
  <2>2. Knows(p)'
    BY <2>1, <1>1 DEF Knows
  <2>3. /\ created' \in Nat /\ created <= created'
        /\ \A i \in StepId : i[1] <= created => steps'[i].round = steps[i].round
    BY <2>1, <1>a
  <2>4. crossed => crossed'
    BY <2>1
  <2>5. req' \in [Slots -> Request] /\ RequestsKnow'
    BY <2>1, <2>2, <2>3, <2>4, OthersKnow
  <2> QED BY <2>1, <2>5, OnlyRequests
<1>2. ASSUME NEW units \in SUBSET Units, ReceiveSubmit(s, units) PROVE SubmissionInv'
  <2> DEFINE p == [Idle EXCEPT !.cmd = IF wf.status = "NONE" THEN "submit" ELSE "submit-again",
                               !.units = units]
  <2>1. p \in Request /\ p.cmd \in {"submit", "submit-again"}
    BY IdleIsRequest DEF Request
  <2>2. Knows(p)
    BY <2>1 DEF Knows
  <2> QED BY <2>1, <2>2, <1>1, <1>2 DEF ReceiveSubmit
<1>b. \A c : Seen(c).status = wf.status /\ Seen(c).round = wf.round /\ Seen(c).cmd = c
  BY DEF Seen, Idle
<1>3. ASSUME ReceiveWithdraw(s) PROVE SubmissionInv'
  <2>1. Seen("withdraw") \in Request
    BY IdleIsRequest, <1>a DEF Seen, Request
  <2>2. Seen("withdraw").cmd = "withdraw" /\ Seen("withdraw").status \in Waiting
    BY <1>3, <1>b DEF ReceiveWithdraw, CanWithdraw
  <2>3. Knows(Seen("withdraw"))
    BY <2>2 DEF Knows
  <2> QED BY <2>1, <2>3, <1>1, <1>3 DEF ReceiveWithdraw
<1>4. ASSUME ReceiveAskReturn(s) PROVE SubmissionInv'
  <2> DEFINE p == [Idle EXCEPT !.cmd = "ask-return", !.status = wf.status]
  <2>1. p \in Request /\ p.cmd = "ask-return" /\ p.status = wf.status
    BY IdleIsRequest, <1>a DEF Request
  <2>2. Knows(p)
    BY <2>1, <1>4 DEF Knows, ReceiveAskReturn
  <2> QED BY <2>1, <2>2, <1>1, <1>4 DEF ReceiveAskReturn
<1>5. ASSUME NEW u \in Users, ReceiveOpen(s, u) PROVE SubmissionInv'
  <2> DEFINE p == [Idle EXCEPT !.cmd = "open"]
  <2>1. p \in Request /\ p.cmd = "open"
    BY IdleIsRequest DEF Request
  <2>2. Knows(p)
    BY <2>1 DEF Knows
  <2> QED BY <2>1, <2>2, <1>1, <1>5 DEF ReceiveOpen
<1>6. ASSUME NEW u \in Users, NEW choice \in {"ACCEPT", "REFUSE"},
             ReceiveDecideReturn(s, u, choice)
      PROVE  SubmissionInv'
  <2> DEFINE p == [Seen("decide-return") EXCEPT !.choice = choice]
  <2>1. ~crossed => wf.status \in Waiting
    BY <1>6 DEF ReceiveDecideReturn, Pending, SubmissionInv, NoOrphanStep
  <2>2. p \in Request
    BY IdleIsRequest, <1>a DEF Seen, Request
  <2>3. p.cmd = "decide-return" /\ p.status = wf.status
    BY <1>b DEF Seen
  <2>4. Knows(p)
    BY <2>1, <2>3 DEF Knows
  <2> QED BY <2>2, <2>4, <1>1, <1>6 DEF ReceiveDecideReturn
<1>7. ASSUME NEW u \in Users, NEW i \in StepId, NEW choice \in {"APPROVE", "REVISION", "REJECT"},
             ReceiveDecide(s, u, i, choice)
      PROVE  SubmissionInv'
  <2> DEFINE p == [Seen("decide") EXCEPT !.step = i, !.choice = choice]
  <2>1. p \in Request
    BY IdleIsRequest, <1>a DEF Seen, Request
  <2>2. /\ p.cmd = "decide" /\ p.status = wf.status /\ p.round = wf.round
        /\ p.step = i /\ p.choice = choice
    BY DEF Seen, Idle
  <2>3. Knows(p)
    BY <2>2, <1>7, <1>c DEF Knows, ReceiveDecide
  <2> QED BY <2>1, <2>3, <1>1, <1>7 DEF ReceiveDecide
<1>8. ASSUME NEW u \in Users, NEW i \in StepId, NEW target \in Users,
             ReceiveReassign(s, u, i, target)
      PROVE  SubmissionInv'
  <2> DEFINE p == [Idle EXCEPT !.cmd = "reassign", !.step = i, !.choice = target]
  <2>1. p \in Request
    BY IdleIsRequest DEF Request
  <2>2. p.cmd = "reassign" /\ p.choice = target
    BY DEF Idle
  <2>3. Knows(p)
    BY <2>2 DEF Knows
  <2> QED BY <2>1, <2>3, <1>1, <1>8 DEF ReceiveReassign
<1> QED BY <1>2, <1>3, <1>4, <1>5, <1>6, <1>7, <1>8 DEF Receive

-----------------------------------------------------------------------------
\* Closing the open steps of a round changes nothing else.
LEMMA SkipRows ==
  ASSUME NEW st \in [StepId -> Row], NEW r
  PROVE  /\ SkipPending(st, r) \in [StepId -> Row]
         /\ \A i \in StepId : LET row == SkipPending(st, r)[i] IN
              /\ row.round = st[i].round
              /\ row.st = IF st[i].round = r /\ st[i].st = "PENDING"
                            THEN "SKIPPED" ELSE st[i].st
              /\ st[i] = NoStep => row = NoStep
<1>1. ASSUME NEW i \in StepId PROVE st[i] \in Row
  OBVIOUS
<1> QED BY <1>1 DEF SkipPending, Row, NoStep

\* New rows are of the transaction that creates them; the others stay.
LEMMA NewRows ==
  ASSUME NEW st \in [StepId -> Row], NEW stages, NEW r \in 0..MaxRound,
         NEW status \in {"PENDING", "SKIPPED"}
  PROVE  /\ NewSteps(st, stages, r, status) \in [StepId -> Row]
         /\ \A i \in StepId : LET row == NewSteps(st, stages, r, status)[i] IN
              IF i[1] = created + 1 /\ i[2] \in stages
                THEN row.round = r /\ row.st = status ELSE row = st[i]
  BY DEF NewSteps, Row, NoStep

\* A submission taken back to draft, by its author or at his request.
LEMMA DraftPreserves ==
  ASSUME SubmissionInv, NEW s \in Slots, NEW r, NEW asked \in 0..MaxRound,
         wf.status # "NONE" \/ wf.asked # 0,
         wf' = [wf EXCEPT !.status = "DRAFT", !.asked = asked],
         steps' = SkipPending(steps, r), Moves("DRAFT"), created' = created,
         crossed' = (crossed \/ r # wf.round), Ends(s)
  PROVE  SubmissionInv'
<1>0. SubmissionInv /\ TypeOK
  BY DEF SubmissionInv
<1>1. /\ wf'.status = "DRAFT" /\ wf'.round = wf.round /\ wf'.asked = asked
      /\ wf' \in [status : Status, round : 0..MaxRound, opened : BOOLEAN, asked : 0..MaxRound]
  BY <1>0 DEF TypeOK, Status
<1>2. /\ steps' \in [StepId -> Row]
      /\ \A i \in StepId :
           /\ steps'[i].round = steps[i].round
           /\ steps'[i].st = IF steps[i].round = r /\ steps[i].st = "PENDING"
                               THEN "SKIPPED" ELSE steps[i].st
           /\ steps[i] = NoStep => steps'[i] = NoStep
  BY <1>0, SkipRows DEF TypeOK
<1>3. crossed' \in BOOLEAN /\ (crossed => crossed') /\ (~crossed' => r = wf.round)
  BY Zenon
<1>4. created' \in Nat /\ created <= created' /\ created' = created
  BY <1>0, SubmissionAssumption DEF TypeOK
<1>5. req' \in [Slots -> Request] /\ RequestsKnow'
  BY <1>2, <1>3, <1>4, EndsKnows
<1>6. TypeOK'
  <2>1. doc' = "CHO_PHAN_CONG"
    BY DEF Moves, DocumentStatusFor, Waiting
  <2> QED BY <2>1, <1>0, <1>1, <1>2, <1>3, <1>4, <1>5 DEF TypeOK
<1>7. WaitingHasPending' /\ UnitsAgreedFirst' /\ RoundInOrder'
  BY <1>1 DEF WaitingHasPending, UnitsAgreedFirst, RoundInOrder, Waiting, Closed
<1>8. NoOrphanStep'
  BY <1>1, <1>2, <1>3 DEF SubmissionInv, NoOrphanStep
<1>9. AskedOncePerRound'
  BY <1>2, <1>3 DEF SubmissionInv, AskedOncePerRound
<1>10. RoundsInOrder'
  BY <1>1, <1>2, <1>3 DEF SubmissionInv, RoundsInOrder
<1> QED BY <1>5, <1>6, <1>7, <1>8, <1>9, <1>10 DEF SubmissionInv

LEMMA WithdrawPreserves ==
  ASSUME SubmissionInv, NEW s \in Slots, CommitWithdraw(s) PROVE SubmissionInv'
<1>1. CASE Refused(s)
  BY <1>1, RefusedPreserves
<1>2. CASE StillWithdrawable(req[s])
  <2>1. /\ wf.status \in Waiting
        /\ wf \in [status : Status, round : 0..MaxRound, opened : BOOLEAN, asked : 0..MaxRound]
    BY <1>2 DEF CommitWithdraw, StillWithdrawable, SubmissionInv, RequestsKnow, Knows, TypeOK
  <2>2. wf' = [wf EXCEPT !.status = "DRAFT", !.asked = wf.asked]
    BY <1>2, <2>1 DEF CommitWithdraw
  <2>3. wf.status # "NONE" /\ wf.asked \in 0..MaxRound
    BY <2>1 DEF Waiting
  <2> QED BY <1>2, <2>2, <2>3, DraftPreserves DEF CommitWithdraw
<1> QED BY <1>1, <1>2 DEF CommitWithdraw

\* The submission is opened, or its return asked or refused: no step changes.
LEMMA FlagsPreserve ==
  ASSUME SubmissionInv, NEW s \in Slots, Ends(s), UNCHANGED <<doc, steps, created, crossed>>,
         NEW opened \in BOOLEAN, NEW asked \in 0..MaxRound, asked # 0 => wf.round > 0,
         wf' = [wf EXCEPT !.opened = opened, !.asked = asked]
  PROVE  SubmissionInv'
<1>1. /\ wf'.status = wf.status /\ wf'.round = wf.round /\ wf'.asked = asked
      /\ wf' \in [status : Status, round : 0..MaxRound, opened : BOOLEAN, asked : 0..MaxRound]
  BY DEF SubmissionInv, TypeOK
<1>2. created' \in Nat /\ created <= created'
  BY SubmissionAssumption DEF SubmissionInv, TypeOK
<1>3. req' \in [Slots -> Request] /\ RequestsKnow'
  BY <1>2, EndsKnows
<1>4. TypeOK'
  BY <1>1, <1>3 DEF SubmissionInv, TypeOK
<1>5. WaitingHasPending' /\ UnitsAgreedFirst' /\ RoundInOrder'
  BY <1>1 DEF SubmissionInv, WaitingHasPending, UnitsAgreedFirst, RoundInOrder, Pending
<1>6. NoOrphanStep' /\ AskedOncePerRound' /\ RoundsInOrder'
  BY <1>1 DEF SubmissionInv, NoOrphanStep, AskedOncePerRound, RoundsInOrder
<1> QED BY <1>3, <1>4, <1>5, <1>6 DEF SubmissionInv

LEMMA OpenPreserves ==
  ASSUME SubmissionInv, NEW s \in Slots, CommitOpen(s) PROVE SubmissionInv'
<1>1. wf' = [wf EXCEPT !.opened = TRUE, !.asked = wf.asked] /\ wf.asked \in 0..MaxRound
  BY DEF CommitOpen, SubmissionInv, TypeOK
<1>2. wf.asked # 0 => wf.round > 0
  BY DEF SubmissionInv, RoundsInOrder
<1> QED BY <1>1, <1>2, FlagsPreserve DEF CommitOpen

LEMMA AskReturnPreserves ==
  ASSUME SubmissionInv, NEW s \in Slots, CommitAskReturn(s) PROVE SubmissionInv'
<1>1. CASE Refused(s)
  BY <1>1, RefusedPreserves
<1>2. CASE ~(wf.asked # 0 \/ wf.status # req[s].status)
  <2>1. wf.status \in Waiting
    BY <1>2 DEF CommitAskReturn, SubmissionInv, RequestsKnow, Knows
  <2>2. wf.round \in 0..MaxRound /\ wf.opened \in BOOLEAN /\ wf.round > 0
    BY <2>1 DEF SubmissionInv, TypeOK, RoundsInOrder, Waiting
  <2>3. wf' = [wf EXCEPT !.opened = wf.opened, !.asked = wf.round]
    BY <1>2 DEF CommitAskReturn, SubmissionInv, TypeOK
  <2> QED BY <1>2, <2>2, <2>3, FlagsPreserve DEF CommitAskReturn
<1> QED BY <1>1, <1>2 DEF CommitAskReturn

LEMMA DecideReturnPreserves ==
  ASSUME SubmissionInv, NEW s \in Slots, CommitDecideReturn(s) PROVE SubmissionInv'
<1>1. CASE Refused(s)
  BY <1>1, RefusedPreserves
<1>2. CASE ReturnStillAsked(req[s]) /\ req[s].choice = "ACCEPT"
  <2>1. wf' = [wf EXCEPT !.status = "DRAFT", !.asked = 0] /\ wf.asked # 0
    BY <1>2 DEF CommitDecideReturn, ReturnStillAsked, SubmissionInv, TypeOK
  <2>2. 0 \in 0..MaxRound
    BY SubmissionAssumption
  <2> QED BY <1>2, <2>1, <2>2, DraftPreserves DEF CommitDecideReturn
<1>3. CASE ReturnStillAsked(req[s]) /\ req[s].choice = "REFUSE"
  <2>1. wf' = [wf EXCEPT !.opened = wf.opened, !.asked = 0] /\ wf.opened \in BOOLEAN
    BY <1>3 DEF CommitDecideReturn, ReturnStillAsked, SubmissionInv, TypeOK
  <2>2. 0 \in 0..MaxRound
    BY SubmissionAssumption
  <2> QED BY <1>3, <2>1, <2>2, FlagsPreserve DEF CommitDecideReturn
<1> QED BY <1>1, <1>2, <1>3 DEF CommitDecideReturn

\* A person put in the place of another changes neither round nor status.
LEMMA ReassignPreserves ==
  ASSUME SubmissionInv, NEW s \in Slots, CommitReassign(s) PROVE SubmissionInv'
<1>1. CASE Refused(s)
  BY <1>1, RefusedPreserves
<1>2. CASE StillPending(req[s].step) /\ ~Refused(s)
  <2>0. /\ Ends(s) /\ UNCHANGED <<wf, doc, created, crossed>>
        /\ steps' = [steps EXCEPT ![req[s].step].approver = req[s].choice]
    BY <1>2 DEF CommitReassign
  <2>1. req[s] \in Request /\ req[s].choice \in Users /\ steps \in [StepId -> Row]
    BY DEF CommitReassign, SubmissionInv, TypeOK, RequestsKnow, Knows
  <2>2. req[s].step \in StepId
    BY <2>1 DEF Request
  <2>3. /\ steps' \in [StepId -> Row]
        /\ \A i \in StepId : steps'[i].round = steps[i].round /\ steps'[i].st = steps[i].st
        /\ \A i \in StepId : steps[i] = NoStep => steps'[i] = NoStep
    BY <1>2, <2>0, <2>1, <2>2 DEF Row, StillPending, NoStep
  <2>4. created' \in Nat /\ created <= created'
    BY <2>0, SubmissionAssumption DEF SubmissionInv, TypeOK
  <2>5. req' \in [Slots -> Request] /\ RequestsKnow'
    BY <2>0, <2>3, <2>4, EndsKnows
  <2>6. TypeOK'
    BY <2>0, <2>3, <2>5 DEF SubmissionInv, TypeOK
  <2>7. \A n : Pending(n)' = Pending(n)
    BY <2>3 DEF Pending
  <2>8. WaitingHasPending' /\ UnitsAgreedFirst' /\ RoundInOrder'
    BY <2>0, <2>3, <2>7
       DEF SubmissionInv, WaitingHasPending, UnitsAgreedFirst, RoundInOrder
  <2>9. NoOrphanStep' /\ AskedOncePerRound' /\ RoundsInOrder'
    BY <2>0, <2>3 DEF SubmissionInv, NoOrphanStep, AskedOncePerRound, RoundsInOrder
  <2> QED BY <2>5, <2>6, <2>8, <2>9 DEF SubmissionInv
<1> QED BY <1>1, <1>2 DEF CommitReassign

\* What a submission writes: its workflow, and rows of its own transaction, pending
\* for the stages it asks and skipped for the units its author heads.
AskedFirst(q) == IF PendingUnits(q.units) = {} THEN {None} ELSE PendingUnits(q.units)

StatusAsked(q) == IF PendingUnits(q.units) = {} THEN "WAITING_LEADER" ELSE "WAITING_UNIT_HEAD"

SubmitEffect(q) ==
  /\ wf' = [wf EXCEPT !.status = StatusAsked(q), !.round = q.round + 1, !.opened = FALSE]
  /\ Moves(StatusAsked(q)) /\ crossed' = (crossed \/ q.round # wf.round)
  /\ steps' \in [StepId -> Row]
  /\ \A i \in StepId :
       IF i[1] = created + 1 /\ i[2] \in AskedFirst(q)
         THEN steps'[i].round = q.round + 1 /\ steps'[i].st = "PENDING"
         ELSE IF i[1] = created + 1 /\ i[2] \in q.units \ PendingUnits(q.units)
         THEN steps'[i].round = q.round + 1 /\ steps'[i].st = "SKIPPED"
         ELSE steps'[i] = steps[i]

LEMMA SubmitRows ==
  ASSUME TypeOK, NEW s \in Slots, SubmitRound(s)
  PROVE  SubmitEffect(req[s])
<1> DEFINE q == req[s]
           pending == PendingUnits(q.units)
           stages == AskedFirst(q)
           r == q.round + 1
           skipped == NewSteps(steps, q.units \ pending, r, "SKIPPED")
<1>1. r \in 0..MaxRound /\ steps \in [StepId -> Row]
  BY SubmissionAssumption DEF TypeOK, SubmitRound, Request
<1>2. /\ wf' = [wf EXCEPT !.status = StatusAsked(q), !.round = r, !.opened = FALSE]
      /\ steps' = NewSteps(skipped, stages, r, "PENDING")
      /\ Moves(StatusAsked(q)) /\ crossed' = (crossed \/ q.round # wf.round)
  BY DEF SubmitRound, AskedFirst, StatusAsked
<1>3. /\ skipped \in [StepId -> Row]
      /\ \A i \in StepId : IF i[1] = created + 1 /\ i[2] \in q.units \ pending
            THEN skipped[i].round = r /\ skipped[i].st = "SKIPPED"
            ELSE skipped[i] = steps[i]
  BY <1>1, NewRows
<1> HIDE DEF q, pending, stages, r, skipped
<1>4. /\ steps' \in [StepId -> Row]
      /\ \A i \in StepId : IF i[1] = created + 1 /\ i[2] \in stages
            THEN steps'[i].round = r /\ steps'[i].st = "PENDING"
            ELSE steps'[i] = skipped[i]
  BY <1>1, <1>2, <1>3, NewRows
<1>5. ASSUME NEW i \in StepId
      PROVE  IF i[1] = created + 1 /\ i[2] \in stages
               THEN steps'[i].round = r /\ steps'[i].st = "PENDING"
               ELSE IF i[1] = created + 1 /\ i[2] \in q.units \ pending
               THEN steps'[i].round = r /\ steps'[i].st = "SKIPPED"
               ELSE steps'[i] = steps[i]
  BY <1>3, <1>4
<1>6. SubmitEffect(q)
  BY <1>2, <1>4, <1>5 DEF SubmitEffect, pending, stages, r
<1> QED
  BY <1>6 DEF q

\* A submission: its rows are all new, and of a round of which there was none.
LEMMA SubmitPreserves ==
  ASSUME SubmissionInv, NEW s \in Slots, SubmitRound(s), Ends(s),
         wf.status \notin Waiting
  PROVE  SubmissionInv'
<1> DEFINE q == req[s]
           pending == PendingUnits(q.units)
           stages == AskedFirst(q)
           status == StatusAsked(q)
           r == q.round + 1
<1>0. /\ TypeOK /\ SubmissionInv
  BY DEF SubmissionInv
<1>1. /\ q \in Request /\ q.round \in Nat /\ r \in 0..MaxRound /\ r > 0
      /\ created < MaxBatches /\ created \in Nat /\ wf.round \in Nat
      /\ created' = created + 1 /\ q.units \subseteq Units
  BY <1>0, SubmissionAssumption DEF TypeOK, SubmitRound, Request
<1>2. /\ wf' = [wf EXCEPT !.status = status, !.round = r, !.opened = FALSE]
      /\ Moves(status) /\ crossed' = (crossed \/ q.round # wf.round)
  BY <1>0, SubmitRows DEF SubmitEffect
<1>3. /\ wf'.status = status /\ wf'.round = r /\ wf'.asked = wf.asked
      /\ wf' \in [status : Status, round : 0..MaxRound, opened : BOOLEAN, asked : 0..MaxRound]
  BY <1>0, <1>1, <1>2 DEF TypeOK, Status, Waiting, StatusAsked
<1>4. /\ pending \subseteq Units /\ None \notin pending /\ None \notin q.units
      /\ stages # {} /\ (\E u \in stages : u \in Stages)
      /\ stages \cap (q.units \ pending) = {} /\ stages \subseteq Stages
  BY <1>1, SubmissionAssumption DEF PendingUnits, Stages, AskedFirst
<1>5. /\ steps' \in [StepId -> Row]
      /\ \A i \in StepId :
           IF i[1] = created + 1 /\ i[2] \in stages
             THEN steps'[i].round = r /\ steps'[i].st = "PENDING"
             ELSE IF i[1] = created + 1 /\ i[2] \in q.units \ pending
             THEN steps'[i].round = r /\ steps'[i].st = "SKIPPED"
             ELSE steps'[i] = steps[i]
  BY <1>0, SubmitRows DEF SubmitEffect
<1>6. \A i \in StepId : i[1] \in Nat /\ (i[1] > created => steps[i] = NoStep)
  BY <1>0, StepParts, SubmissionAssumption DEF TypeOK
<1>7. crossed' \in BOOLEAN /\ (crossed => crossed') /\ (~crossed' => q.round = wf.round)
  BY <1>2, Zenon
<1>8. req' \in [Slots -> Request] /\ RequestsKnow'
  <2>1. \A i \in StepId : i[1] <= created => steps'[i].round = steps[i].round
    BY <1>1, <1>5, <1>6
  <2> QED BY <2>1, <1>1, <1>7, EndsKnows
<1>9. TypeOK'
  <2>1. doc' \in {"CHO_PHAN_CONG", "CHO_PHE_DUYET", "DA_HOAN_THANH", "LUU_THEO_DOI"}
    BY <1>2 DEF Moves, DocumentStatusFor, Waiting, StatusAsked
  <2>2. created' \in 0..MaxBatches
    BY <1>1, SubmissionAssumption
  <2>3. \A i \in StepId : i[1] > created' => steps'[i] = NoStep
    BY <1>1, <1>5, <1>6
  <2> QED BY <2>1, <2>2, <2>3, <1>3, <1>5, <1>7, <1>8 DEF TypeOK
<1>10. \A i \in StepId : ~crossed' =>
          /\ steps[i].st # "PENDING" /\ steps[i].round <= wf.round /\ r = wf.round + 1
          /\ steps[i].round \in Nat /\ steps[i].round # r
  <2>1. \A i \in StepId : steps[i].round \in Nat
    BY <1>0, SubmissionAssumption DEF TypeOK, Row
  <2> QED BY <2>1, <1>1, <1>7 DEF SubmissionInv, NoOrphanStep, RoundsInOrder
<1>11. WaitingHasPending'
  <2>1. PICK u \in stages : u \in Stages /\ (status = "WAITING_LEADER" <=> u = None)
    BY <1>4 DEF AskedFirst, StatusAsked
  <2> HIDE DEF stages, pending
  <2>2. created + 1 \in 1..MaxBatches
    BY <1>1, SubmissionAssumption
  <2>3. PICK i \in StepId : i[1] = created + 1 /\ i[2] = u
    <3>1. <<created + 1, u>> \in StepId
      BY <2>1, <2>2 DEF StepId
    <3> QED BY <3>1
  <2>4. steps'[i].round = r /\ steps'[i].st = "PENDING"
    BY <2>3, <1>5
  <2>5. i \in Pending(wf.round)'
    BY <2>4, <1>3 DEF Pending
  <2> QED BY <2>1, <2>3, <2>5, <1>3 DEF WaitingHasPending
<1>12. NoOrphanStep'
  <2> SUFFICES ASSUME ~crossed', NEW i \in StepId, steps'[i].st = "PENDING"
               PROVE  wf'.status \in Waiting /\ steps'[i].round = wf'.round
    BY DEF NoOrphanStep
  <2> QED BY <1>3, <1>5, <1>10 DEF Waiting, StatusAsked
<1>13. AskedOncePerRound'
  <2> SUFFICES ASSUME ~crossed', NEW i \in StepId, NEW j \in StepId, i[2] = j[2],
                      steps'[i].round # 0, steps'[i].round = steps'[j].round
               PROVE  i = j
    BY DEF AskedOncePerRound
  <2>1. CASE steps'[i].round = r
    BY <2>1, <1>5, <1>10, StepIsPair
  <2>2. CASE steps'[i].round # r
    <3>1. steps'[i] = steps[i] /\ steps'[j] = steps[j]
      BY <2>2, <1>5
    <3> QED BY <3>1, <1>7 DEF SubmissionInv, AskedOncePerRound
  <2> QED BY <2>1, <2>2
<1>14. RoundsInOrder'
  BY <1>1, <1>3, <1>5, <1>10 DEF RoundsInOrder
<1>15. UnitsAgreedFirst' /\ RoundInOrder'
  <2>1. ASSUME ~crossed', NEW i \in StepId, steps'[i].round = r
        PROVE  /\ steps'[i].st \in {"PENDING", "SKIPPED"}
               /\ status = "WAITING_UNIT_HEAD" => i[2] # None
               /\ status = "WAITING_LEADER" /\ i[2] # None => steps'[i].st = "SKIPPED"
    BY <2>1, <1>4, <1>5, <1>10 DEF AskedFirst, StatusAsked
  <2> QED BY <2>1, <1>3 DEF UnitsAgreedFirst, RoundInOrder, Closed, Waiting, StatusAsked
<1> QED BY <1>8, <1>9, <1>11, <1>12, <1>13, <1>14, <1>15 DEF SubmissionInv

\* What a decision that goes through finds and writes.
DecideEffect(s) ==
  LET q == req[s]
      i == q.step
      othersWait == \E j \in Pending(q.round) : j # i /\ j[2] # None
      goesUp == wf'.status = "WAITING_LEADER"
      closing == wf'.status \in {"NEEDS_REVISION", "REJECTED"}
  IN
  /\ q \in Request /\ i \in StepId /\ q.choice \in AllowedDecisions(i[2])
  /\ wf.status \in Waiting /\ wf.round = q.round /\ steps[i].round = q.round
  /\ steps[i].st = "PENDING" /\ wf.round > 0
  /\ goesUp => created < MaxBatches
  /\ created' = IF goesUp THEN created + 1 ELSE created
  /\ Moves(wf'.status) /\ Ends(s) /\ UNCHANGED crossed
  /\ \/ wf'.status = "WAITING_UNIT_HEAD" /\ i[2] # None /\ q.choice = "APPROVE" /\ othersWait
     \/ wf'.status = "WAITING_LEADER" /\ i[2] # None /\ q.choice = "APPROVE" /\ ~othersWait
     \/ wf'.status = "APPROVED" /\ i[2] = None /\ q.choice = "APPROVE"
     \/ wf'.status = "REJECTED" /\ i[2] = None /\ q.choice = "REJECT"
     \/ wf'.status = "NEEDS_REVISION" /\ q.choice = "REVISION"
  /\ wf'.round = wf.round /\ wf'.asked = wf.asked
  /\ wf' \in [status : Status, round : 0..MaxRound, opened : BOOLEAN, asked : 0..MaxRound]
  /\ steps' \in [StepId -> Row]
  /\ \A j \in StepId :
       IF goesUp /\ j[1] = created + 1 /\ j[2] = None
         THEN steps'[j].round = q.round /\ steps'[j].st = "PENDING"
         ELSE /\ steps'[j].round = steps[j].round
              /\ steps'[j].st =
                   IF j = i THEN StepStatus(q.choice)
                   ELSE IF closing /\ steps[j].round = q.round /\ steps[j].st = "PENDING"
                   THEN "SKIPPED" ELSE steps[j].st
              /\ steps[j] = NoStep => steps'[j] = NoStep

LEMMA DecideRows ==
  ASSUME SubmissionInv, NEW s \in Slots, CommitDecide(s), ~Refused(s)
  PROVE  DecideEffect(s)
<1> DEFINE q == req[s]
           i == q.step
           answer == StepStatus(q.choice)
           claimed == [steps EXCEPT ![i].st = answer]
           othersWait == \E j \in Pending(q.round) : j # i /\ j[2] # None
           status == Outcome(i[2], q.choice, othersWait)
           goesUp == status = "WAITING_LEADER"
           closing == status \in {"NEEDS_REVISION", "REJECTED"}
<1>0. TypeOK
  BY DEF SubmissionInv
<1>1. /\ q \in Request /\ i \in StepId /\ q.choice \in AllowedDecisions(i[2])
      /\ wf.status \in Waiting /\ wf.round = q.round /\ steps[i].round = q.round
      /\ steps[i].st = "PENDING" /\ wf.round > 0
  BY <1>0 DEF CommitDecide, Unmoved, StillPending, SubmissionInv, TypeOK,
                    RequestsKnow, Knows, Request, RoundsInOrder, Waiting
<1>2. /\ goesUp => created < MaxBatches
      /\ steps' = IF goesUp THEN NewSteps(claimed, {None}, q.round, "PENDING")
                  ELSE IF closing THEN SkipPending(claimed, q.round)
                  ELSE claimed
      /\ created' = IF goesUp THEN created + 1 ELSE created
      /\ wf' = [wf EXCEPT !.status = status, !.opened = TRUE]
      /\ Moves(status) /\ Ends(s) /\ UNCHANGED crossed
  BY DEF CommitDecide
<1>3. \/ status = "WAITING_UNIT_HEAD" /\ i[2] # None /\ q.choice = "APPROVE" /\ othersWait
      \/ status = "WAITING_LEADER" /\ i[2] # None /\ q.choice = "APPROVE" /\ ~othersWait
      \/ status = "APPROVED" /\ i[2] = None /\ q.choice = "APPROVE"
      \/ status = "REJECTED" /\ i[2] = None /\ q.choice = "REJECT"
      \/ status = "NEEDS_REVISION" /\ q.choice = "REVISION"
  <2> HIDE DEF othersWait, q, i
  <2> QED BY <1>1 DEF Outcome, AllowedDecisions
<1>4. /\ wf'.status = status /\ wf'.round = wf.round /\ wf'.asked = wf.asked
      /\ wf' \in [status : Status, round : 0..MaxRound, opened : BOOLEAN, asked : 0..MaxRound]
  BY <1>0, <1>2, <1>3 DEF TypeOK, Status, Waiting, Closed
<1>5. /\ steps' \in [StepId -> Row]
      /\ \A j \in StepId :
           IF goesUp /\ j[1] = created + 1 /\ j[2] = None
             THEN steps'[j].round = q.round /\ steps'[j].st = "PENDING"
             ELSE /\ steps'[j].round = steps[j].round
                  /\ steps'[j].st =
                       IF j = i THEN answer
                       ELSE IF closing /\ steps[j].round = q.round /\ steps[j].st = "PENDING"
                       THEN "SKIPPED" ELSE steps[j].st
                  /\ steps[j] = NoStep => steps'[j] = NoStep
  <2>1. /\ claimed \in [StepId -> Row]
        /\ \A j \in StepId :
             /\ claimed[j].round = steps[j].round
             /\ claimed[j].st = IF j = i THEN answer ELSE steps[j].st
             /\ steps[j] = NoStep => claimed[j] = NoStep
    BY <1>0, <1>1 DEF TypeOK, Row, StepStatus, NoStep
  <2>2. answer # "PENDING" /\ q.round \in 0..MaxRound
    BY <1>0, <1>1 DEF StepStatus, TypeOK
  <2> HIDE DEF claimed, status, q, i, answer
  <2>3. CASE goesUp
    <3>1. steps' = NewSteps(claimed, {None}, q.round, "PENDING")
      BY <1>2, <2>3
    <3>2. /\ steps' \in [StepId -> Row]
          /\ \A j \in StepId : IF j[1] = created + 1 /\ j[2] \in {None}
                THEN steps'[j].round = q.round /\ steps'[j].st = "PENDING"
                ELSE steps'[j] = claimed[j]
      BY <3>1, <2>1, <2>2, NewRows
    <3> QED BY <3>2, <2>1, <2>3
  <2>4. CASE closing /\ ~goesUp
    <3>1. steps' = SkipPending(claimed, q.round)
      BY <1>2, <2>4
    <3>2. /\ steps' \in [StepId -> Row]
          /\ \A j \in StepId :
               /\ steps'[j].round = claimed[j].round
               /\ steps'[j].st = IF claimed[j].round = q.round /\ claimed[j].st = "PENDING"
                                   THEN "SKIPPED" ELSE claimed[j].st
               /\ claimed[j] = NoStep => steps'[j] = NoStep
      BY <3>1, <2>1, SkipRows
    <3> QED BY <3>2, <2>1, <2>2, <2>4
  <2>5. CASE ~closing /\ ~goesUp
    <3>1. steps' = claimed
      BY <1>2, <2>5
    <3> QED BY <3>1, <2>1, <2>5
  <2> QED BY <2>3, <2>4, <2>5
<1>6. /\ wf'.status = status /\ created' = IF goesUp THEN created + 1 ELSE created
      /\ goesUp => created < MaxBatches
      /\ Moves(status) /\ Ends(s) /\ UNCHANGED crossed
  BY <1>2, <1>4
<1> HIDE DEF status, claimed
<1> QED
  BY <1>1, <1>3, <1>4, <1>5, <1>6 DEF DecideEffect

\* A decision: the step it claims was pending, in the round where it was read.
LEMMA DecidePreserves ==
  ASSUME SubmissionInv, NEW s \in Slots, CommitDecide(s) PROVE SubmissionInv'
<1>1. CASE Refused(s)
  BY <1>1, RefusedPreserves
<1>2. CASE ~Refused(s)
  <2> DEFINE q == req[s]
             i == q.step
             answer == StepStatus(q.choice)
             othersWait == \E j \in Pending(q.round) : j # i /\ j[2] # None
             status == wf'.status
             goesUp == status = "WAITING_LEADER"
             closing == status \in {"NEEDS_REVISION", "REJECTED"}
  <2>0. TypeOK /\ DecideEffect(s)
    BY <1>2, DecideRows DEF SubmissionInv
  <2>1. /\ q \in Request /\ i \in StepId /\ q.choice \in AllowedDecisions(i[2])
        /\ wf.status \in Waiting /\ wf.round = q.round /\ steps[i].round = q.round
        /\ steps[i].st = "PENDING" /\ wf.round > 0
    BY <2>0 DEF DecideEffect
  <2>2. /\ goesUp => created < MaxBatches
        /\ created' = IF goesUp THEN created + 1 ELSE created
        /\ Moves(status) /\ Ends(s) /\ UNCHANGED crossed
    BY <2>0 DEF DecideEffect
  <2>3. \/ status = "WAITING_UNIT_HEAD" /\ i[2] # None /\ q.choice = "APPROVE" /\ othersWait
        \/ status = "WAITING_LEADER" /\ i[2] # None /\ q.choice = "APPROVE" /\ ~othersWait
        \/ status = "APPROVED" /\ i[2] = None /\ q.choice = "APPROVE"
        \/ status = "REJECTED" /\ i[2] = None /\ q.choice = "REJECT"
        \/ status = "NEEDS_REVISION" /\ q.choice = "REVISION"
    BY <2>0 DEF DecideEffect
  <2>4. /\ wf'.status = status /\ wf'.round = wf.round /\ wf'.asked = wf.asked
        /\ wf' \in [status : Status, round : 0..MaxRound, opened : BOOLEAN, asked : 0..MaxRound]
    BY <2>0 DEF DecideEffect
  <2>5. /\ steps' \in [StepId -> Row]
        /\ \A j \in StepId :
             IF goesUp /\ j[1] = created + 1 /\ j[2] = None
               THEN steps'[j].round = q.round /\ steps'[j].st = "PENDING"
               ELSE /\ steps'[j].round = steps[j].round
                    /\ steps'[j].st =
                         IF j = i THEN answer
                         ELSE IF closing /\ steps[j].round = q.round /\ steps[j].st = "PENDING"
                         THEN "SKIPPED" ELSE steps[j].st
                    /\ steps[j] = NoStep => steps'[j] = NoStep
    BY <2>0 DEF DecideEffect
  <2> HIDE DEF q, i, status
  <2>6. /\ created \in Nat /\ created' \in Nat /\ created <= created'
        /\ created' \in 0..MaxBatches /\ (goesUp => created' = created + 1)
    BY <2>0, <2>2, SubmissionAssumption DEF TypeOK
  <2>7. \A j \in StepId : j[1] \in Nat /\ (j[1] > created => steps[j] = NoStep)
    BY <2>0, StepParts, SubmissionAssumption DEF TypeOK
  <2>8. crossed' = crossed /\ crossed' \in BOOLEAN
    BY <2>0, <2>2 DEF TypeOK
  <2>9. /\ q.choice = "APPROVE" => answer = "APPROVED"
        /\ answer \in {"APPROVED", "REVISION_REQUIRED", "REJECTED"}
    BY DEF StepStatus
  <2>10. ~crossed => /\ i[2] # None => wf.status = "WAITING_UNIT_HEAD"
                     /\ i[2] = None => wf.status = "WAITING_LEADER"
    BY <2>1 DEF SubmissionInv, UnitsAgreedFirst, RoundInOrder, Waiting
  <2>11. \A j \in StepId : steps[j].round = q.round /\ steps[j].st = "PENDING" /\ j # i
           /\ j[2] # None => othersWait
    BY DEF Pending
  <2>12. othersWait => \E j \in StepId : /\ steps[j].round = q.round /\ steps[j].st = "PENDING"
                                         /\ j # i /\ j[2] # None
    BY DEF Pending
  <2> HIDE DEF othersWait, answer
  <2>13. req' \in [Slots -> Request] /\ RequestsKnow'
    <3>1. ASSUME NEW j \in StepId, j[1] <= created PROVE steps'[j].round = steps[j].round
      <4>1. j[1] \in Nat /\ created \in Nat /\ j[1] <= created
        BY <3>1, <2>6, <2>7
      <4>2. j[1] # created + 1
        BY <4>1, SMT
      <4> QED BY <4>2, <2>5
    <3>2. Ends(s) /\ (crossed => crossed') /\ created' \in Nat /\ created <= created'
      BY <2>2, <2>6, <2>8
    <3> QED BY <3>1, <3>2, EndsKnows
  <2>14. TypeOK'
    <3>1. doc' \in {"CHO_PHAN_CONG", "CHO_PHE_DUYET", "DA_HOAN_THANH", "LUU_THEO_DOI"}
      BY <2>2 DEF Moves, DocumentStatusFor, Waiting
    <3>2. \A j \in StepId : j[1] > created' => steps'[j] = NoStep
      BY <2>5, <2>6, <2>7
    <3> QED BY <3>1, <3>2, <2>4, <2>5, <2>6, <2>8, <2>13 DEF TypeOK
  <2>15. WaitingHasPending'
    <3>1. CASE status = "WAITING_UNIT_HEAD"
      <4>1. PICK j \in StepId : /\ steps[j].round = q.round /\ steps[j].st = "PENDING"
                                /\ j # i /\ j[2] # None
        BY <3>1, <2>3, <2>12
      <4>2. steps'[j].round = q.round /\ steps'[j].st = "PENDING"
        BY <4>1, <3>1, <2>5
      <4> QED BY <4>1, <4>2, <3>1, <2>1, <2>4 DEF WaitingHasPending, Pending
    <3>2. CASE status = "WAITING_LEADER"
      <4>1. created + 1 \in 1..MaxBatches
        BY <3>2, <2>2, <2>6, SubmissionAssumption
      <4>2. PICK j \in StepId : j[1] = created + 1 /\ j[2] = None
        <5>1. <<created + 1, None>> \in StepId
          BY <4>1 DEF StepId, Stages
        <5> QED BY <5>1
      <4>3. steps'[j].round = q.round /\ steps'[j].st = "PENDING"
        BY <4>2, <3>2, <2>5
      <4> QED BY <4>2, <4>3, <3>2, <2>1, <2>4 DEF WaitingHasPending, Pending
    <3> QED BY <3>1, <3>2, <2>4 DEF WaitingHasPending
  <2>16. NoOrphanStep'
    <3> SUFFICES ASSUME ~crossed, NEW j \in StepId, steps'[j].st = "PENDING"
                 PROVE  status \in Waiting /\ steps'[j].round = wf.round
      BY <2>4, <2>8 DEF NoOrphanStep
    <3>1. CASE goesUp
      BY <3>1, <2>1, <2>5, <2>9 DEF SubmissionInv, NoOrphanStep, Waiting
    <3>2. CASE ~goesUp
      <4>1. /\ j # i /\ steps[j].st = "PENDING" /\ steps[j].round = wf.round
            /\ steps'[j].round = wf.round /\ ~closing
        BY <3>2, <2>1, <2>5, <2>9 DEF SubmissionInv, NoOrphanStep
      <4>2. status # "APPROVED"
        <5> SUFFICES ASSUME status = "APPROVED" PROVE FALSE
          OBVIOUS
        <5>1. i[2] = None /\ wf.status = "WAITING_LEADER"
          BY <2>3, <2>10
        <5>2. j[2] = None
          BY <5>1, <4>1 DEF SubmissionInv, UnitsAgreedFirst
        <5> QED BY <5>1, <5>2, <4>1, <2>1 DEF SubmissionInv, AskedOncePerRound
      <4> QED BY <4>1, <4>2, <2>3 DEF Waiting
    <3> QED BY <3>1, <3>2
  <2>17. goesUp /\ ~crossed =>
           /\ wf.status = "WAITING_UNIT_HEAD"
           /\ \A j \in StepId : steps[j].round = q.round => j[2] # None
    BY <2>1, <2>3, <2>10 DEF SubmissionInv, RoundInOrder
  <2>18. AskedOncePerRound'
    <3> SUFFICES ASSUME ~crossed, NEW j \in StepId, NEW k \in StepId, j[2] = k[2],
                        steps'[j].round # 0, steps'[j].round = steps'[k].round
                 PROVE  j = k
      BY <2>8 DEF AskedOncePerRound
    <3>1. CASE ~goesUp
      BY <3>1, <2>5 DEF SubmissionInv, AskedOncePerRound
    <3>2. CASE goesUp
      <4>1. CASE j[1] = created + 1 /\ k[1] = created + 1
        BY <4>1, StepIsPair
      <4>2. CASE j[1] # created + 1 /\ k[1] # created + 1
        BY <4>2, <2>5 DEF SubmissionInv, AskedOncePerRound
      <4>3. ASSUME NEW a \in StepId, NEW b \in StepId, a[2] = b[2], a[1] = created + 1,
                   b[1] # created + 1, steps'[a].round # 0,
                   steps'[a].round = steps'[b].round
            PROVE  FALSE
        <5>1. steps'[b].round = steps[b].round
          BY <4>3, <2>5
        <5>2. CASE a[2] = None
          BY <4>3, <5>1, <5>2, <3>2, <2>5, <2>17
        <5>3. CASE a[2] # None
          BY <4>3, <5>3, <2>5, <2>6, <2>7 DEF NoStep
        <5> QED BY <5>2, <5>3
      <4> QED BY <4>1, <4>2, <4>3
    <3> QED BY <3>1, <3>2
  <2>19. UnitsAgreedFirst'
    <3> SUFFICES ASSUME ~crossed, status \in {"WAITING_LEADER"} \cup Closed,
                        NEW j \in StepId, steps'[j].round = wf.round, j[2] # None
                 PROVE  steps'[j].st \in {"APPROVED", "SKIPPED"}
      BY <2>4, <2>8 DEF UnitsAgreedFirst
    <3>1. steps[j].round = wf.round
      BY <2>5
    <3>2. CASE goesUp
      BY <3>1, <3>2, <2>1, <2>3, <2>5, <2>9, <2>11 DEF SubmissionInv, RoundInOrder
    <3>3. CASE ~goesUp
      <4>1. i[2] = None /\ wf.status = "WAITING_LEADER"
        BY <3>3, <2>3, <2>10 DEF Closed
      <4> QED BY <4>1, <3>1, <3>3, <2>5 DEF SubmissionInv, UnitsAgreedFirst
    <3> QED BY <3>2, <3>3
  <2>20. RoundsInOrder'
    BY <2>1, <2>4, <2>5, <2>8, <2>0, SubmissionAssumption
       DEF SubmissionInv, RoundsInOrder, TypeOK
  <2>21. RoundInOrder'
    <3> SUFFICES ASSUME ~crossed, status \in Waiting, NEW j \in StepId,
                        steps'[j].round = wf.round
                 PROVE  /\ steps'[j].st \in {"PENDING", "APPROVED", "SKIPPED"}
                        /\ status = "WAITING_UNIT_HEAD" => j[2] # None
      BY <2>4, <2>8 DEF RoundInOrder
    <3>1. i[2] # None /\ answer = "APPROVED" /\ wf.status = "WAITING_UNIT_HEAD"
      BY <2>3, <2>9, <2>10 DEF Waiting
    <3> QED BY <3>1, <2>1, <2>5 DEF SubmissionInv, RoundInOrder
  <2> QED BY <2>13, <2>14, <2>15, <2>16, <2>18, <2>19, <2>20, <2>21 DEF SubmissionInv
<1> QED BY <1>1, <1>2

\* The round of a submission that is sent again: only its request changes.
LEMMA ReadRoundPreserves ==
  ASSUME SubmissionInv, NEW s \in Slots, ReadRound(s) PROVE SubmissionInv'
<1>0. PICK p : p = [req[s] EXCEPT !.cmd = "submit-locked", !.round = wf.round]
  OBVIOUS
<1>1. req' = [req EXCEPT ![s] = p] /\ UNCHANGED <<wf, doc, steps, created, crossed>>
  BY <1>0 DEF ReadRound, SubmissionInv, TypeOK
<1>2. p \in Request /\ p.cmd = "submit-locked"
  BY <1>0 DEF SubmissionInv, TypeOK, Request
<1>3. Knows(p)'
  BY <1>2 DEF Knows
<1>4. /\ created' \in Nat /\ created <= created'
      /\ \A i \in StepId : i[1] <= created => steps'[i].round = steps[i].round
  BY <1>1, SubmissionAssumption DEF SubmissionInv, TypeOK
<1>5. crossed => crossed'
  BY <1>1
<1>6. req' \in [Slots -> Request] /\ RequestsKnow'
  BY <1>1, <1>2, <1>3, <1>4, <1>5, OthersKnow
<1> QED BY <1>1, <1>6, OnlyRequests

LEMMA NextPreserves == SubmissionInv /\ [Next]_vars => SubmissionInv'
<1> SUFFICES ASSUME SubmissionInv, [Next]_vars PROVE SubmissionInv'
  OBVIOUS
<1>1. CASE UNCHANGED vars
  <2>1. UNCHANGED <<wf, doc, steps, created, crossed>> /\ req' = req
    BY <1>1 DEF vars
  <2>2. req' \in [Slots -> Request] /\ RequestsKnow'
    BY <2>1 DEF SubmissionInv, TypeOK, RequestsKnow, Knows
  <2> QED BY <2>1, <2>2, OnlyRequests
<1>2. ASSUME NEW s \in Slots, CommitSubmit(s) PROVE SubmissionInv'
  <2>1. CASE Refused(s)
    BY <2>1, RefusedPreserves
  <2>2. CASE SubmitRound(s) /\ Ends(s) /\ CanSubmitFrom(wf.status)
    BY <2>2, SubmitPreserves DEF CanSubmitFrom, Waiting
  <2> QED BY <1>2, <2>1, <2>2 DEF CommitSubmit, CanSubmitFrom
<1>3. ASSUME NEW s \in Slots, Receive(s) \/ ReadRound(s) \/ Commit(s) PROVE SubmissionInv'
  BY <1>2, <1>3, ReceivePreserves, ReadRoundPreserves, DecidePreserves, WithdrawPreserves,
     OpenPreserves, AskReturnPreserves, DecideReturnPreserves, ReassignPreserves DEF Commit
<1> QED BY <1>1, <1>3 DEF Next

-----------------------------------------------------------------------------
\* The invariant, and the properties of the runs that are parts of it: they hold
\* whatever the units, their heads and the order in which requests come.
THEOREM SubmissionIsInvariant == Spec => []SubmissionInv
<1>1. Init => SubmissionInv
  BY InitEstablishes
<1>2. SubmissionInv /\ [Next]_vars => SubmissionInv'
  BY NextPreserves
<1> QED BY <1>1, <1>2, PTL DEF Spec

\* The workflow, its steps and its requests keep their types.
THEOREM SubmissionTypeCorrect == Spec => []TypeOK
<1>1. SubmissionInv => TypeOK
  BY DEF SubmissionInv
<1> QED BY <1>1, SubmissionIsInvariant, PTL

\* A waiting submission waits for somebody who can decide.
THEOREM SomebodyIsAsked == Spec => []WaitingHasPending
<1>1. SubmissionInv => WaitingHasPending
  BY DEF SubmissionInv
<1> QED BY <1>1, SubmissionIsInvariant, PTL

\* As long as no transaction uses a round that is no longer current, no round
\* leaves a step open behind it.
THEOREM NoStepIsOrphan == Spec => []NoOrphanStep
<1>1. SubmissionInv => NoOrphanStep
  BY DEF SubmissionInv
<1> QED BY <1>1, SubmissionIsInvariant, PTL

\* With the same proviso, a round asks each unit and the leader once.
THEOREM RoundsAskOnce == Spec => []AskedOncePerRound
<1>1. SubmissionInv => AskedOncePerRound
  BY DEF SubmissionInv
<1> QED BY <1>1, SubmissionIsInvariant, PTL

\* With the same proviso, the leader comes after every unit has agreed.
THEOREM UnitsComeFirst == Spec => []UnitsAgreedFirst
<1>1. SubmissionInv => UnitsAgreedFirst
  BY DEF SubmissionInv
<1> QED BY <1>1, SubmissionIsInvariant, PTL

\* With the same proviso, no step leaves an approval or a rejection.
THEOREM ApprovalIsFinal == Spec => FinalIsFinal
<1>1. SubmissionInv /\ [Next]_vars =>
        [wf.status \in Closed /\ ~crossed' => wf'.status = wf.status /\ doc' = doc]_vars
  <2> SUFFICES ASSUME SubmissionInv, Next, wf.status \in Closed, ~crossed'
               PROVE  wf'.status = wf.status /\ doc' = doc
    BY DEF vars
  <2>1. PICK s \in Slots : Receive(s) \/ ReadRound(s) \/ Commit(s)
    BY DEF Next
  <2>2. wf.status \notin Waiting /\ ~CanSubmitFrom(wf.status) /\ wf.status # "NONE"
    BY DEF Closed, Waiting, CanSubmitFrom
  <2>3. wf.status # req[s].status \/ req[s].cmd \notin {"decide", "withdraw"}
    BY <2>2 DEF SubmissionInv, RequestsKnow, Knows
  <2>4. CASE Refused(s) \/ CommitOpen(s) \/ CommitReassign(s)
    BY <2>4 DEF Refused, CommitOpen, CommitReassign, SubmissionInv, TypeOK
  <2>5. CASE CommitSubmit(s) \/ CommitDecide(s) \/ CommitWithdraw(s)
    BY <2>2, <2>3, <2>4, <2>5
       DEF CommitSubmit, CommitDecide, CommitWithdraw, Unmoved, StillWithdrawable
  <2>6. CASE CommitAskReturn(s)
    BY <2>4, <2>6 DEF CommitAskReturn, SubmissionInv, TypeOK
  <2>7. CASE CommitDecideReturn(s)
    <3>1. CASE ReturnStillAsked(req[s]) /\ req[s].choice = "ACCEPT"
      <4>1. ~crossed
        BY <3>1, <2>7 DEF CommitDecideReturn
      <4> QED BY <4>1, <3>1, <2>2, <2>7
              DEF CommitDecideReturn, ReturnStillAsked, SubmissionInv, RequestsKnow, Knows
    <3>2. CASE ReturnStillAsked(req[s]) /\ req[s].choice = "REFUSE"
      BY <3>2, <2>7 DEF CommitDecideReturn, SubmissionInv, TypeOK
    <3> QED BY <3>1, <3>2, <2>4, <2>7 DEF CommitDecideReturn
  <2>8. CASE ReadRound(s)
    BY <2>8 DEF ReadRound
  <2>9. CASE Receive(s)
    BY <2>9 DEF Receive, Remember, ReceiveSubmit, ReceiveWithdraw, ReceiveAskReturn,
                ReceiveOpen, ReceiveDecideReturn, ReceiveDecide, ReceiveReassign
  <2> QED BY <2>1, <2>4, <2>5, <2>6, <2>7, <2>8, <2>9 DEF Commit
<1> QED BY <1>1, SubmissionIsInvariant, PTL DEF Spec, FinalIsFinal

\* A step that was decided or skipped keeps its status and its round for ever.
THEOREM ClosedStepsStay == Spec => StepsAreFinal
<1> DEFINE Same(i) == steps'[i].st = steps[i].st /\ steps'[i].round = steps[i].round
           Final(i) == steps[i].st \notin {"NONE", "PENDING"}
<1>1. SubmissionInv /\ [Next]_vars => [\A i \in StepId : Final(i) => Same(i)]_vars
  <2> SUFFICES ASSUME SubmissionInv, Next, NEW i \in StepId, Final(i) PROVE Same(i)
    BY DEF vars
  <2>1. PICK s \in Slots : Receive(s) \/ ReadRound(s) \/ Commit(s)
    BY DEF Next
  <2>2. /\ steps \in [StepId -> Row] /\ i[1] # created + 1 /\ steps[i].st # "PENDING"
        /\ req[s] \in Request
    <3>1. i[1] \in Nat /\ created \in Nat /\ ~(i[1] > created)
      BY StepParts, SubmissionAssumption DEF SubmissionInv, TypeOK, NoStep
    <3>2. i[1] # created + 1
      BY <3>1, SMT
    <3> QED BY <3>2 DEF SubmissionInv, TypeOK
  <2>3. ASSUME NEW st \in [StepId -> Row], NEW r, st[i] = steps[i]
        PROVE  SkipPending(st, r)[i] = steps[i]
    BY <2>2, <2>3 DEF SkipPending
  <2>4. ASSUME NEW st \in [StepId -> Row], NEW stages, NEW r, NEW status, st[i] = steps[i]
        PROVE  NewSteps(st, stages, r, status)[i] = steps[i]
    BY <2>2, <2>4 DEF NewSteps
  <2>5. CASE steps' = steps
    BY <2>5
  <2>6. CASE SubmitRound(s)
    <3> DEFINE q == req[s]
               pending == PendingUnits(q.units)
               st == NewSteps(steps, q.units \ pending, q.round + 1, "SKIPPED")
    <3>1. q.round + 1 \in 0..MaxRound
      BY <2>6, <2>2, SubmissionAssumption DEF SubmitRound, Request
    <3>2. st \in [StepId -> Row] /\ st[i] = steps[i]
      BY <3>1, <2>2, <2>4, NewRows
    <3> HIDE DEF st
    <3> QED BY <3>2, <2>4, <2>6 DEF SubmitRound, st
  <2>7. CASE CommitDecide(s) /\ ~Refused(s)
    <3>1. req[s].step \in StepId /\ req[s].step # i
      BY <2>2, <2>7 DEF CommitDecide, StillPending, Request
    <3> DEFINE st == [steps EXCEPT ![req[s].step].st = StepStatus(req[s].choice)]
    <3>2. st \in [StepId -> Row] /\ st[i] = steps[i]
      BY <3>1, <2>2 DEF StepStatus, Row
    <3>3. \/ steps' = st
          \/ steps' = SkipPending(st, req[s].round)
          \/ steps' = NewSteps(st, {None}, req[s].round, "PENDING")
      BY <2>7 DEF CommitDecide
    <3> HIDE DEF st
    <3> QED BY <3>2, <3>3, <2>3, <2>4
  <2>8. CASE CommitReassign(s) /\ ~Refused(s)
    <3>1. req[s].step # i
      BY <2>2, <2>8 DEF CommitReassign, StillPending
    <3> QED BY <3>1, <2>2, <2>8 DEF CommitReassign
  <2>9. CASE steps' = SkipPending(steps, req[s].round)
    BY <2>2, <2>3, <2>9
  <2> QED BY <2>1, <2>5, <2>6, <2>7, <2>8, <2>9
          DEF Commit, CommitSubmit, CommitWithdraw, CommitDecideReturn, CommitOpen,
              CommitAskReturn, Refused, ReadRound, Receive, Remember, ReceiveSubmit,
              ReceiveWithdraw, ReceiveAskReturn, ReceiveOpen, ReceiveDecideReturn,
              ReceiveDecide, ReceiveReassign
<1> QED BY <1>1, SubmissionIsInvariant, PTL DEF Spec, StepsAreFinal

\* A new round starts without a decision, and a decision opens its round.
LEMMA UnopenedStays ==
  ASSUME SubmissionInv, UnopenedIsUndecided, [Next]_vars
  PROVE  UnopenedIsUndecided'
<1> SUFFICES ASSUME ~crossed', wf'.status \in Waiting, ~wf'.opened,
                    NEW i \in StepId, steps'[i].round = wf'.round,
                    steps'[i].st \notin {"NONE", "PENDING", "SKIPPED"}
             PROVE  FALSE
  BY DEF UnopenedIsUndecided, Decided
<1>0. /\ steps \in [StepId -> Row]
      /\ wf \in [status : Status, round : 0..MaxRound, opened : BOOLEAN, asked : 0..MaxRound]
  BY DEF SubmissionInv, TypeOK
<1>1. ASSUME ~crossed, wf' = wf \/ (wf'.status = wf.status /\ wf'.round = wf.round /\ wf'.opened = wf.opened),
             steps'[i].round = steps[i].round /\ steps'[i].st = steps[i].st
      PROVE  FALSE
  BY <1>1 DEF UnopenedIsUndecided, Decided
<1>2. ASSUME NEW s \in Slots, Refused(s) PROVE FALSE
  BY <1>1, <1>2 DEF Refused
<1>3. ASSUME NEW s \in Slots, SubmitRound(s) PROVE FALSE
  <2> DEFINE q == req[s]
             pending == PendingUnits(q.units)
             stages == IF pending = {} THEN {None} ELSE pending
             r == q.round + 1
             skipped == NewSteps(steps, q.units \ pending, r, "SKIPPED")
  <2>1. /\ steps' = NewSteps(skipped, stages, r, "PENDING")
        /\ wf'.round = r /\ ~crossed /\ q.round = wf.round
    BY <1>0, <1>3 DEF SubmitRound
  <2>2. r \in 0..MaxRound /\ wf.round \in Nat
    BY <1>0, <1>3, <2>1, SubmissionAssumption DEF SubmitRound
  <2>3. /\ skipped \in [StepId -> Row]
        /\ skipped[i] = steps[i] \/ skipped[i].st = "SKIPPED"
    BY <1>0, <2>2, NewRows
  <2>4. steps'[i] = skipped[i] \/ steps'[i].st = "PENDING"
    <3> HIDE DEF skipped, stages, r
    <3> QED BY <2>1, <2>2, <2>3, NewRows
  <2>5. steps'[i] = steps[i]
    BY <2>3, <2>4
  <2>6. steps[i].round \in Nat /\ steps[i].round <= wf.round
    BY <1>0, <2>1, SubmissionAssumption DEF SubmissionInv, RoundsInOrder, Row
  <2> QED BY <2>1, <2>2, <2>5, <2>6
<1>4. ASSUME NEW s \in Slots, CommitDecide(s) PROVE FALSE
  <2>1. wf'.opened = TRUE \/ Refused(s)
    BY <1>0, <1>4 DEF CommitDecide
  <2> QED BY <1>2, <2>1
<1>5. ASSUME NEW s \in Slots, CommitOpen(s) PROVE FALSE
  BY <1>0, <1>5 DEF CommitOpen
<1>6. ASSUME NEW s \in Slots, CommitWithdraw(s) PROVE FALSE
  <2>1. wf'.status = "DRAFT" \/ Refused(s)
    BY <1>0, <1>6 DEF CommitWithdraw
  <2> QED BY <1>2, <2>1 DEF Waiting
<1>7. ASSUME NEW s \in Slots, CommitDecideReturn(s) PROVE FALSE
  <2>1. \/ wf'.status = "DRAFT" \/ Refused(s)
        \/ wf' = [wf EXCEPT !.asked = 0] /\ UNCHANGED <<steps, crossed>>
    BY <1>0, <1>7 DEF CommitDecideReturn
  <2> QED BY <1>0, <1>1, <1>2, <2>1 DEF Waiting
<1>8. ASSUME NEW s \in Slots, CommitAskReturn(s) PROVE FALSE
  <2>1. Refused(s) \/ (wf' = [wf EXCEPT !.asked = wf.round] /\ UNCHANGED <<steps, crossed>>)
    BY <1>8 DEF CommitAskReturn
  <2> QED BY <1>0, <1>1, <1>2, <2>1
<1>9. ASSUME NEW s \in Slots, CommitReassign(s) PROVE FALSE
  <2>1. \/ Refused(s)
        \/ UNCHANGED <<wf, crossed>> /\ steps' = [steps EXCEPT ![req[s].step].approver = req[s].choice]
    BY <1>9 DEF CommitReassign
  <2>2. ASSUME UNCHANGED <<wf, crossed>>,
               steps' = [steps EXCEPT ![req[s].step].approver = req[s].choice]
        PROVE  FALSE
    <3>1. steps'[i].round = steps[i].round /\ steps'[i].st = steps[i].st
      BY <1>0, <2>2 DEF Row
    <3> QED BY <1>1, <2>2, <3>1
  <2> QED BY <1>2, <2>1, <2>2
<1>10. ASSUME NEW s \in Slots, Receive(s) \/ ReadRound(s) PROVE FALSE
  <2>1. UNCHANGED <<wf, steps, crossed>>
    BY <1>10 DEF Receive, ReadRound, Remember, ReceiveSubmit, ReceiveWithdraw, ReceiveAskReturn,
                 ReceiveOpen, ReceiveDecideReturn, ReceiveDecide, ReceiveReassign
  <2> QED BY <1>1, <2>1
<1>11. CASE UNCHANGED vars
  BY <1>1, <1>11 DEF vars
<1>12. CASE Next
  BY <1>2, <1>3, <1>4, <1>5, <1>6, <1>7, <1>8, <1>9, <1>10, <1>12 DEF Next, Commit, CommitSubmit
<1> QED BY <1>11, <1>12

\* With the same proviso, the author takes a submission back without asking only
\* when nobody has opened it and no step of its round is decided, although the
\* transaction looks at openedAt only: a decision has opened the round.
THEOREM WithdrawalIsUnseen == Spec => WithdrawnUnseen
<1>1. Init => UnopenedIsUndecided
  BY DEF Init, UnopenedIsUndecided, Waiting
<1>2. SubmissionInv /\ UnopenedIsUndecided /\ [Next]_vars => UnopenedIsUndecided'
  BY UnopenedStays
<1>3. SubmissionInv /\ UnopenedIsUndecided /\ [Next]_vars =>
        [wf.status \in Waiting /\ wf'.status = "DRAFT" /\ wf'.asked = wf.asked /\ ~crossed'
           => ~wf.opened /\ Decided(wf.round) = {}]_vars
  <2> SUFFICES ASSUME SubmissionInv, UnopenedIsUndecided, Next, wf.status \in Waiting,
                      wf'.status = "DRAFT", wf'.asked = wf.asked, ~crossed'
               PROVE  ~wf.opened /\ Decided(wf.round) = {}
    BY DEF vars
  <2>0. wf \in [status : Status, round : 0..MaxRound, opened : BOOLEAN, asked : 0..MaxRound]
    BY DEF SubmissionInv, TypeOK
  <2>1. PICK s \in Slots : Receive(s) \/ ReadRound(s) \/ Commit(s)
    BY DEF Next
  <2>2. wf'.status # wf.status
    BY DEF Waiting
  <2>3. ~Refused(s) /\ wf' # wf
    BY <2>2 DEF Refused
  <2>4. ~SubmitRound(s) /\ ~CommitOpen(s) /\ ~CommitReassign(s) /\ ~CommitAskReturn(s)
    BY <2>0, <2>2, <2>3 DEF SubmitRound, CommitOpen, CommitReassign, CommitAskReturn
  <2>5. ~CommitDecide(s)
    BY <2>0, <2>3 DEF CommitDecide, Outcome
  <2>6. ~CommitDecideReturn(s)
    BY <2>0, <2>2, <2>3 DEF CommitDecideReturn, ReturnStillAsked
  <2>7. ~Receive(s) /\ ~ReadRound(s)
    BY <2>3 DEF Receive, ReadRound, Remember, ReceiveSubmit, ReceiveWithdraw, ReceiveAskReturn,
                ReceiveOpen, ReceiveDecideReturn, ReceiveDecide, ReceiveReassign
  <2>8. CommitWithdraw(s)
    BY <2>1, <2>3, <2>4, <2>5, <2>6, <2>7 DEF Commit, CommitSubmit
  <2>9. ~wf.opened /\ ~crossed
    BY <2>3, <2>8 DEF CommitWithdraw, StillWithdrawable
  <2> QED BY <2>9 DEF UnopenedIsUndecided
<1> QED BY <1>1, <1>2, <1>3, SubmissionIsInvariant, PTL DEF Spec, WithdrawnUnseen

-----------------------------------------------------------------------------
(* The commands implement SubmissionProtocol.                              *)

\* What the protocol shows of every status, and who is asked when nothing waits.
LEMMA ShownIsDocument ==
  ASSUME NEW st \in Status
  PROVE  Protocol!ShownIn(PhaseOf(st)) = DocumentStatusFor(st)
  BY DEF Protocol!ShownIn, Protocol!InApproval, PhaseOf, DocumentStatusFor, Status, Waiting, Closed

\* Steps that leave the status, the round and the rows of the steps but for their
\* approvers are invisible.
LEMMA Invisible ==
  ASSUME wf'.status = wf.status, wf'.round = wf.round, doc' = doc,
         \A i \in StepId : steps'[i].round = steps[i].round /\ steps'[i].st = steps[i].st
  PROVE  UNCHANGED <<phaseBar, askedBar, doc>>
<1>1. Pending(wf.round)' = Pending(wf.round)
  BY DEF Pending
<1> QED
  BY <1>1 DEF phaseBar, askedBar

\* A submission asks exactly the stages for which it creates pending rows.
LEMMA SubmitIsSubmit ==
  ASSUME SubmissionInv, NEW s \in Slots, SubmitRound(s), CanSubmitFrom(wf.status), ~crossed'
  PROVE  Protocol!Submit
<1> DEFINE q == req[s]
           stages == AskedFirst(q)
           status == StatusAsked(q)
           r == q.round + 1
<1>0. /\ TypeOK
      /\ q \in Request /\ q.round \in Nat /\ wf.round \in Nat /\ wf.round = q.round /\ ~crossed
      /\ created \in Nat /\ created + 1 \in 1..MaxBatches
  <2>1. TypeOK
    BY DEF SubmissionInv
  <2>2. q \in Request /\ q.round \in Nat /\ wf.round \in Nat
    BY <2>1, SubmissionAssumption DEF TypeOK, Request
  <2>3. crossed' = (crossed \/ q.round # wf.round) /\ created < MaxBatches
    BY DEF SubmitRound
  <2>4. wf.round = q.round /\ ~crossed
    BY <2>3
  <2>5. created \in Nat /\ created + 1 \in 1..MaxBatches
    BY <2>1, <2>3, SubmissionAssumption DEF TypeOK
  <2> QED BY <2>1, <2>2, <2>4, <2>5
<1>1. /\ wf'.status = status /\ wf'.round = r /\ doc' = DocumentStatusFor(status)
      /\ \A i \in StepId :
           IF i[1] = created + 1 /\ i[2] \in stages
             THEN steps'[i].round = r /\ steps'[i].st = "PENDING"
             ELSE steps'[i].st = "SKIPPED" \/ steps'[i] = steps[i]
  BY <1>0, SubmitRows DEF SubmitEffect, TypeOK, Moves
<1>2. /\ stages # {} /\ stages \subseteq Stages /\ None \notin Units
      /\ \/ status = "WAITING_UNIT_HEAD" /\ stages \subseteq Units
         \/ status = "WAITING_LEADER" /\ stages = {None}
  BY <1>0, SubmissionAssumption DEF AskedFirst, StatusAsked, PendingUnits, Stages, Request
<1>3. \A i \in StepId : steps[i].st = "PENDING" => steps[i].round # r
  BY <1>0 DEF SubmissionInv, NoOrphanStep
<1> HIDE DEF stages, status, r
<1>4. \A i \in StepId : i \in Pending(wf.round)' <=> i[1] = created + 1 /\ i[2] \in stages
  BY <1>1, <1>3 DEF Pending
<1>5. \A u \in stages : <<created + 1, u>> \in StepId
  BY <1>0, <1>2 DEF StepId
<1>6. {i[2] : i \in Pending(wf.round)'} = stages
  <2>1. \A i \in Pending(wf.round)' : i \in StepId
    BY DEF Pending
  <2>2. \A i \in Pending(wf.round)' : i[2] \in stages
    BY <1>4, <2>1
  <2>3. ASSUME NEW u \in stages PROVE u \in {i[2] : i \in Pending(wf.round)'}
    <3>1. <<created + 1, u>> \in Pending(wf.round)'
      BY <1>4, <1>5
    <3> QED BY <3>1
  <2> QED BY <2>2, <2>3
<1>7. askedBar' = stages /\ phaseBar' = PhaseOf(status)
  BY <1>1, <1>2, <1>6 DEF askedBar, phaseBar, Waiting
<1>8. status \in Status
  BY <1>2 DEF Status, Waiting
<1>9. phaseBar \in {"draft", "returned"}
  BY DEF CanSubmitFrom, phaseBar, PhaseOf
<1>10. Protocol!Turns(PhaseOf(status), stages)
  BY <1>1, <1>7, <1>8, ShownIsDocument DEF Protocol!Turns
<1>11. CASE status = "WAITING_UNIT_HEAD"
  BY <1>2, <1>9, <1>10, <1>11 DEF Protocol!Submit, PhaseOf
<1>12. CASE status = "WAITING_LEADER"
  BY <1>2, <1>9, <1>10, <1>12 DEF Protocol!Submit, PhaseOf
<1> QED
  BY <1>2, <1>11, <1>12

\* A submission that leaves the approval without a new round asks nobody.
LEMMA NobodyAsked ==
  ASSUME NEW st \in Status \ Waiting, wf'.status = st, Moves(st)
  PROVE  Protocol!Turns(PhaseOf(st), {})
<1>1. askedBar' = {} /\ phaseBar' = PhaseOf(st) /\ doc' = DocumentStatusFor(st)
  BY DEF askedBar, phaseBar, Moves
<1> QED
  BY <1>1, ShownIsDocument DEF Protocol!Turns

\* A decision is the answer of one who is asked; the unit that agrees last sends
\* the submission up, and only the leader's step closes it.
LEMMA DecideIsAnswer ==
  ASSUME SubmissionInv, NEW s \in Slots, CommitDecide(s), ~Refused(s), ~crossed'
  PROVE  Protocol!Next
<1> DEFINE q == req[s]
           i == q.step
           othersWait == \E j \in Pending(q.round) : j # i /\ j[2] # None
           status == wf'.status
<1>0. TypeOK /\ DecideEffect(s)
  BY DecideRows DEF SubmissionInv
<1>1. /\ i \in StepId /\ i[2] \in Stages /\ i \in Pending(wf.round)
      /\ wf.status \in Waiting /\ wf.round = q.round /\ wf'.round = wf.round
      /\ Moves(status) /\ ~crossed /\ status \in Status
  BY <1>0, StepParts DEF DecideEffect, Pending
<1>2. i[2] \in askedBar
  BY <1>1 DEF askedBar
<1>3. phaseBar = IF i[2] = None THEN "leader" ELSE "units"
  BY <1>1 DEF SubmissionInv, UnitsAgreedFirst, RoundInOrder, Waiting, Pending, phaseBar, PhaseOf
<1>4. \A j \in Pending(wf.round) : j \in StepId /\ (j[2] = i[2] => j = i)
  <2>1. wf.round # 0
    BY <1>0 DEF DecideEffect, TypeOK
  <2> QED BY <1>1, <2>1 DEF SubmissionInv, AskedOncePerRound, Pending
<1>5. CASE status = "WAITING_UNIT_HEAD"
  <2>1. i[2] # None /\ othersWait
    BY <1>0, <1>5 DEF DecideEffect
  <2>2. Pending(wf.round)' = Pending(wf.round) \ {i}
    BY <1>0, <1>1, <1>5 DEF DecideEffect, Pending, StepStatus
  <2>3. askedBar' = askedBar \ {i[2]}
    BY <1>1, <1>4, <1>5, <2>2 DEF askedBar, Waiting
  <2>4. askedBar # {i[2]}
    BY <1>1, <1>4, <2>1 DEF askedBar
  <2>5. Protocol!Turns("units", askedBar \ {i[2]})
    BY <1>1, <1>5, <2>3, ShownIsDocument DEF Protocol!Turns, phaseBar, PhaseOf, Moves
  <2>6. i[2] \in Units
    BY <1>1, <2>1 DEF Stages
  <2>7. Protocol!Agree(i[2])
    BY <1>2, <1>3, <2>1, <2>4, <2>5 DEF Protocol!Agree
  <2> QED BY <2>6, <2>7 DEF Protocol!Next
<1>6. CASE status = "WAITING_LEADER"
  <2>1. /\ i[2] # None /\ ~othersWait /\ created \in Nat
        /\ created + 1 \in 1..MaxBatches
    BY <1>0, <1>6, SubmissionAssumption DEF DecideEffect, TypeOK
  <2>2. wf.status = "WAITING_UNIT_HEAD"
    BY <1>1, <1>3, <2>1 DEF Waiting, phaseBar, PhaseOf
  <2>3. Pending(wf.round) = {i}
    BY <1>1, <1>4, <2>1, <2>2 DEF SubmissionInv, RoundInOrder, Waiting, Pending
  <2>4. \A j \in StepId : j \in Pending(wf.round)' <=> j[1] = created + 1 /\ j[2] = None
    <3>1. \A j \in StepId : j # i => ~(steps[j].round = q.round /\ steps[j].st = "PENDING")
      BY <1>1, <2>3 DEF Pending
    <3> QED BY <1>0, <1>1, <1>6, <2>1, <3>1 DEF DecideEffect, Pending, StepStatus
  <2>5. <<created + 1, None>> \in StepId
    BY <2>1 DEF StepId, Stages
  <2>6. askedBar' = {None}
    <3>1. <<created + 1, None>> \in Pending(wf.round)'
      BY <2>4, <2>5
    <3>2. \A j \in Pending(wf.round)' : j[2] = None
      BY <2>4 DEF Pending
    <3>3. {j[2] : j \in Pending(wf.round)'} = {None}
      BY <3>1, <3>2
    <3> QED BY <1>6, <3>3 DEF askedBar, Waiting
  <2>7. askedBar = {i[2]}
    BY <1>1, <2>3 DEF askedBar
  <2>8. Protocol!Turns("leader", {None})
    BY <1>1, <1>6, <2>6, ShownIsDocument DEF Protocol!Turns, phaseBar, PhaseOf, Moves
  <2>9. i[2] \in Units
    BY <1>1, <2>1 DEF Stages
  <2>10. Protocol!Agree(i[2])
    BY <1>2, <1>3, <2>1, <2>7, <2>8 DEF Protocol!Agree
  <2> QED BY <2>9, <2>10 DEF Protocol!Next
<1>7. CASE status \in Closed
  <2>1. i[2] = None
    BY <1>0, <1>7 DEF DecideEffect, Closed
  <2>2. Protocol!Turns(PhaseOf(status), {})
    BY <1>1, <1>7, NobodyAsked DEF Closed, Waiting
  <2>3. PhaseOf(status) \in {"approved", "rejected"}
    BY <1>7 DEF PhaseOf, Closed
  <2>4. Protocol!Close
    BY <1>2, <1>3, <2>1, <2>2, <2>3 DEF Protocol!Close
  <2> QED BY <2>4 DEF Protocol!Next
<1>8. CASE status = "NEEDS_REVISION"
  <2>1. Protocol!Turns("returned", {})
    BY <1>1, <1>8, NobodyAsked DEF Waiting, PhaseOf
  <2>2. Protocol!SendBack
    BY <1>2, <1>3, <2>1 DEF Protocol!SendBack, Protocol!InApproval
  <2> QED BY <2>2 DEF Protocol!Next
<1> QED
  BY <1>0, <1>5, <1>6, <1>7, <1>8 DEF DecideEffect, Closed

\* A withdrawal, or the return that an approver accepts.
LEMMA DraftIsTakenBack ==
  ASSUME wf.status \in Waiting, wf'.status = "DRAFT", Moves("DRAFT")
  PROVE  Protocol!Next
<1>1. Protocol!Turns("draft", {})
  BY NobodyAsked DEF Status, Waiting, PhaseOf
<1>2. phaseBar \in Protocol!InApproval
  BY DEF phaseBar, PhaseOf, Waiting, Protocol!InApproval
<1> QED
  BY <1>1, <1>2 DEF Protocol!TakeBack, Protocol!Next

\* Every transaction is one step of the protocol, or invisible.
LEMMA ProtocolStep ==
  ASSUME SubmissionInv, [Next]_vars, ~crossed'
  PROVE  Protocol!Next \/ UNCHANGED <<phaseBar, askedBar, doc>>
<1> DEFINE Hidden == UNCHANGED <<phaseBar, askedBar, doc>>
<1>0. /\ steps \in [StepId -> Row]
      /\ wf \in [status : Status, round : 0..MaxRound, opened : BOOLEAN, asked : 0..MaxRound]
  BY DEF SubmissionInv, TypeOK
<1>1. ASSUME UNCHANGED <<wf, doc, steps>> PROVE Hidden
  BY <1>1, Invisible
<1>2. ASSUME NEW s \in Slots, Refused(s) PROVE Hidden
  BY <1>1, <1>2 DEF Refused
<1>3. ASSUME NEW s \in Slots, Receive(s) \/ ReadRound(s) PROVE Hidden
  BY <1>1, <1>3 DEF Receive, ReadRound, Remember, ReceiveSubmit, ReceiveWithdraw, ReceiveAskReturn,
                    ReceiveOpen, ReceiveDecideReturn, ReceiveDecide, ReceiveReassign
<1>4. ASSUME NEW s \in Slots, CommitSubmit(s) PROVE Protocol!Next \/ Hidden
  <2>1. CASE Refused(s)
    BY <2>1, <1>2
  <2>2. CASE ~Refused(s)
    <3>1. SubmitRound(s) /\ CanSubmitFrom(wf.status)
      BY <1>4, <2>2 DEF CommitSubmit, CanSubmitFrom
    <3> QED BY <3>1, SubmitIsSubmit DEF Protocol!Next
  <2> QED BY <2>1, <2>2
<1>5. ASSUME NEW s \in Slots, CommitDecide(s) PROVE Protocol!Next \/ Hidden
  BY <1>2, <1>5, DecideIsAnswer
<1>6. ASSUME NEW s \in Slots, CommitWithdraw(s) PROVE Protocol!Next \/ Hidden
  <2>1. CASE ~StillWithdrawable(req[s])
    BY <1>2, <1>6, <2>1 DEF CommitWithdraw
  <2>2. CASE StillWithdrawable(req[s])
    <3>1. wf.status \in Waiting
      BY <1>6, <2>2 DEF CommitWithdraw, StillWithdrawable, SubmissionInv, RequestsKnow, Knows
    <3>2. wf'.status = "DRAFT" /\ Moves("DRAFT")
      BY <1>0, <1>6, <2>2 DEF CommitWithdraw
    <3> QED BY <3>1, <3>2, DraftIsTakenBack
  <2> QED BY <2>1, <2>2
<1>7. ASSUME NEW s \in Slots, CommitDecideReturn(s) PROVE Protocol!Next \/ Hidden
  <2>1. CASE Refused(s)
    BY <1>2, <2>1
  <2>2. CASE wf' = [wf EXCEPT !.asked = 0] /\ UNCHANGED <<doc, steps>>
    BY <1>0, <2>2, Invisible
  <2>3. CASE /\ ReturnStillAsked(req[s])
             /\ wf' = [wf EXCEPT !.asked = 0, !.status = "DRAFT"] /\ Moves("DRAFT")
             /\ crossed' = (crossed \/ req[s].round # wf.round)
    <3>1. ~crossed
      BY <2>3
    <3>2. wf.status \in Waiting
      BY <1>7, <2>3, <3>1
         DEF CommitDecideReturn, ReturnStillAsked, SubmissionInv, RequestsKnow, Knows
    <3>3. wf'.status = "DRAFT"
      BY <1>0, <2>3
    <3> QED BY <2>3, <3>2, <3>3, DraftIsTakenBack
  <2> QED BY <1>7, <2>1, <2>2, <2>3, Zenon DEF CommitDecideReturn
<1>8. ASSUME NEW s \in Slots, CommitOpen(s) \/ CommitAskReturn(s) PROVE Hidden
  <2>1. CASE Refused(s)
    BY <1>2, <2>1
  <2>2. CASE ~Refused(s)
    <3>1. wf'.status = wf.status /\ wf'.round = wf.round /\ UNCHANGED <<doc, steps>>
      BY <1>0, <1>8, <2>2 DEF CommitOpen, CommitAskReturn
    <3> QED BY <3>1, Invisible
  <2> QED BY <2>1, <2>2
<1>9. ASSUME NEW s \in Slots, CommitReassign(s) PROVE Hidden
  <2>1. CASE Refused(s)
    BY <1>2, <2>1
  <2>2. CASE ~Refused(s)
    <3>1. /\ UNCHANGED <<wf, doc>>
          /\ steps' = [steps EXCEPT ![req[s].step].approver = req[s].choice]
      BY <1>9, <2>2 DEF CommitReassign
    <3>2. \A j \in StepId : steps'[j].round = steps[j].round /\ steps'[j].st = steps[j].st
      BY <1>0, <3>1 DEF Row
    <3> QED BY <3>1, <3>2, Invisible
  <2> QED BY <2>1, <2>2
<1>10. CASE UNCHANGED vars
  BY <1>1, <1>10 DEF vars
<1>11. CASE Next
  BY <1>3, <1>4, <1>5, <1>6, <1>7, <1>8, <1>9, <1>11, Zenon DEF Next, Commit
<1> QED
  BY <1>10, <1>11

\* Whatever requests overlap, the approval keeps the promise of SubmissionProtocol
\* until a transaction uses a round that is no longer current.
THEOREM ApprovalImplementsProtocol == Spec => ImplementsProtocol
<1>1. Init => Protocol!Init
  BY DEF Init, Protocol!Init, Protocol!ShownIn, Protocol!InApproval, phaseBar, askedBar,
         PhaseOf, Waiting
<1>2. SubmissionInv /\ [Next]_vars =>
        [Protocol!Next \/ crossed']_<<phaseBar, askedBar, doc>>
  BY ProtocolStep
<1> QED
  BY <1>1, <1>2, SubmissionIsInvariant, PTL DEF Spec, ImplementsProtocol
=============================================================================
