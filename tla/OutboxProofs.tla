---------------------------- MODULE OutboxProofs ----------------------------
(***************************************************************************)
(* Theorems about Outbox, for every set of events, loops and kicks, every  *)
(* retry limit and every batch limit.  None assumes that there is a single *)
(* loop, or that handlers are shorter than the lease: what needs one or    *)
(* the other is said of the rows that have it (Alone, Guarded), and        *)
(* OneProcess says which rows these are where one process is deployed.     *)
(*                                                                         *)
(*   BaseInv    types, reach and thresholds of every row;                  *)
(*   ChargeInv  attempts against handler starts, of every row;             *)
(*   LeaseInv   rows that are not slow;                                    *)
(*   AloneInv   rows that one cycle works on.                              *)
(***************************************************************************)
EXTENDS OutboxRefinement, TLAPS

USE OutboxAssumption DEF LastAttempt, NextAttempts

-----------------------------------------------------------------------------
(* Reach.                                                                  *)

\* Alone is a set of rows.
LEMMA AloneAreEvents == Alone \subseteq Events
  BY DEF Alone

\* Two cycles that reach a row that is alone are the same cycle.
LEMMA OneCycle ==
  ASSUME NEW e \in Alone, NEW v \in Workers, NEW w \in Workers,
         Reaches(v, e), Reaches(w, e)
  PROVE  v = w
  BY DEF Alone

\* A cycle reaches whatever it may be started for.
LEMMA ScopeReached ==
  ASSUME NEW w \in Workers, NEW scope \in Scopes(w)
  PROVE  scope \subseteq Events /\ \A e \in scope : Reaches(w, e)
  BY DEF Workers, Scopes, Reaches

-----------------------------------------------------------------------------
(* Every row.                                                              *)

\* The empty outbox, or legacy rows found in PROCESSING, satisfy BaseInv.
LEMMA BaseInit == Init => BaseInv
  BY DEF Init, BaseInv, TypeOK, AttemptLeft, CompletedWasDelivered,
         WithinReach, Status, Settled, Lease, Pc, Active, Idle

\* The two outcomes of the catch block.
FailureContext(w) ==
  /\ pc[w] = "error" /\ cur[w] \in Events
  /\ snap[w][cur[w]] \in 0..(MaxRetries - 1)

FailureOutcome(w) ==
  \/ snap[w][cur[w]] + 1 = MaxRetries /\ Settle(w, "FAILED", due[cur[w]])
  \/ snap[w][cur[w]] + 1 < MaxRetries /\ Settle(w, "PENDING", FALSE)

\* The catch block (outbox.ts:445) either quarantines the row or requeues it,
\* on the attempts that the worker read when it fetched its batch.
LEMMA FailureCases ==
  ASSUME BaseInv, NEW w \in Workers, RecordFailure(w)
  PROVE  FailureContext(w) /\ FailureOutcome(w)
<1>1. FailureContext(w)
  BY DEF BaseInv, TypeOK, WithinReach, RecordFailure, Active, FailureContext
<1>2. \/ snap[w][cur[w]] + 1 = MaxRetries /\ snap[w][cur[w]] + 1 >= MaxRetries
      \/ snap[w][cur[w]] + 1 < MaxRetries /\ ~(snap[w][cur[w]] + 1 >= MaxRetries)
  BY <1>1 DEF FailureContext
<1> QED
  BY <1>1, <1>2, Zenon DEF RecordFailure, FailureOutcome

\* No statement of any worker and no fault breaks BaseInv.
LEMMA BaseStep == BaseInv /\ [Next]_vars => BaseInv'
<1> SUFFICES ASSUME BaseInv, [Next]_vars PROVE BaseInv'
  OBVIOUS
<1> USE DEF BaseInv, TypeOK, AttemptLeft, WithinReach, CompletedWasDelivered, Status, Settled,
            Lease, Pc, Active, Idle, rowVars, workerVars, history
<1>1. ASSUME NEW e \in Events, Publish(e) PROVE BaseInv'
  BY <1>1 DEF Publish
<1>2. ASSUME NEW e \in Events, BackoffElapses(e) PROVE BaseInv'
  BY <1>2 DEF BackoffElapses
<1>3. ASSUME NEW e \in Events, LeaseExpires(e) PROVE BaseInv'
  BY <1>3 DEF LeaseExpires
<1>4. ASSUME NEW w \in Workers, NEW scope \in Scopes(w),
             RecoverDeadLetter(w, scope)
      PROVE  BaseInv'
  BY <1>4, ScopeReached DEF RecoverDeadLetter, Expired
<1>5. ASSUME NEW w \in Workers, RecoverRequeue(w) PROVE BaseInv'
  BY <1>5 DEF RecoverRequeue
<1>6. ASSUME NEW w \in Workers, FetchBatch(w) PROVE BaseInv'
  BY <1>6 DEF FetchBatch, Available
<1>7. ASSUME NEW w \in Workers, EndCycle(w) PROVE BaseInv'
  BY <1>7 DEF EndCycle
<1>8. ASSUME NEW w \in Workers, NEW e \in Events, Claim(w, e) PROVE BaseInv'
  BY <1>8 DEF Claim
<1>9. ASSUME NEW w \in Workers, NEW e \in Events, SkipClaimed(w, e) PROVE BaseInv'
  BY <1>9 DEF SkipClaimed
<1>10. ASSUME NEW w \in Workers, HandlerSucceeds(w) PROVE BaseInv'
  BY <1>10 DEF HandlerSucceeds
<1>11. ASSUME NEW w \in Workers, HandlerFails(w) PROVE BaseInv'
  BY <1>11 DEF HandlerFails
<1>12. ASSUME NEW w \in Workers, RecordSuccess(w) PROVE BaseInv'
  BY <1>12 DEF RecordSuccess, Settle
<1>13. ASSUME NEW w \in Workers, RecordSuccessFails(w) PROVE BaseInv'
  BY <1>13 DEF RecordSuccessFails
<1>14. ASSUME NEW w \in Workers, RecordFailure(w) PROVE BaseInv'
  <2>0. FailureContext(w) /\ FailureOutcome(w)
    BY <1>14, FailureCases, Zenon
  <2>1. CASE snap[w][cur[w]] + 1 = MaxRetries /\ Settle(w, "FAILED", due[cur[w]])
    BY <2>0, <2>1 DEF Settle, FailureContext
  <2>2. CASE snap[w][cur[w]] + 1 < MaxRetries /\ Settle(w, "PENDING", FALSE)
    BY <2>0, <2>2 DEF Settle, FailureContext
  <2> QED
    BY <2>0, <2>1, <2>2, Zenon DEF FailureOutcome
<1>15. ASSUME NEW w \in Workers, RecordFailureFails(w) PROVE BaseInv'
  BY <1>15 DEF RecordFailureFails, LoseMemory
<1>16. ASSUME NEW w \in Workers, Fault(w) PROVE BaseInv'
  BY <1>16 DEF Fault, LoseMemory
<1>17. CASE UNCHANGED vars
  BY <1>17 DEF vars
<1> QED
  BY <1>1, <1>2, <1>3, <1>4, <1>5, <1>6, <1>7, <1>8, <1>9, <1>10, <1>11,
     <1>12, <1>13, <1>14, <1>15, <1>16, <1>17 DEF Next, WorkerStep

\* Type correctness for every configuration: in particular attempts never
\* passes maxRetries, however many workers interleave.
THEOREM TypeCorrect == Spec => []TypeOK
<1>1. BaseInv => TypeOK
  BY DEF BaseInv
<1> QED
  BY BaseInit, BaseStep, <1>1, PTL DEF Spec

\* At-least-once, for every configuration: COMPLETED means delivered.
THEOREM AtLeastOnce == Spec => []CompletedWasDelivered
<1>1. BaseInv => CompletedWasDelivered
  BY DEF BaseInv
<1> QED
  BY BaseInit, BaseStep, <1>1, PTL DEF Spec

-----------------------------------------------------------------------------
(* What quarantine costs, of every row.                                    *)

\* No count is ahead of the handler starts in the beginning.
LEMMA ChargeInit == Init => ChargeInv
<1> SUFFICES ASSUME Init PROVE ChargesAreRuns /\ QuarantineIsEarned
  BY BaseInit DEF ChargeInv
<1> QED
  BY DEF Init, ChargesAreRuns, QuarantineIsEarned, Active, Idle

\* Every statement that charges a row has a start of its handler to show for it:
\* the recovery the start that was claimed, a settlement its own.
LEMMA ChargeStep ==
  ASSUME ChargeInv, [Next]_vars
  PROVE  ChargeInv'
<1>0. BaseInv'
  BY BaseStep DEF ChargeInv
<1> DEFINE Goal == ChargesAreRuns /\ QuarantineIsEarned
<1> SUFFICES Goal'
  BY <1>0 DEF ChargeInv
<1> USE DEF ChargeInv, BaseInv, WithinReach, ChargesAreRuns, QuarantineIsEarned, TypeOK,
            AttemptLeft, Active, Idle, rowVars, workerVars, history
<1>1. ASSUME NEW e \in Events, Publish(e) PROVE Goal'
  BY <1>1 DEF Publish
<1>2. ASSUME NEW e \in Events, BackoffElapses(e) PROVE Goal'
  BY <1>2 DEF BackoffElapses
<1>3. ASSUME NEW e \in Events, LeaseExpires(e) PROVE Goal'
  BY <1>3 DEF LeaseExpires
<1>4. ASSUME NEW w \in Workers, NEW scope \in Scopes(w),
             RecoverDeadLetter(w, scope)
      PROVE  Goal'
  BY <1>4, ScopeReached DEF RecoverDeadLetter, Expired
<1>5. ASSUME NEW w \in Workers, RecoverRequeue(w) PROVE Goal'
  BY <1>5 DEF RecoverRequeue
<1>6. ASSUME NEW w \in Workers, FetchBatch(w) PROVE Goal'
  BY <1>6 DEF FetchBatch, Available
<1>7. ASSUME NEW w \in Workers, EndCycle(w) PROVE Goal'
  BY <1>7 DEF EndCycle
<1>8. ASSUME NEW w \in Workers, NEW e \in Events, Claim(w, e) PROVE Goal'
  BY <1>8 DEF Claim
<1>9. ASSUME NEW w \in Workers, NEW e \in Events, SkipClaimed(w, e) PROVE Goal'
  BY <1>9 DEF SkipClaimed
<1>10. ASSUME NEW w \in Workers, HandlerSucceeds(w) PROVE Goal'
  BY <1>10 DEF HandlerSucceeds
<1>11. ASSUME NEW w \in Workers, HandlerFails(w) PROVE Goal'
  BY <1>11 DEF HandlerFails
<1>12. ASSUME NEW w \in Workers, RecordSuccess(w) PROVE Goal'
  BY <1>12 DEF RecordSuccess, Settle
<1>13. ASSUME NEW w \in Workers, RecordSuccessFails(w) PROVE Goal'
  BY <1>13 DEF RecordSuccessFails
<1>14. ASSUME NEW w \in Workers, RecordFailure(w) PROVE Goal'
  <2>0. FailureContext(w) /\ FailureOutcome(w)
    BY <1>14, FailureCases, Zenon
  <2>1. CASE snap[w][cur[w]] + 1 = MaxRetries /\ Settle(w, "FAILED", due[cur[w]])
    BY <2>0, <2>1 DEF Settle, FailureContext
  <2>2. CASE snap[w][cur[w]] + 1 < MaxRetries /\ Settle(w, "PENDING", FALSE)
    BY <2>0, <2>2 DEF Settle, FailureContext
  <2> QED
    BY <2>0, <2>1, <2>2, Zenon DEF FailureOutcome
<1>15. ASSUME NEW w \in Workers, RecordFailureFails(w) PROVE Goal'
  BY <1>15 DEF RecordFailureFails, LoseMemory
<1>16. ASSUME NEW w \in Workers, Fault(w) PROVE Goal'
  BY <1>16 DEF Fault, LoseMemory
<1>17. CASE UNCHANGED vars
  BY <1>17 DEF vars
<1> QED
  BY <1>1, <1>2, <1>3, <1>4, <1>5, <1>6, <1>7, <1>8, <1>9, <1>10, <1>11,
     <1>12, <1>13, <1>14, <1>15, <1>16, <1>17 DEF Next, WorkerStep

\* Whoever works on a row, and from however old a batch, it is given up only
\* after maxRetries starts of its handler.
THEOREM NothingIsGivenUpEarly == Spec => []QuarantineIsEarned
<1>1. ChargeInv /\ [Next]_vars => ChargeInv'
  BY ChargeStep
<1>2. ChargeInv => QuarantineIsEarned
  BY DEF ChargeInv
<1> QED
  BY ChargeInit, <1>1, <1>2, PTL DEF Spec

-----------------------------------------------------------------------------
(* Rows whose handler gives up before the lease does.                      *)

\* Nobody holds a row in the beginning.
LEMMA LeaseInit == Init => LeaseInv
  BY BaseInit DEF Init, LeaseInv, HeldIsFresh, Holds, Active, Idle

\* A claim finds such a row unheld: no recovery, of whichever cycle, can have
\* requeued it while it was held.
LEMMA LeaseStep ==
  ASSUME LeaseInv, [Next]_vars
  PROVE  LeaseInv'
<1>0. BaseInv'
  BY BaseStep DEF LeaseInv
<1> SUFFICES HeldIsFresh'
  BY <1>0 DEF LeaseInv
<1> USE DEF LeaseInv, BaseInv, HeldIsFresh, Holds, TypeOK, WithinReach, Active,
            Idle, rowVars, workerVars, history
<1>1. ASSUME NEW e \in Events, Publish(e) PROVE HeldIsFresh'
  BY <1>1 DEF Publish
<1>2. ASSUME NEW e \in Events, BackoffElapses(e) PROVE HeldIsFresh'
  BY <1>2 DEF BackoffElapses
<1>3. ASSUME NEW e \in Events, LeaseExpires(e) PROVE HeldIsFresh'
  BY <1>3 DEF LeaseExpires
<1>4. ASSUME NEW w \in Workers, NEW scope \in Scopes(w),
             RecoverDeadLetter(w, scope)
      PROVE  HeldIsFresh'
  BY <1>4, ScopeReached DEF RecoverDeadLetter, Expired
<1>5. ASSUME NEW w \in Workers, RecoverRequeue(w) PROVE HeldIsFresh'
  BY <1>5 DEF RecoverRequeue
<1>6. ASSUME NEW w \in Workers, FetchBatch(w) PROVE HeldIsFresh'
  BY <1>6 DEF FetchBatch, Available
<1>7. ASSUME NEW w \in Workers, EndCycle(w) PROVE HeldIsFresh'
  BY <1>7 DEF EndCycle
<1>8. ASSUME NEW w \in Workers, NEW e \in Events, Claim(w, e) PROVE HeldIsFresh'
  BY <1>8 DEF Claim
<1>9. ASSUME NEW w \in Workers, NEW e \in Events, SkipClaimed(w, e) PROVE HeldIsFresh'
  BY <1>9 DEF SkipClaimed
<1>10. ASSUME NEW w \in Workers, HandlerSucceeds(w) PROVE HeldIsFresh'
  BY <1>10 DEF HandlerSucceeds
<1>11. ASSUME NEW w \in Workers, HandlerFails(w) PROVE HeldIsFresh'
  BY <1>11 DEF HandlerFails
<1>12. ASSUME NEW w \in Workers, RecordSuccess(w) PROVE HeldIsFresh'
  BY <1>12 DEF RecordSuccess, Settle
<1>13. ASSUME NEW w \in Workers, RecordSuccessFails(w) PROVE HeldIsFresh'
  BY <1>13 DEF RecordSuccessFails
<1>14. ASSUME NEW w \in Workers, RecordFailure(w) PROVE HeldIsFresh'
  <2>0. FailureContext(w) /\ FailureOutcome(w)
    BY <1>14, FailureCases, Zenon
  <2>1. CASE snap[w][cur[w]] + 1 = MaxRetries /\ Settle(w, "FAILED", due[cur[w]])
    BY <2>0, <2>1 DEF Settle, FailureContext
  <2>2. CASE snap[w][cur[w]] + 1 < MaxRetries /\ Settle(w, "PENDING", FALSE)
    BY <2>0, <2>2 DEF Settle, FailureContext
  <2> QED
    BY <2>0, <2>1, <2>2, Zenon DEF FailureOutcome
<1>15. ASSUME NEW w \in Workers, RecordFailureFails(w) PROVE HeldIsFresh'
  BY <1>15 DEF RecordFailureFails, LoseMemory
<1>16. ASSUME NEW w \in Workers, Fault(w) PROVE HeldIsFresh'
  BY <1>16 DEF Fault, LoseMemory
<1>17. CASE UNCHANGED vars
  BY <1>17 DEF vars
<1> QED
  BY <1>1, <1>2, <1>3, <1>4, <1>5, <1>6, <1>7, <1>8, <1>9, <1>10, <1>11,
     <1>12, <1>13, <1>14, <1>15, <1>16, <1>17 DEF Next, WorkerStep

-----------------------------------------------------------------------------
(* Rows that one cycle works on.                                           *)

\* Every cycle starts with an empty memory.
LEMMA AloneInit == Init => AloneInv
<1> SUFFICES ASSUME Init PROVE MemoryIsCurrent /\ RunsArePaid
  BY BaseInit DEF AloneInv
<1> QED
  BY DEF Init, MemoryIsCurrent, RunsArePaid, Alone, Active, Idle

\* What the only cycle that reaches a row remembers of it stays true.
LEMMA AloneStep ==
  ASSUME AloneInv, [Next]_vars
  PROVE  AloneInv'
<1>0. BaseInv'
  BY BaseStep DEF AloneInv
<1> DEFINE Goal == MemoryIsCurrent /\ RunsArePaid
<1> SUFFICES Goal'
  BY <1>0 DEF AloneInv
<1> USE AloneAreEvents, OneCycle
    DEF AloneInv, BaseInv, WithinReach, MemoryIsCurrent, RunsArePaid,
            TypeOK, AttemptLeft, Active, Idle, rowVars, workerVars, history
<1>1. ASSUME NEW e \in Events, Publish(e) PROVE Goal'
  BY <1>1 DEF Publish
<1>2. ASSUME NEW e \in Events, BackoffElapses(e) PROVE Goal'
  BY <1>2 DEF BackoffElapses
<1>3. ASSUME NEW e \in Events, LeaseExpires(e) PROVE Goal'
  BY <1>3 DEF LeaseExpires
<1>4. ASSUME NEW w \in Workers, NEW scope \in Scopes(w),
             RecoverDeadLetter(w, scope)
      PROVE  Goal'
  BY <1>4, ScopeReached DEF RecoverDeadLetter, Expired
<1>5. ASSUME NEW w \in Workers, RecoverRequeue(w) PROVE Goal'
  BY <1>5 DEF RecoverRequeue
<1>6. ASSUME NEW w \in Workers, FetchBatch(w) PROVE Goal'
  BY <1>6 DEF FetchBatch, Available
<1>7. ASSUME NEW w \in Workers, EndCycle(w) PROVE Goal'
  BY <1>7 DEF EndCycle
<1>8. ASSUME NEW w \in Workers, NEW e \in Events, Claim(w, e) PROVE Goal'
  BY <1>8 DEF Claim
<1>9. ASSUME NEW w \in Workers, NEW e \in Events, SkipClaimed(w, e) PROVE Goal'
  BY <1>9 DEF SkipClaimed
<1>10. ASSUME NEW w \in Workers, HandlerSucceeds(w) PROVE Goal'
  BY <1>10 DEF HandlerSucceeds
<1>11. ASSUME NEW w \in Workers, HandlerFails(w) PROVE Goal'
  BY <1>11 DEF HandlerFails
<1>12. ASSUME NEW w \in Workers, RecordSuccess(w) PROVE Goal'
  BY <1>12 DEF RecordSuccess, Settle
<1>13. ASSUME NEW w \in Workers, RecordSuccessFails(w) PROVE Goal'
  BY <1>13 DEF RecordSuccessFails
<1>14. ASSUME NEW w \in Workers, RecordFailure(w) PROVE Goal'
  <2>0. FailureContext(w) /\ FailureOutcome(w)
    BY <1>14, FailureCases, Zenon
  <2>1. CASE snap[w][cur[w]] + 1 = MaxRetries /\ Settle(w, "FAILED", due[cur[w]])
    BY <2>0, <2>1 DEF Settle, FailureContext
  <2>2. CASE snap[w][cur[w]] + 1 < MaxRetries /\ Settle(w, "PENDING", FALSE)
    BY <2>0, <2>2 DEF Settle, FailureContext
  <2> QED
    BY <2>0, <2>1, <2>2, Zenon DEF FailureOutcome
<1>15. ASSUME NEW w \in Workers, RecordFailureFails(w) PROVE Goal'
  BY <1>15 DEF RecordFailureFails, LoseMemory
<1>16. ASSUME NEW w \in Workers, Fault(w) PROVE Goal'
  BY <1>16 DEF Fault, LoseMemory
<1>17. CASE UNCHANGED vars
  BY <1>17 DEF vars
<1> QED
  BY <1>1, <1>2, <1>3, <1>4, <1>5, <1>6, <1>7, <1>8, <1>9, <1>10, <1>11,
     <1>12, <1>13, <1>14, <1>15, <1>16, <1>17 DEF Next, WorkerStep

\* One process: the rows that no kick asks for are alone, however many kicks run
\* beside the loop.
THEOREM OneProcess ==
  ASSUME NEW loop, Timers = {loop}
  PROVE  Events \ Recordings \subseteq Alone
  BY DEF Alone, Workers, Reaches

-----------------------------------------------------------------------------
(* The claim, of every guarded row.                                        *)

\* The claim is exclusive: two live cycles are never between claim and
\* settlement of a row that is alone or whose handler is shorter than the lease.
THEOREM ClaimIsExclusive == Spec => []MutualExclusion
<1>1. LeaseInv /\ [Next]_vars => LeaseInv'
  BY LeaseStep
<1>2. LeaseInv => MutualExclusion
  BY OneCycle, AloneAreEvents
  DEF LeaseInv, BaseInv, HeldIsFresh, WithinReach, MutualExclusion, Guarded, Holds
<1> QED
  BY LeaseInit, <1>1, <1>2, PTL DEF Spec

\* A settling statement can only reach a guarded row that is still PROCESSING.
OwnersOnly ==
  \A w \in Workers :
    pc[w] \in Active /\ cur[w] \in Guarded => status[cur[w]] = "PROCESSING"

\* As long as cycles only hold rows in PROCESSING, settled rows do not change.
LEMMA FinalStep ==
  ASSUME BaseInv, OwnersOnly, [Next]_vars
  PROVE  \A e \in Guarded : status[e] \in Settled => status'[e] = status[e]
<1>0. Guarded \subseteq Events
  BY AloneAreEvents DEF Guarded
<1> DEFINE Goal == \A x \in Guarded : status[x] \in Settled => status'[x] = status[x]
<1> SUFFICES Goal
  OBVIOUS
<1> USE <1>0 DEF BaseInv, OwnersOnly, WithinReach, TypeOK, Settled, Active, Idle,
            rowVars, workerVars, history
<1>1. ASSUME NEW e \in Events, Publish(e) PROVE Goal
  BY <1>1 DEF Publish
<1>2. ASSUME NEW e \in Events, BackoffElapses(e) PROVE Goal
  BY <1>2 DEF BackoffElapses
<1>3. ASSUME NEW e \in Events, LeaseExpires(e) PROVE Goal
  BY <1>3 DEF LeaseExpires
<1>4. ASSUME NEW w \in Workers, NEW scope \in Scopes(w),
             RecoverDeadLetter(w, scope)
      PROVE  Goal
  BY <1>4, ScopeReached DEF RecoverDeadLetter, Expired
<1>5. ASSUME NEW w \in Workers, RecoverRequeue(w) PROVE Goal
  BY <1>5 DEF RecoverRequeue
<1>6. ASSUME NEW w \in Workers, FetchBatch(w) PROVE Goal
  BY <1>6 DEF FetchBatch, Available
<1>7. ASSUME NEW w \in Workers, EndCycle(w) PROVE Goal
  BY <1>7 DEF EndCycle
<1>8. ASSUME NEW w \in Workers, NEW e \in Events, Claim(w, e) PROVE Goal
  BY <1>8 DEF Claim
<1>9. ASSUME NEW w \in Workers, NEW e \in Events, SkipClaimed(w, e) PROVE Goal
  BY <1>9 DEF SkipClaimed
<1>10. ASSUME NEW w \in Workers, HandlerSucceeds(w) PROVE Goal
  BY <1>10 DEF HandlerSucceeds
<1>11. ASSUME NEW w \in Workers, HandlerFails(w) PROVE Goal
  BY <1>11 DEF HandlerFails
<1>12. ASSUME NEW w \in Workers, RecordSuccess(w) PROVE Goal
  BY <1>12 DEF RecordSuccess, Settle
<1>13. ASSUME NEW w \in Workers, RecordSuccessFails(w) PROVE Goal
  BY <1>13 DEF RecordSuccessFails
<1>14. ASSUME NEW w \in Workers, RecordFailure(w) PROVE Goal
  <2>0. FailureContext(w) /\ FailureOutcome(w)
    BY <1>14, FailureCases, Zenon
  <2>1. CASE snap[w][cur[w]] + 1 = MaxRetries /\ Settle(w, "FAILED", due[cur[w]])
    BY <2>0, <2>1 DEF Settle, FailureContext
  <2>2. CASE snap[w][cur[w]] + 1 < MaxRetries /\ Settle(w, "PENDING", FALSE)
    BY <2>0, <2>2 DEF Settle, FailureContext
  <2> QED
    BY <2>0, <2>1, <2>2, Zenon DEF FailureOutcome
<1>15. ASSUME NEW w \in Workers, RecordFailureFails(w) PROVE Goal
  BY <1>15 DEF RecordFailureFails, LoseMemory
<1>16. ASSUME NEW w \in Workers, Fault(w) PROVE Goal
  BY <1>16 DEF Fault, LoseMemory
<1>17. CASE UNCHANGED vars
  BY <1>17 DEF vars
<1> QED
  BY <1>1, <1>2, <1>3, <1>4, <1>5, <1>6, <1>7, <1>8, <1>9, <1>10, <1>11,
     <1>12, <1>13, <1>14, <1>15, <1>16, <1>17 DEF Next, WorkerStep

\* No cycle takes a settled row back, if the row is alone or its handler is
\* shorter than the lease.
THEOREM SettledStays == Spec => SettledIsFinal
<1>1. LeaseInv /\ AloneInv /\ [Next]_vars => LeaseInv' /\ AloneInv'
  BY LeaseStep, AloneStep
<1>2. LeaseInv /\ AloneInv => BaseInv /\ OwnersOnly
  BY DEF LeaseInv, AloneInv, BaseInv, WithinReach, HeldIsFresh, Holds, MemoryIsCurrent,
         Guarded, OwnersOnly
<1>3. LeaseInv /\ AloneInv /\ [Next]_vars =>
        [\A e \in Guarded : status[e] \in Settled => status'[e] = status[e]]_vars
  BY <1>2, FinalStep
<1> QED
  BY LeaseInit, AloneInit, <1>1, <1>3, PTL DEF Spec, SettledIsFinal

-----------------------------------------------------------------------------
(* The retry budget.                                                       *)

\* No handler starts more than maxRetries times for a row that one cycle works
\* on, whatever crashes and failed writes happen and whatever other cycles do
\* to other rows: the poison pill is quarantined.
THEOREM BudgetIsKept == Spec => []RetryBudget
<1>1. AloneInv /\ [Next]_vars => AloneInv'
  BY AloneStep
<1>2. AloneInv => RetryBudget
  BY AloneAreEvents DEF AloneInv, BaseInv, TypeOK, Status, Settled, AttemptLeft,
     RunsArePaid, RetryBudget
<1> QED
  BY AloneInit, <1>1, <1>2, PTL DEF Spec

-----------------------------------------------------------------------------
(* The backoff.                                                            *)

\* Only Claim takes a row from PENDING to PROCESSING, and nobody has moved the
\* row since the batch query found it due.
LEMMA BackoffStep ==
  ASSUME AloneInv, [Next]_vars
  PROVE  \A e \in Alone : status[e] = "PENDING" /\ status'[e] = "PROCESSING" => due[e]
<1> DEFINE Goal ==
      \A x \in Alone : status[x] = "PENDING" /\ status'[x] = "PROCESSING" => due[x]
<1> SUFFICES Goal
  OBVIOUS
<1> USE AloneAreEvents, OneCycle
    DEF AloneInv, BaseInv, WithinReach, MemoryIsCurrent, TypeOK, Active, rowVars
<1>1. ASSUME NEW w \in Workers, NEW e \in Events, Claim(w, e) PROVE Goal
  BY <1>1 DEF Claim
<1>2. ASSUME NEW w \in Workers, NEW scope \in Scopes(w), RecoverDeadLetter(w, scope)
      PROVE  Goal
  BY <1>2 DEF RecoverDeadLetter
<1>3. ASSUME NEW w \in Workers, RecoverRequeue(w) PROVE Goal
  BY <1>3 DEF RecoverRequeue
<1>4. ASSUME NEW w \in Workers, RecordSuccess(w) PROVE Goal
  BY <1>4 DEF RecordSuccess, Settle
<1>5. ASSUME NEW w \in Workers, RecordFailure(w) PROVE Goal
  <2>0. FailureContext(w) /\ FailureOutcome(w)
    BY <1>5, FailureCases, Zenon DEF AloneInv
  <2>1. CASE Settle(w, "FAILED", due[cur[w]])
    BY <2>0, <2>1 DEF Settle, FailureContext
  <2>2. CASE Settle(w, "PENDING", FALSE)
    BY <2>0, <2>2 DEF Settle, FailureContext
  <2> QED
    BY <2>0, <2>1, <2>2, Zenon DEF FailureOutcome
<1>6. ASSUME NEW e \in Events, Publish(e) PROVE Goal
  BY <1>6 DEF Publish
<1>7. CASE UNCHANGED status
  BY <1>7
<1> QED
  BY <1>1, <1>2, <1>3, <1>4, <1>5, <1>6, <1>7
  DEF Next, WorkerStep, BackoffElapses, LeaseExpires, FetchBatch, EndCycle,
      SkipClaimed, HandlerSucceeds, HandlerFails, RecordSuccessFails,
      RecordFailureFails, Fault, LoseMemory, vars

\* A failed row that one cycle works on is never claimed before its backoff has
\* passed, although the claim itself does not look at availableAt.
THEOREM BackoffIsRespected == Spec => BackoffRespected
<1>1. AloneInv /\ [Next]_vars => AloneInv'
  BY AloneStep
<1>2. AloneInv /\ [Next]_vars =>
        [\A e \in Alone :
           status[e] = "PENDING" /\ status'[e] = "PROCESSING" => due[e]]_vars
  BY BackoffStep
<1> QED
  BY AloneInit, <1>1, <1>2, PTL DEF Spec, BackoffRespected

-----------------------------------------------------------------------------
(* The promise, for the rows that one cycle works on.                      *)

Lost(S) ==
  /\ \A e \in S : status[e] = "PROCESSING" /\ attempts[e] < MaxRetries
  /\ \A e \in Events \ S : status'[e] = status[e] /\ attempts'[e] = attempts[e]
  /\ \A e \in S :
       /\ attempts'[e] = attempts[e] + 1
       /\ IF attempts[e] + 1 = MaxRetries THEN status'[e] = "FAILED"
                                          ELSE status'[e] = "PENDING"
  /\ delivered' = delivered

\* A recovery statement, or a recorded failure, is a missed attempt of those of
\* its rows that are alone.
LEMMA LostIsMiss ==
  ASSUME TypeOK, NEW S \in SUBSET Events, Lost(S)
  PROVE  Delivery!Miss(S \cap Alone) /\ S \cap Alone \in SUBSET Alone
<1> USE AloneAreEvents
<1>1. \A e \in S \cap Alone : stateBar[e] = "waiting" /\ budgetBar[e] > 0
  BY DEF TypeOK, Lost, stateBar, budgetBar, StateOf
<1>2. stateBar' = [e \in Alone |->
                    IF e \in S \cap Alone /\ budgetBar[e] = 1 THEN "dead" ELSE stateBar[e]]
  BY DEF TypeOK, Lost, stateBar, budgetBar, StateOf
<1>3. budgetBar' = [e \in Alone |->
                     IF e \in S \cap Alone THEN budgetBar[e] - 1 ELSE budgetBar[e]]
  <2>1. ASSUME NEW x \in Alone
        PROVE  MaxRetries - attempts'[x] =
                 IF x \in S THEN (MaxRetries - attempts[x]) - 1
                            ELSE MaxRetries - attempts[x]
    <3>1. attempts[x] \in Nat /\ attempts'[x] = IF x \in S THEN attempts[x] + 1 ELSE attempts[x]
      BY DEF TypeOK, Lost
    <3> QED
      BY <3>1
  <2> QED
    BY <2>1 DEF budgetBar
<1>4. UNCHANGED effectBar
  BY DEF Lost, effectBar
<1> QED
  BY <1>1, <1>2, <1>3, <1>4 DEF Delivery!Miss

\* Steps that no publisher can see.
LEMMA Invisible ==
  ASSUME BaseInv, UNCHANGED <<attempts, delivered>>,
         \/ UNCHANGED status
         \/ \E e \in Events : status[e] = "PENDING" /\ status' = [status EXCEPT ![e] = "PROCESSING"]
  PROVE  UNCHANGED <<stateBar, budgetBar, effectBar>>
<1>1. UNCHANGED <<budgetBar, effectBar>>
  BY DEF budgetBar, effectBar
<1>2. ASSUME NEW x \in Alone PROVE StateOf(status'[x]) = StateOf(status[x])
  <2>1. CASE UNCHANGED status
    BY <2>1
  <2>2. ASSUME NEW e \in Events, status[e] = "PENDING",
               status' = [status EXCEPT ![e] = "PROCESSING"]
        PROVE  StateOf(status'[x]) = StateOf(status[x])
    <3>1. status'[x] = IF x = e THEN "PROCESSING" ELSE status[x]
      BY <2>2, AloneAreEvents DEF BaseInv, TypeOK
    <3> QED
      BY <2>2, <3>1 DEF StateOf
  <2> QED
    BY <2>1, <2>2
<1>3. UNCHANGED stateBar
  BY <1>2 DEF stateBar
<1> QED
  BY <1>1, <1>3

\* A statement about a row that several cycles work on is outside the promise.
LEMMA Elsewhere ==
  ASSUME NEW e, e \notin Alone,
         \A x \in Alone : x # e =>
           status'[x] = status[x] /\ attempts'[x] = attempts[x] /\ delivered'[x] = delivered[x]
  PROVE  UNCHANGED <<stateBar, budgetBar, effectBar>>
  BY DEF stateBar, budgetBar, effectBar

\* The COMPLETED update of a row that is alone completes it.
LEMMA SuccessIsComplete ==
  ASSUME BaseInv, MemoryIsCurrent, NEW w \in Workers, pc[w] = "complete", cur[w] \in Alone,
         status' = [status EXCEPT ![cur[w]] = "COMPLETED"],
         attempts' = [attempts EXCEPT ![cur[w]] = snap[w][cur[w]] + 1],
         UNCHANGED delivered
  PROVE  Delivery!Complete(cur[w])
<1> DEFINE e == cur[w]
<1> USE AloneAreEvents
<1>1. /\ status[e] = "PROCESSING" /\ snap[w][e] = attempts[e]
      /\ delivered[e] /\ attempts[e] < MaxRetries
  BY DEF BaseInv, MemoryIsCurrent, AttemptLeft, Active
<1>2. stateBar[e] = "waiting" /\ budgetBar[e] > 0 /\ effectBar[e]
  BY <1>1 DEF BaseInv, TypeOK, stateBar, budgetBar, effectBar, StateOf
<1>3. stateBar' = [stateBar EXCEPT ![e] = "done"]
  BY DEF BaseInv, TypeOK, stateBar, StateOf
<1>4. budgetBar' = [budgetBar EXCEPT ![e] = @ - 1]
  <2>1. ASSUME NEW x \in Alone
        PROVE  MaxRetries - attempts'[x] =
                 IF x = e THEN (MaxRetries - attempts[x]) - 1 ELSE MaxRetries - attempts[x]
    <3>1. attempts'[x] = IF x = e THEN attempts[x] + 1 ELSE attempts[x]
      BY <1>1 DEF BaseInv, TypeOK
    <3>2. attempts[x] \in Nat
      BY DEF BaseInv, TypeOK
    <3> QED
      BY <3>1, <3>2
  <2> QED
    BY <2>1 DEF budgetBar
<1>5. UNCHANGED effectBar
  BY DEF effectBar
<1> QED
  BY <1>2, <1>3, <1>4, <1>5 DEF Delivery!Complete

\* The catch block charges a row that is alone one attempt.
LEMMA FailureIsMiss ==
  ASSUME BaseInv, MemoryIsCurrent, NEW w \in Workers, cur[w] \in Alone,
         FailureContext(w), FailureOutcome(w)
  PROVE  Delivery!Miss({cur[w]}) /\ {cur[w]} \in SUBSET Alone
<1>0. TypeOK /\ cur[w] \in Events
  BY DEF BaseInv, FailureContext
<1>1. /\ status[cur[w]] = "PROCESSING" /\ attempts[cur[w]] < MaxRetries
      /\ snap[w][cur[w]] = attempts[cur[w]]
  BY <1>0 DEF FailureContext, BaseInv, MemoryIsCurrent, AttemptLeft, Active
<1>2. ASSUME snap[w][cur[w]] + 1 = MaxRetries /\ Settle(w, "FAILED", due[cur[w]])
      PROVE  Lost({cur[w]})
  BY <1>0, <1>1, <1>2 DEF Settle, Lost, TypeOK, history
<1>3. ASSUME snap[w][cur[w]] + 1 < MaxRetries /\ Settle(w, "PENDING", FALSE)
      PROVE  Lost({cur[w]})
  BY <1>0, <1>1, <1>3 DEF Settle, Lost, TypeOK, history
<1>4. Lost({cur[w]})
  BY <1>2, <1>3, Zenon DEF FailureOutcome
<1>5. Delivery!Miss({cur[w]} \cap Alone)
  BY <1>0, <1>4, LostIsMiss
<1>6. {cur[w]} \cap Alone = {cur[w]}
  OBVIOUS
<1> QED
  BY <1>5, <1>6

\* Every step of the outbox is a step of its promise, or a stutter.
LEMMA RefinementStep ==
  ASSUME AloneInv, [Next]_vars
  PROVE  [Delivery!Next]_(Delivery!vars)
<1> DEFINE Goal == Delivery!Next \/ UNCHANGED <<stateBar, budgetBar, effectBar>>
<1> SUFFICES Goal
  BY DEF Delivery!vars
<1>0. BaseInv /\ TypeOK /\ AttemptLeft /\ WithinReach /\ MemoryIsCurrent
  BY DEF AloneInv, BaseInv
<1> USE AloneAreEvents DEF rowVars, workerVars, history, Active
<1>1. ASSUME NEW e \in Events, Publish(e) PROVE Goal
  <2>1. CASE e \in Alone
    <3>1. stateBar[e] = "absent" /\ stateBar' = [stateBar EXCEPT ![e] = "waiting"]
      BY <1>0, <1>1, <2>1, AloneAreEvents DEF Publish, TypeOK, stateBar, StateOf
    <3>2. UNCHANGED <<budgetBar, effectBar>>
      BY <1>1 DEF Publish, budgetBar, effectBar
    <3> QED
      BY <2>1, <3>1, <3>2 DEF Delivery!Accept, Delivery!Next
  <2>2. CASE e \notin Alone
    BY <1>0, <1>1, <2>2, Elsewhere DEF Publish, TypeOK
  <2> QED
    BY <2>1, <2>2
<1>2. ASSUME NEW e \in Events, BackoffElapses(e) PROVE Goal
  BY <1>0, <1>2, Invisible DEF BackoffElapses
<1>3. ASSUME NEW e \in Events, LeaseExpires(e) PROVE Goal
  BY <1>0, <1>3, Invisible DEF LeaseExpires
<1>4. ASSUME NEW w \in Workers, NEW scope \in Scopes(w),
             RecoverDeadLetter(w, scope)
      PROVE  Goal
  <2> DEFINE dead == {e \in scope : Expired(e) /\ attempts[e] + 1 >= MaxRetries}
  <2>0. scope \subseteq Events
    BY ScopeReached
  <2>1. Lost(dead)
    BY <1>0, <1>4, <2>0 DEF RecoverDeadLetter, Lost, Expired, TypeOK, AttemptLeft
  <2>2. Delivery!Miss(dead \cap Alone)
    BY <1>0, <2>0, <2>1, LostIsMiss
  <2> QED
    BY <2>2 DEF Delivery!Next
<1>5. ASSUME NEW w \in Workers, RecoverRequeue(w) PROVE Goal
  <2> DEFINE back == {e \in stale[w] : status[e] = "PROCESSING"}
  <2>0. back \subseteq Events
    BY <1>0 DEF TypeOK
  <2>1. Lost(back)
    BY <1>0, <1>5 DEF RecoverRequeue, Lost, TypeOK, AttemptLeft
  <2>2. Delivery!Miss(back \cap Alone)
    BY <1>0, <2>0, <2>1, LostIsMiss
  <2> QED
    BY <2>2 DEF Delivery!Next
<1>6. ASSUME NEW w \in Workers, FetchBatch(w) PROVE Goal
  BY <1>0, <1>6, Invisible DEF FetchBatch
<1>7. ASSUME NEW w \in Workers, EndCycle(w) PROVE Goal
  BY <1>0, <1>7, Invisible DEF EndCycle
<1>8. ASSUME NEW w \in Workers, NEW e \in Events, Claim(w, e) PROVE Goal
  BY <1>0, <1>8, Invisible DEF Claim
<1>9. ASSUME NEW w \in Workers, NEW e \in Events, SkipClaimed(w, e) PROVE Goal
  BY <1>0, <1>9, Invisible DEF SkipClaimed
<1>10. ASSUME NEW w \in Workers, HandlerSucceeds(w) PROVE Goal
  <2>0. cur[w] \in Events
    BY <1>0, <1>10 DEF HandlerSucceeds, WithinReach
  <2>1. CASE cur[w] \in Alone
    <3>1. stateBar[cur[w]] = "waiting"
      BY <1>0, <1>10, <2>1 DEF HandlerSucceeds, MemoryIsCurrent, stateBar, StateOf
    <3>2. effectBar' = [effectBar EXCEPT ![cur[w]] = TRUE]
      BY <1>0, <1>10, <2>0, <2>1, AloneAreEvents DEF HandlerSucceeds, effectBar, TypeOK
    <3>3. UNCHANGED <<stateBar, budgetBar>>
      BY <1>10 DEF HandlerSucceeds, stateBar, budgetBar
    <3> QED
      BY <2>1, <3>1, <3>2, <3>3 DEF Delivery!Deliver, Delivery!Next
  <2>2. CASE cur[w] \notin Alone
    BY <1>0, <1>10, <2>0, <2>2, Elsewhere DEF HandlerSucceeds, TypeOK
  <2> QED
    BY <2>1, <2>2
<1>11. ASSUME NEW w \in Workers, HandlerFails(w) PROVE Goal
  BY <1>0, <1>11, Invisible DEF HandlerFails
<1>12. ASSUME NEW w \in Workers, RecordSuccess(w) PROVE Goal
  <2> DEFINE e == cur[w]
  <2>0. e \in Events /\ delivered[e]
    BY <1>0, <1>12 DEF RecordSuccess, WithinReach, BaseInv
  <2>1. /\ status' = [status EXCEPT ![e] = "COMPLETED"]
        /\ attempts' = [attempts EXCEPT ![e] = snap[w][e] + 1]
        /\ UNCHANGED delivered
    BY <1>12 DEF RecordSuccess, Settle
  <2>2. CASE e \in Alone
    BY <1>0, <1>12, <2>0, <2>1, <2>2, SuccessIsComplete DEF RecordSuccess, Delivery!Next
  <2>3. CASE e \notin Alone
    BY <1>0, <2>0, <2>1, <2>3, Elsewhere DEF TypeOK
  <2> QED
    BY <2>2, <2>3
<1>13. ASSUME NEW w \in Workers, RecordSuccessFails(w) PROVE Goal
  BY <1>0, <1>13, Invisible DEF RecordSuccessFails
<1>14. ASSUME NEW w \in Workers, RecordFailure(w) PROVE Goal
  <2>0. FailureContext(w) /\ FailureOutcome(w)
    BY <1>0, <1>14, FailureCases
  <2>1. cur[w] \in Events
    BY <2>0 DEF FailureContext
  <2>2. CASE cur[w] \in Alone
    BY <1>0, <2>0, <2>2, FailureIsMiss DEF Delivery!Next
  <2>3. ASSUME cur[w] \notin Alone, NEW st, NEW isDue, Settle(w, st, isDue)
        PROVE  Goal
    BY <1>0, <2>1, <2>3, Elsewhere DEF Settle, TypeOK
  <2> QED
    BY <2>0, <2>2, <2>3, Zenon DEF FailureOutcome
<1>15. ASSUME NEW w \in Workers, RecordFailureFails(w) PROVE Goal
  BY <1>0, <1>15, Invisible DEF RecordFailureFails, LoseMemory
<1>16. ASSUME NEW w \in Workers, Fault(w) PROVE Goal
  BY <1>0, <1>16, Invisible DEF Fault, LoseMemory
<1>17. CASE UNCHANGED vars
  BY <1>0, <1>17, Invisible DEF vars
<1> QED
  BY <1>1, <1>2, <1>3, <1>4, <1>5, <1>6, <1>7, <1>8, <1>9, <1>10, <1>11,
     <1>12, <1>13, <1>14, <1>15, <1>16, <1>17 DEF Next, WorkerStep

\* Beside any number of other cycles, the rows that one cycle works on are
\* delivered as the outbox promises.
THEOREM AloneImplementsDelivery == Spec => ImplementsDelivery
<1>1. Init => Delivery!Init
  <2> SUFFICES ASSUME Init PROVE Delivery!Init
    OBVIOUS
  <2>1. stateBar \in [Alone -> {"absent", "waiting"}]
    BY AloneAreEvents DEF Init, stateBar, StateOf
  <2>2. budgetBar = [e \in Alone |-> MaxRetries]
    BY AloneAreEvents DEF Init, budgetBar
  <2>3. effectBar = [e \in Alone |-> FALSE]
    BY AloneAreEvents DEF Init, effectBar
  <2> QED
    BY <2>1, <2>2, <2>3 DEF Delivery!Init
<1>2. AloneInv /\ [Next]_vars => AloneInv'
  BY AloneStep
<1>3. AloneInv /\ [Next]_vars => [Delivery!Next]_(Delivery!vars)
  BY RefinementStep
<1> QED
  BY AloneInit, <1>1, <1>2, <1>3, PTL DEF Spec, ImplementsDelivery, Delivery!Spec

=============================================================================
