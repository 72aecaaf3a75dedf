------------------------- MODULE IdempotencyProofs -------------------------
(***************************************************************************)
(* For any set of requests, payloads and pollers: IdempotencyInv is        *)
(* inductive, so a cached response is always faithful, and requests that   *)
(* race on a new key execute fn once; requests in turn execute it at most  *)
(* once as long as the row does not expire.                                *)
(***************************************************************************)
EXTENDS Idempotency, FiniteSetTheorems, TLAPS

USE DEF PendingRow, Polling

\* The invariant holds before any request has come.
LEMMA InitEstablishes == Init => IdempotencyInv
<1> SUFFICES ASSUME Init PROVE IdempotencyInv
  OBVIOUS
<1>1. TypeOK
  BY DEF Init, TypeOK, Running, Terminated
<1>2. /\ CacheIsReal /\ RunningHaveStarted /\ RowIsThere /\ StartedHaveBodies
      /\ IdleIsUnanswered /\ NobodyResets
  BY DEF Init, CacheIsReal, RunningHaveStarted, RowIsThere, StartedHaveBodies,
         IdleIsUnanswered, NobodyResets, Running
<1>3. OneWinner /\ ReplayIsFaithful
  BY DEF Init, OneWinner, ReplayIsFaithful
<1> QED BY <1>1, <1>2, <1>3 DEF IdempotencyInv

\* A request that takes the cached response takes that of a request that succeeded
\* with the same body: the code of resolveCompletedRecord, wherever it is called.
LEMMA ResolveIsFaithful ==
  ASSUME IdempotencyInv, NEW r \in Requests, NEW b,
         Live("COMPLETED"), Resolve(r, b)
  PROVE  /\ pc' = [pc EXCEPT ![r] = pc'[r]] /\ pc'[r] \in {"answered", "conflict"}
         /\ answer' = [answer EXCEPT ![r] = answer'[r]]
         /\ \/ answer'[r] = answer[r]
            \/ answer'[r] \in succeeded /\ body[answer'[r]] = b
  BY DEF IdempotencyInv, TypeOK, CacheIsReal, Live, Resolve, Go

\* The insert: with no row nobody has started, so the winner is the first.
LEMMA CreatePreserves ==
  ASSUME IdempotencyInv, NEW r \in Requests, Create(r) PROVE IdempotencyInv'
<1> USE IdempotencyAssumption DEF IdempotencyInv, TypeOK, Create, Go
<1>1. CASE rec.status = "NONE"
  <2>1. TypeOK'
    <3>1. rec' = [status |-> "PENDING", live |-> TRUE, by |-> None]
      BY <1>1
    <3>2. /\ pc' = [pc EXCEPT ![r] = "run"] /\ started' = started \cup {r}
          /\ UNCHANGED <<body, answer, succeeded, failed, expired>>
      BY <1>1
    <3> QED BY <3>1, <3>2 DEF Running
  <2>2. CacheIsReal' /\ RowIsThere' /\ RunningHaveStarted' /\ StartedHaveBodies'
    BY <1>1 DEF CacheIsReal, RowIsThere, RunningHaveStarted, StartedHaveBodies, Running
  <2>3. IdleIsUnanswered' /\ ReplayIsFaithful'
    BY <1>1 DEF IdleIsUnanswered, ReplayIsFaithful
  <2>4. NobodyResets' /\ OneWinner'
    BY <1>1 DEF NobodyResets, OneWinner
  <2> QED BY <2>1, <2>2, <2>3, <2>4
<1>2. CASE rec.status # "NONE"
  <2>1. TypeOK'
    BY <1>2
  <2>2. CacheIsReal' /\ RowIsThere' /\ RunningHaveStarted' /\ StartedHaveBodies'
    BY <1>2 DEF CacheIsReal, RowIsThere, RunningHaveStarted, StartedHaveBodies, Running
  <2>3. IdleIsUnanswered' /\ ReplayIsFaithful'
    BY <1>2 DEF IdleIsUnanswered, ReplayIsFaithful
  <2>4. NobodyResets' /\ OneWinner'
    BY <1>2 DEF NobodyResets, OneWinner
  <2> QED BY <2>1, <2>2, <2>3, <2>4
<1> QED BY <1>1, <1>2

\* Whoever executes fn, or is past it, has started.
LEMMA RunnerHasStarted ==
  ASSUME IdempotencyInv, NEW r \in Requests, pc[r] \in {"run", "returned", "threw"}
  PROVE  r \in started /\ (pc[r] = "returned" => r \in succeeded)
  BY DEF IdempotencyInv, RunningHaveStarted, Running

\* fn returns: who executes it has started.
LEMMA FnReturnsPreserves ==
  ASSUME IdempotencyInv, NEW r \in Requests, FnReturns(r) PROVE IdempotencyInv'
<1> USE DEF IdempotencyInv, FnReturns, Go
<1>1. r \in started
  BY RunnerHasStarted
<1>2. TypeOK'
  BY <1>1 DEF TypeOK, Running
<1>3. CacheIsReal' /\ RowIsThere' /\ RunningHaveStarted' /\ StartedHaveBodies'
  BY <1>1 DEF TypeOK, CacheIsReal, RowIsThere, RunningHaveStarted, StartedHaveBodies,
              Running
<1>4. IdleIsUnanswered' /\ ReplayIsFaithful'
  BY DEF TypeOK, IdleIsUnanswered, ReplayIsFaithful
<1>5. NobodyResets' /\ OneWinner'
  BY DEF TypeOK, NobodyResets, OneWinner
<1> QED BY <1>2, <1>3, <1>4, <1>5

\* The response that MarkCompleted caches, and returns, is that of its own fn.
LEMMA MarkCompletedPreserves ==
  ASSUME IdempotencyInv, NEW r \in Requests, MarkCompleted(r) PROVE IdempotencyInv'
<1> USE DEF IdempotencyInv, MarkCompleted, Go
<1>1. r \in started /\ r \in succeeded
  BY RunnerHasStarted
<1>2. rec'.status = "COMPLETED" /\ rec'.by = r /\ rec'.live = rec.live
  BY DEF TypeOK
<1>3. TypeOK'
  BY DEF TypeOK, Terminated
<1>4. CacheIsReal' /\ RowIsThere'
  BY <1>1, <1>2 DEF CacheIsReal, RowIsThere
<1>5. RunningHaveStarted' /\ StartedHaveBodies'
  BY DEF TypeOK, RunningHaveStarted, StartedHaveBodies, Running
<1>6. IdleIsUnanswered'
  BY DEF TypeOK, IdleIsUnanswered
<1>7. ReplayIsFaithful'
  BY <1>1 DEF TypeOK, ReplayIsFaithful
<1>8. NobodyResets' /\ OneWinner'
  BY <1>1, <1>2 DEF TypeOK, NobodyResets, OneWinner
<1> QED BY <1>3, <1>4, <1>5, <1>6, <1>7, <1>8

\* A lost update changes what the request was told, never the row.
LEMMA UpdateIsLostPreserves ==
  ASSUME IdempotencyInv, NEW r \in Requests, UpdateIsLost(r) PROVE IdempotencyInv'
<1> USE DEF IdempotencyInv, UpdateIsLost, Go
<1>1. r \in started /\ (pc[r] = "returned" => r \in succeeded)
  BY RunnerHasStarted
<1>2. TypeOK'
  BY DEF TypeOK, Terminated
<1>3. CacheIsReal' /\ RowIsThere' /\ OneWinner' /\ NobodyResets'
  BY DEF TypeOK, CacheIsReal, RowIsThere, OneWinner, NobodyResets
<1>4. RunningHaveStarted' /\ StartedHaveBodies' /\ IdleIsUnanswered'
  BY DEF TypeOK, RunningHaveStarted, StartedHaveBodies, IdleIsUnanswered, Running
<1>5. ReplayIsFaithful'
  BY <1>1 DEF TypeOK, ReplayIsFaithful
<1> QED BY <1>2, <1>3, <1>4, <1>5

\* Every step of a request, and the expiry of the row, keeps the invariant.
LEMMA StepPreserves == IdempotencyInv /\ [Next]_vars => IdempotencyInv'
<1> USE IdempotencyAssumption DEF IdempotencyInv, TypeOK, CacheIsReal,
      RunningHaveStarted, RowIsThere, StartedHaveBodies, IdleIsUnanswered, NobodyResets,
      OneWinner, ReplayIsFaithful, Running, Terminated, Go
<1> SUFFICES ASSUME IdempotencyInv, [Next]_vars PROVE IdempotencyInv'
  OBVIOUS
<1>1. CASE Expire
  BY <1>1 DEF Expire
<1>2. ASSUME NEW r \in Requests, NEW b \in Payloads, Lookup(r, b)
      PROVE  IdempotencyInv'
  <2>1. CASE Live("COMPLETED") /\ Resolve(r, b)
    BY <1>2, <2>1, ResolveIsFaithful DEF Lookup
  <2>2. CASE Live("PENDING") /\ Go(r, IF r \in Pollers THEN "poll" ELSE "conflict")
               /\ UNCHANGED answer
    <3>1. \/ Go(r, "poll")
          \/ Go(r, "conflict")
      BY <2>2
    <3>2. CASE Go(r, "poll")
      BY <1>2, <2>2, <3>2 DEF Lookup, Live
    <3>3. CASE Go(r, "conflict")
      BY <1>2, <2>2, <3>3 DEF Lookup, Live
    <3> QED BY <3>1, <3>2, <3>3
  <2>3. CASE rec.status = "NONE" /\ Go(r, "create") /\ UNCHANGED answer
    BY <1>2, <2>3 DEF Lookup
  <2>4. CASE rec.status # "NONE" /\ (~rec.live \/ rec.status = "FAILED")
               /\ Go(r, "reset") /\ UNCHANGED answer
    BY <1>2, <2>4 DEF Lookup
  <2> QED BY <1>2, <2>1, <2>2, <2>3, <2>4 DEF Lookup
<1>3. ASSUME NEW r \in Requests, Poll(r) PROVE IdempotencyInv'
  <2>1. CASE Live("COMPLETED") /\ Resolve(r, body[r])
    BY <1>3, <2>1, ResolveIsFaithful DEF Poll
  <2>2. CASE pc[r] = "poll" /\ Go(r, "conflict") /\ UNCHANGED answer
    BY <1>3, <2>2 DEF Poll
  <2>3. CASE (~rec.live \/ rec.status = "FAILED" \/ pc[r] = "poll-old") /\ Go(r, "reset") /\ UNCHANGED answer
    BY <1>3, <2>3 DEF Poll
  <2> QED BY <1>3, <2>1, <2>2, <2>3 DEF Poll
<1>4. ASSUME NEW r \in Requests, Reset(r) PROVE IdempotencyInv'
  BY <1>4 DEF Reset
<1>5. ASSUME NEW r \in Requests, Create(r) PROVE IdempotencyInv'
  BY <1>5, CreatePreserves
<1>6. ASSUME NEW r \in Requests, InspectWinner(r) PROVE IdempotencyInv'
  <2>1. CASE Live("COMPLETED") /\ Resolve(r, body[r])
    BY <1>6, <2>1, ResolveIsFaithful DEF InspectWinner
  <2>2. CASE Live("PENDING") /\ UNCHANGED answer
               /\ Go(r, IF r \in Pollers THEN "poll-winner" ELSE "conflict")
    BY <1>6, <2>2 DEF InspectWinner
  <2>3. CASE (~rec.live \/ rec.status = "FAILED") /\ Go(r, "error") /\ UNCHANGED answer
    BY <1>6, <2>3 DEF InspectWinner
  <2> QED BY <1>6, <2>1, <2>2, <2>3 DEF InspectWinner
<1>7. ASSUME NEW r \in Requests, PollWinner(r) PROVE IdempotencyInv'
  <2>1. CASE Live("COMPLETED") /\ Resolve(r, body[r])
    BY <1>7, <2>1, ResolveIsFaithful DEF PollWinner
  <2>2. CASE Go(r, "conflict") /\ UNCHANGED answer
    BY <1>7, <2>2 DEF PollWinner
  <2> QED BY <1>7, <2>1, <2>2 DEF PollWinner
<1>8. ASSUME NEW r \in Requests, FnReturns(r) PROVE IdempotencyInv'
  BY <1>8, FnReturnsPreserves
<1>9. ASSUME NEW r \in Requests, FnThrows(r) PROVE IdempotencyInv'
  BY <1>9 DEF FnThrows
<1>10. ASSUME NEW r \in Requests, MarkFailed(r) PROVE IdempotencyInv'
  BY <1>10 DEF MarkFailed
<1>11. ASSUME NEW r \in Requests, MarkCompleted(r) PROVE IdempotencyInv'
  BY <1>11, MarkCompletedPreserves
<1>12. ASSUME NEW r \in Requests, UpdateIsLost(r) PROVE IdempotencyInv'
  BY <1>12, UpdateIsLostPreserves
<1>13. ASSUME NEW r \in Requests, Crash(r) PROVE IdempotencyInv'
  BY <1>13 DEF Crash, Active
<1>14. CASE UNCHANGED vars
  BY <1>14 DEF vars
<1> QED
  BY <1>1, <1>2, <1>3, <1>4, <1>5, <1>6, <1>7, <1>8, <1>9, <1>10, <1>11, <1>12,
     <1>13, <1>14 DEF Next, Step

\* The inductive invariant of withIdempotency.
THEOREM Invariant == Spec => []IdempotencyInv
  BY InitEstablishes, StepPreserves, PTL DEF Spec

\* The row and the requests keep their types.
THEOREM TypeCorrect == Spec => []TypeOK
<1>1. IdempotencyInv => TypeOK
  BY DEF IdempotencyInv
<1> QED BY <1>1, Invariant, PTL

\* The unique index makes one execution of the requests that race on a new key.
THEOREM RaceHasOneWinner == Spec => []OneWinner
<1>1. IdempotencyInv => OneWinner
  BY DEF IdempotencyInv
<1> QED BY <1>1, Invariant, PTL

\* resolveCompletedRecord never hands out the response to another body, nor one of
\* an execution that failed.
THEOREM Faithful == Spec => []ReplayIsFaithful
<1>1. IdempotencyInv => ReplayIsFaithful
  BY DEF IdempotencyInv
<1> QED BY <1>1, Invariant, PTL
-----------------------------------------------------------------------------
(* Requests in turn.                                                       *)

\* A request looks at the row and the row is left alone: it answers, waits, fails
\* or, if the row has failed or expired, goes on to reset it.
LooksAtRow(r) ==
  /\ UNCHANGED <<rec, succeeded, expired>>
  /\ \/ \E to \in Terminated \cup {"poll", "poll-winner", "create", "lost"} : Go(r, to)
     \/ rec.status # "NONE" /\ (~rec.live \/ rec.status = "FAILED" \/ pc[r] = "poll-old")
          /\ Go(r, "reset")

\* The steps that write no column of the row.
LEMMA LookingSteps ==
  ASSUME RowIsThere, NEW r \in Requests,
         \/ \E b \in Payloads : Lookup(r, b)
         \/ Poll(r) \/ InspectWinner(r) \/ PollWinner(r) \/ UpdateIsLost(r) \/ Crash(r)
  PROVE  LooksAtRow(r)
<1> USE DEF Terminated, Resolve
<1>1. ASSUME NEW b \in Payloads, Lookup(r, b) PROVE LooksAtRow(r)
  BY <1>1 DEF Lookup, LooksAtRow
<1>2. CASE Poll(r)
  BY <1>2 DEF Poll, RowIsThere, LooksAtRow
<1>3. CASE InspectWinner(r)
  BY <1>3 DEF InspectWinner, LooksAtRow
<1>4. CASE PollWinner(r)
  BY <1>4 DEF PollWinner, LooksAtRow
<1>5. CASE UpdateIsLost(r)
  BY <1>5 DEF UpdateIsLost, LooksAtRow
<1>6. CASE Crash(r)
  BY <1>6 DEF Crash, LooksAtRow
<1> QED BY <1>1, <1>2, <1>3, <1>4, <1>5, <1>6

\* A request that looks starts nothing: with an execution that succeeded, the row
\* is live and PENDING or COMPLETED, and no look at it leads to a reset.
LEMMA LookingKeepsOnce ==
  ASSUME TypeOK, OnceInv, NEW r \in Requests, LooksAtRow(r)
  PROVE  OnceInv'
<1> USE DEF TypeOK, OnceInv, AtMostOnce, LooksAtRow, Go, Running, Terminated
<1>1. ASSUME NEW to \in Terminated \cup {"poll", "poll-winner", "create", "lost"}, Go(r, to)
      PROVE  OnceInv'
  BY <1>1
<1>2. CASE rec.status # "NONE" /\ (~rec.live \/ rec.status = "FAILED" \/ pc[r] = "poll-old") /\ Go(r, "reset")
  BY <1>2
<1> QED BY <1>1, <1>2

\* No step of the only active request, nor the expiry of the row, breaks OnceInv.
LEMMA OnceStep ==
  ASSUME IdempotencyInv, RequestsInTurn, OnceInv, [Next]_vars
  PROVE  OnceInv'
<1>0. TypeOK /\ RowIsThere
  BY DEF IdempotencyInv
<1> USE <1>0 DEF TypeOK, RequestsInTurn, OnceInv, AtMostOnce, Running, Terminated,
                 Active, Go
<1>1. CASE Expire
  BY <1>1 DEF Expire
<1>2. ASSUME NEW r \in Requests,
             \/ \E b \in Payloads : Lookup(r, b)
             \/ Poll(r) \/ InspectWinner(r) \/ PollWinner(r) \/ UpdateIsLost(r) \/ Crash(r)
      PROVE  OnceInv'
  BY <1>2, LookingSteps, LookingKeepsOnce
<1>3. ASSUME NEW r \in Requests, Reset(r) PROVE OnceInv'
  BY <1>3 DEF Reset
<1>4. ASSUME NEW r \in Requests, Create(r) PROVE OnceInv'
  BY <1>4 DEF Create
<1>5. ASSUME NEW r \in Requests, FnReturns(r) PROVE OnceInv'
  BY <1>5 DEF FnReturns
<1>6. ASSUME NEW r \in Requests, FnThrows(r) PROVE OnceInv'
  BY <1>6 DEF FnThrows
<1>7. ASSUME NEW r \in Requests, MarkFailed(r) PROVE OnceInv'
  BY <1>7 DEF MarkFailed
<1>8. ASSUME NEW r \in Requests, MarkCompleted(r) PROVE OnceInv'
  BY <1>8 DEF MarkCompleted
<1>9. CASE UNCHANGED vars
  BY <1>9 DEF vars
<1> QED
  BY <1>1, <1>2, <1>3, <1>4, <1>5, <1>6, <1>7, <1>8, <1>9 DEF Next, Step

\* "At-most-once execution semantics" for clients that wait for the answer to one
\* attempt before they send the next: fn takes effect at most once while the row
\* does not expire, whatever attempts fail, die or lose their last update.
THEOREM OnceInTurn == Spec /\ []RequestsInTurn => []AtMostOnce
<1>1. Init => OnceInv
  BY DEF Init, OnceInv, AtMostOnce, Running
<1>2. OnceInv => AtMostOnce
  BY DEF OnceInv, AtMostOnce
<1>3. IdempotencyInv /\ RequestsInTurn /\ OnceInv /\ [Next]_vars => OnceInv'
  BY OnceStep
<1> QED
  BY Invariant, <1>1, <1>2, <1>3, PTL DEF Spec

\* With room for one request in progress no other arrives before it has ended, so
\* the instance that is checked satisfies the hypothesis.
THEOREM OneActiveIsInTurn ==
  ASSUME MaxActive = 1
  PROVE  Spec => []RequestsInTurn
<1>1. Init => RequestsInTurn
  BY DEF Init, RequestsInTurn, Active
<1>2. TypeOK /\ RequestsInTurn /\ [Next]_vars => RequestsInTurn'
  <2> SUFFICES ASSUME TypeOK, RequestsInTurn, [Next]_vars
               PROVE  RequestsInTurn'
    OBVIOUS
  <2>1. ASSUME NEW r \in Requests, NEW b \in Payloads, Lookup(r, b)
        PROVE  RequestsInTurn'
    <3> DEFINE busy == {q \in Requests : Active(q)}
    <3>1. busy = {}
      <4> SUFFICES ASSUME NEW q \in busy PROVE FALSE
        OBVIOUS
      <4>1. busy = {q}
        BY DEF RequestsInTurn
      <4>2. Cardinality(busy) = 1
        BY <4>1, FS_Singleton
      <4> QED
        BY <4>2, <2>1 DEF Lookup
    <3>2. \A q \in Requests \ {r} : pc'[q] = pc[q]
      BY <2>1 DEF Lookup, Resolve, Go, TypeOK
    <3> QED
      BY <3>1, <3>2 DEF RequestsInTurn, Active
  <2>2. ASSUME NEW r \in Requests, Step(r), ~\E b \in Payloads : Lookup(r, b)
        PROVE  RequestsInTurn'
    <3>1. Active(r)
      BY <2>2 DEF Step, Active, Terminated, Poll, Reset, Create, InspectWinner,
                  PollWinner, FnReturns, FnThrows, MarkFailed, MarkCompleted,
                  UpdateIsLost, Crash
    <3>2. \A q \in Requests \ {r} : pc'[q] = pc[q]
      BY <2>2 DEF Step, TypeOK, Go, Resolve, Poll, Reset, Create, InspectWinner,
                  PollWinner, FnReturns, FnThrows, MarkFailed, MarkCompleted,
                  UpdateIsLost, Crash
    <3> QED
      BY <3>1, <3>2 DEF RequestsInTurn, Active
  <2>3. CASE Expire
    <3>1. \A q \in Requests : Active(q)' => Active(q)
      BY <2>3 DEF Expire, Active, Terminated
    <3> QED
      BY <3>1 DEF RequestsInTurn
  <2>4. CASE UNCHANGED vars
    BY <2>4 DEF RequestsInTurn, Active, vars
  <2> QED
    BY <2>1, <2>2, <2>3, <2>4 DEF Next
<1> QED
  BY TypeCorrect, <1>1, <1>2, PTL DEF Spec
=============================================================================
