------------------------------- MODULE Outbox -------------------------------
(***************************************************************************)
(* The transactional outbox: packages/db/src/outbox.ts driven by the       *)
(* polling loop of apps/api/src/server/outbox/outbox-worker.ts and, for    *)
(* the transcription jobs of a recording, by the cycles that               *)
(* apps/api/src/server/meetings/recording-kick.ts starts after an answer.  *)
(* The loop never overlaps with itself (currentCycle); nothing keeps a     *)
(* kick from running beside it, or beside another kick.                    *)
(*                                                                         *)
(* A row of outbox_events is published by a business transaction, claimed  *)
(* by a worker (PENDING -> PROCESSING), handed to its handler, and settled *)
(* (COMPLETED, FAILED, or back to PENDING after a backoff).  Every         *)
(* database statement is one step, so statements of several workers        *)
(* interleave; a worker keeps in memory the batch it fetched and, for each *)
(* fetched row, the value of attempts it read then.                        *)
(*                                                                         *)
(* Time is abstracted: due[e] says that availableAt has passed, and        *)
(* lease[e] that lockedAt is older than the lease.  Both change by         *)
(* environment steps that may happen at any moment.                        *)
(***************************************************************************)
EXTENDS Naturals, FiniteSets

CONSTANTS
  Events,      \* rows of outbox_events
  Handled,     \* those whose eventType has a registered handler
  Recordings,  \* those of type AGENT_JOB_TRANSCRIBE_MEETING
  Slow,        \* those whose handler has no timeout shorter than the lease
  Timers,      \* the polling loops, one for each qcet-api process
  Kicks,       \* the loops of runRecordingJobs
  MaxRetries,  \* MAX_RETRIES of outbox-worker.ts
  BatchLimit,  \* BATCH_LIMIT of outbox-worker.ts
  MaxFaults    \* bound: process deaths and escaped exceptions

Workers == Timers \cup Kicks

ASSUME OutboxAssumption ==
  /\ Handled \subseteq Events
  /\ Recordings \subseteq Handled
  /\ Slow \subseteq Events
  /\ Timers \cap Kicks = {}
  /\ MaxRetries \in Nat \ {0}
  /\ BatchLimit \in Nat \ {0}
  /\ MaxFaults \in Nat

VARIABLES
  status, attempts, due, lease,  \* the rows
  pc, ids, cur, batch, snap, stale,  \* the memory of each worker
  faults,                        \* faults injected so far
  runs, delivered                \* history: handler starts, a handler success

rowVars    == <<status, attempts, due, lease>>
workerVars == <<pc, ids, cur, batch, snap, stale>>
history    == <<runs, delivered>>
vars       == <<rowVars, workerVars, faults, history>>

Settled == {"COMPLETED", "FAILED"}
Status  == {"NONE", "PENDING", "PROCESSING"} \cup Settled
Lease   == {"NONE", "FRESH", "EXPIRED"}
Idle    == "idle"
Active  == {"handler", "complete", "error"}  \* between claim and settlement
Pc      == {Idle, "requeue", "fetch", "batch"} \cup Active
NoEvent == "no event"

Holds(w, e) == pc[w] \in Active /\ cur[w] = e

(***************************************************************************)
(* Rows claimed by the release that had no lease column may be found in    *)
(* PROCESSING, their handler started once; no other row is published yet.  *)
(***************************************************************************)
Init ==
  /\ status \in [Events -> {"NONE", "PROCESSING"}]
  /\ attempts = [e \in Events |-> 0]
  /\ due = [e \in Events |-> FALSE]
  /\ lease = [e \in Events |-> IF status[e] = "PROCESSING" THEN "FRESH" ELSE "NONE"]
  /\ pc = [w \in Workers |-> Idle]
  /\ ids = [w \in Workers |-> {}]
  /\ cur = [w \in Workers |-> NoEvent]
  /\ batch = [w \in Workers |-> {}]
  /\ snap = [w \in Workers |-> [e \in Events |-> 0]]
  /\ stale = [w \in Workers |-> {}]
  /\ faults = 0
  /\ runs = [e \in Events |-> IF status[e] = "PROCESSING" THEN 1 ELSE 0]
  /\ delivered = [e \in Events |-> FALSE]

-----------------------------------------------------------------------------
(* The environment.                                                        *)

\* publishOutboxEvent: the row commits with the business transaction.
Publish(e) ==
  /\ status[e] = "NONE"
  /\ status' = [status EXCEPT ![e] = "PENDING"]
  /\ due' = [due EXCEPT ![e] = TRUE]
  /\ UNCHANGED <<attempts, lease, workerVars, faults, history>>

BackoffElapses(e) ==
  /\ status[e] = "PENDING" /\ ~due[e]
  /\ due' = [due EXCEPT ![e] = TRUE]
  /\ UNCHANGED <<status, attempts, lease, workerVars, faults, history>>

\* leaseMs "must be longer than the slowest handler".  The jobs of agent-jobs.ts
\* give up well before it, so their row reaches the end of its lease only when
\* its worker is gone; a slow handler may still be running.
LeaseExpires(e) ==
  /\ status[e] = "PROCESSING" /\ lease[e] = "FRESH"
  /\ e \in Slow \/ \A w \in Workers : ~Holds(w, e)
  /\ lease' = [lease EXCEPT ![e] = "EXPIRED"]
  /\ UNCHANGED <<status, attempts, due, workerVars, faults, history>>

-----------------------------------------------------------------------------
(* recoverExpiredOutboxLeases: two statements over one cutoff.  stale[w] is *)
(* the set of rows whose lockedAt is older than the cutoff w computed; a    *)
(* cycle looks at ids[w] only, in the recovery as in the batch query.       *)

\* What a cycle may be started for: the loop of a process takes every row, a
\* kick its first job or some jobs of its recording.
Scopes(w) == IF w \in Timers THEN {Events} ELSE (SUBSET Recordings) \ {{}}

\* Mutant: the recovery does not look at lockedAt.
ExpiredWithoutLease(e) == status[e] = "PROCESSING"

Expired(e) == status[e] = "PROCESSING" /\ lease[e] = "EXPIRED"

\* Mutants: the threshold is one too high, or one too low.
LastAttemptLate(n)  == n >= MaxRetries
LastAttemptEarly(n) == n + 2 >= MaxRetries

\* The next miss of a row with n attempts uses up its budget.
LastAttempt(n) == n + 1 >= MaxRetries

RecoverDeadLetter(w, scope) ==
  LET dead == {e \in scope : Expired(e) /\ LastAttempt(attempts[e])}
  IN
  /\ pc[w] = Idle
  /\ ids' = [ids EXCEPT ![w] = scope]
  /\ status'   = [e \in Events |-> IF e \in dead THEN "FAILED" ELSE status[e]]
  /\ attempts' = [e \in Events |-> IF e \in dead THEN attempts[e] + 1 ELSE attempts[e]]
  /\ lease'    = [e \in Events |-> IF e \in dead THEN "NONE" ELSE lease[e]]
  /\ stale' = [stale EXCEPT ![w] = {e \in scope : Expired(e)} \ dead]
  /\ pc' = [pc EXCEPT ![w] = "requeue"]
  /\ UNCHANGED <<due, cur, batch, snap, faults, history>>

RecoverRequeue(w) ==
  LET back == {e \in stale[w] : status[e] = "PROCESSING"}
  IN
  /\ pc[w] = "requeue"
  /\ status'   = [e \in Events |-> IF e \in back THEN "PENDING" ELSE status[e]]
  /\ attempts' = [e \in Events |-> IF e \in back THEN attempts[e] + 1 ELSE attempts[e]]
  /\ due'      = [e \in Events |-> e \in back \/ due[e]]
  /\ lease'    = [e \in Events |-> IF e \in back THEN "NONE" ELSE lease[e]]
  /\ stale' = [stale EXCEPT ![w] = {}]
  /\ pc' = [pc EXCEPT ![w] = "fetch"]
  /\ UNCHANGED <<ids, cur, batch, snap, faults, history>>

-----------------------------------------------------------------------------
(* processOutboxBatch.  availableAt decides the order in the code; since   *)
(* its values are abstracted, any due rows may come first.                 *)

\* Mutants: the query ignores availableAt, or forgets the rows that were retried.
AvailableEarly(w) == {e \in Handled \cap ids[w] : status[e] = "PENDING"}
AvailableOnce(w)  ==
  {e \in Handled \cap ids[w] : status[e] = "PENDING" /\ due[e] /\ attempts[e] = 0}

Available(w) == {e \in Handled \cap ids[w] : status[e] = "PENDING" /\ due[e]}

FetchBatch(w) ==
  /\ pc[w] = "fetch"
  /\ \E rows \in SUBSET Available(w) :
       /\ rows = Available(w) \/ Cardinality(rows) = BatchLimit
       /\ Cardinality(rows) <= BatchLimit
       /\ batch' = [batch EXCEPT ![w] = rows]
       /\ snap' = [snap EXCEPT ![w] = [e \in Events |-> IF e \in rows THEN attempts[e] ELSE 0]]
  /\ pc' = [pc EXCEPT ![w] = "batch"]
  /\ UNCHANGED <<rowVars, ids, cur, stale, faults, history>>

EndCycle(w) ==
  /\ pc[w] = "batch" /\ batch[w] = {}
  /\ pc' = [pc EXCEPT ![w] = Idle]
  /\ ids' = [ids EXCEPT ![w] = {}]
  /\ UNCHANGED <<rowVars, cur, batch, snap, stale, faults, history>>

-----------------------------------------------------------------------------
(* processOutboxEvent.                                                     *)

\* The conditional update won: the handler starts.
Claim(w, e) ==
  /\ pc[w] = "batch" /\ e \in batch[w]
  /\ status[e] = "PENDING"
  /\ status' = [status EXCEPT ![e] = "PROCESSING"]
  /\ lease' = [lease EXCEPT ![e] = "FRESH"]
  /\ stale' = [v \in Workers |-> stale[v] \ {e}]
  /\ pc' = [pc EXCEPT ![w] = "handler"]
  /\ cur' = [cur EXCEPT ![w] = e]
  /\ batch' = [batch EXCEPT ![w] = @ \ {e}]
  /\ runs' = [runs EXCEPT ![e] = @ + 1]
  /\ UNCHANGED <<attempts, due, ids, snap, faults, delivered>>

\* The conditional update touched no row: someone else has it.
SkipClaimed(w, e) ==
  /\ pc[w] = "batch" /\ e \in batch[w]
  /\ status[e] # "PENDING"
  /\ batch' = [batch EXCEPT ![w] = @ \ {e}]
  /\ UNCHANGED <<rowVars, pc, ids, cur, snap, stale, faults, history>>

HandlerSucceeds(w) ==
  /\ pc[w] = "handler"
  /\ delivered' = [delivered EXCEPT ![cur[w]] = TRUE]
  /\ pc' = [pc EXCEPT ![w] = "complete"]
  /\ UNCHANGED <<rowVars, ids, cur, batch, snap, stale, faults, runs>>

\* Mutant: the catch swallows the error of the handler.
HandlerFailsSilently(w) ==
  /\ pc[w] = "handler"
  /\ pc' = [pc EXCEPT ![w] = "complete"]
  /\ UNCHANGED <<rowVars, ids, cur, batch, snap, stale, faults, history>>

HandlerFails(w) ==
  /\ pc[w] = "handler"
  /\ pc' = [pc EXCEPT ![w] = "error"]
  /\ UNCHANGED <<rowVars, ids, cur, batch, snap, stale, faults, history>>

NextAttempts(w) == snap[w][cur[w]] + 1

\* Settling statements name the row by id only, and write the attempts that
\* the batch query read.
Settle(w, st, isDue) ==
  LET e == cur[w]
  IN
  /\ status' = [status EXCEPT ![e] = st]
  /\ attempts' = [attempts EXCEPT ![e] = NextAttempts(w)]
  /\ due' = [due EXCEPT ![e] = isDue]
  /\ lease' = [lease EXCEPT ![e] = "NONE"]
  /\ pc' = [pc EXCEPT ![w] = "batch"]
  /\ cur' = [cur EXCEPT ![w] = NoEvent]
  /\ UNCHANGED <<ids, batch, snap, stale, faults, history>>

RecordSuccess(w) ==
  /\ pc[w] = "complete"
  /\ Settle(w, "COMPLETED", due[cur[w]])

\* The COMPLETED update throws inside the try: the catch treats it as a failure.
RecordSuccessFails(w) ==
  /\ pc[w] = "complete"
  /\ pc' = [pc EXCEPT ![w] = "error"]
  /\ UNCHANGED <<rowVars, ids, cur, batch, snap, stale, faults, history>>

RecordFailure(w) ==
  /\ pc[w] = "error"
  /\ IF LastAttempt(snap[w][cur[w]])
       THEN Settle(w, "FAILED", due[cur[w]])
       ELSE Settle(w, "PENDING", FALSE)

\* What a process remembers is gone; the rows stay as they are.
LoseMemory(w) ==
  /\ pc' = [pc EXCEPT ![w] = Idle]
  /\ ids' = [ids EXCEPT ![w] = {}]
  /\ cur' = [cur EXCEPT ![w] = NoEvent]
  /\ batch' = [batch EXCEPT ![w] = {}]
  /\ stale' = [stale EXCEPT ![w] = {}]
  /\ UNCHANGED <<rowVars, snap, history>>

\* The update in the catch block throws: the exception ends the whole cycle.
RecordFailureFails(w) ==
  /\ pc[w] = "error"
  /\ LoseMemory(w)
  /\ UNCHANGED faults

\* The process dies (a new one starts with an idle loop), the forced exit of the
\* shutdown interrupts it, or any other statement throws.  A process that dies
\* under two cycles is a fault of each.
Fault(w) ==
  /\ pc[w] # Idle
  /\ faults < MaxFaults
  /\ faults' = faults + 1
  /\ LoseMemory(w)

-----------------------------------------------------------------------------
WorkerStep(w) ==
  \/ \E scope \in Scopes(w) : RecoverDeadLetter(w, scope)
  \/ RecoverRequeue(w) \/ FetchBatch(w) \/ EndCycle(w)
  \/ \E e \in Events : Claim(w, e) \/ SkipClaimed(w, e)
  \/ HandlerSucceeds(w) \/ HandlerFails(w)
  \/ RecordSuccess(w) \/ RecordSuccessFails(w)
  \/ RecordFailure(w) \/ RecordFailureFails(w)

Next ==
  \/ \E e \in Events : Publish(e) \/ BackoffElapses(e) \/ LeaseExpires(e)
  \/ \E w \in Workers : WorkerStep(w) \/ Fault(w)

Spec == Init /\ [][Next]_vars

(***************************************************************************)
(* setInterval starts a cycle again and again, every statement returns and *)
(* every handler returns or throws; time passes.  Nobody has to kick, but  *)
(* a kick that has started runs.  Nothing is said about the outcome of a   *)
(* handler, and no business transaction has to publish.                    *)
(***************************************************************************)
Fairness ==
  /\ \A w \in Timers : WF_vars(WorkerStep(w))
  /\ \A w \in Kicks : WF_vars(pc[w] # Idle /\ WorkerStep(w))
  /\ \A e \in Events : WF_vars(BackoffElapses(e)) /\ WF_vars(LeaseExpires(e))

FairSpec == Spec /\ Fairness

-----------------------------------------------------------------------------
(***************************************************************************)
(* Which rows a property can promise something about.  A row is Alone when *)
(* a single cycle of the system can ever touch it: with one process, every *)
(* row that no kick asks for.  A row is Guarded when it is alone or its    *)
(* handler gives up before the lease does.                                 *)
(***************************************************************************)
Reaches(w, e) == w \in Timers \/ e \in Recordings

Alone   == {e \in Events : \A v, w \in Workers : Reaches(v, e) /\ Reaches(w, e) => v = w}
Guarded == Alone \cup (Events \ Slow)

-----------------------------------------------------------------------------
(* Properties.                                                             *)

\* Every variable has its type.  attempts never passes maxRetries, whatever
\* the interleaving of the cycles, because a row in PENDING or PROCESSING is
\* always below it (outbox.ts, dead-letter thresholds at 446 and 544).
TypeOK ==
  /\ status \in [Events -> Status]
  /\ attempts \in [Events -> 0..MaxRetries]
  /\ due \in [Events -> BOOLEAN]
  /\ lease \in [Events -> Lease]
  /\ pc \in [Workers -> Pc]
  /\ ids \in [Workers -> SUBSET Events]
  /\ cur \in [Workers -> Events \cup {NoEvent}]
  /\ batch \in [Workers -> SUBSET Events]
  /\ snap \in [Workers -> [Events -> 0..(MaxRetries - 1)]]
  /\ stale \in [Workers -> SUBSET Events]
  /\ faults \in 0..MaxFaults
  /\ runs \in [Events -> Nat]
  /\ delivered \in [Events -> BOOLEAN]

\* "Atomic claim to prevent duplicate worker execution": two live cycles are
\* never between claim and settlement of the same row.  Needs the conditional
\* update, and a recovery that leaves the rows alone whose lease runs.
MutualExclusion ==
  \A v, w \in Workers, e \in Guarded : Holds(v, e) /\ Holds(w, e) => v = w

\* At-least-once: a row is COMPLETED only if some run of its handler succeeded.
CompletedWasDelivered ==
  \A e \in Events : status[e] = "COMPLETED" => delivered[e]

\* No poison-pill loop: the handler of a row that one cycle works on is started
\* at most maxRetries times, crashes and failed writes included.
RetryBudget == \A e \in Alone : runs[e] <= MaxRetries

\* The same of every row.  It is what outbox.ts says, and not so: of two cycles
\* that work on one row, the later settlement forgets the earlier attempt.
EveryBudgetIsKept == \A e \in Events : runs[e] <= MaxRetries

\* Dead-letter quarantine of every row, however many cycles work on it, from
\* however old a batch they settle it: a row is given up only after maxRetries
\* starts of its handler, and attempts then says so.
QuarantineIsEarned ==
  \A e \in Events :
    status[e] = "FAILED" => attempts[e] = MaxRetries /\ runs[e] >= MaxRetries

\* A settled row never changes again: no late cycle takes it back.
SettledIsFinal ==
  [][\A e \in Guarded : status[e] \in Settled => status'[e] = status[e]]_vars

\* A failed row waits for its backoff before it is claimed again (the claim
\* itself does not look at availableAt; the batch query did, earlier).
BackoffRespected ==
  [][\A e \in Alone :
       status[e] = "PENDING" /\ status'[e] = "PROCESSING" => due[e]]_vars

\* Every published row that has a handler ends COMPLETED or FAILED: crashes
\* leave no row stuck in PROCESSING, no row is starved by the batch limit, and
\* no other cycle keeps a row from being settled.
EventuallySettled ==
  \A e \in Handled :
    status[e] \in {"PENDING", "PROCESSING"} ~> status[e] \in Settled

-----------------------------------------------------------------------------
(***************************************************************************)
(* Strengthenings of the properties that are inductive; OutboxProofs       *)
(* proves them, for any number of loops and kicks.                         *)
(***************************************************************************)

\* A row still in play has an attempt left, and one about to be requeued two.
AttemptLeft ==
  /\ \A e \in Events :
       status[e] \in {"NONE", "PENDING", "PROCESSING"} => attempts[e] < MaxRetries
  /\ \A w \in Workers : \A e \in stale[w] :
       status[e] = "PROCESSING" => attempts[e] + 1 < MaxRetries

\* A cycle holds, fetched and recovers only rows that it can reach.
WithinReach ==
  \A w \in Workers :
    /\ pc[w] \in Active => cur[w] \in Events /\ Reaches(w, cur[w])
    /\ \A e \in ids[w] \cup batch[w] \cup stale[w] : Reaches(w, e)

BaseInv ==
  /\ TypeOK
  /\ AttemptLeft
  /\ WithinReach
  /\ \A w \in Workers : pc[w] = "complete" => delivered[cur[w]]
  /\ CompletedWasDelivered

\* Nothing is charged that was not run: attempts, and every count that a cycle
\* remembers and may still write, stay below the starts of the handler.
ChargesAreRuns ==
  /\ \A e \in Events :
       IF status[e] = "PROCESSING" THEN attempts[e] < runs[e] ELSE attempts[e] <= runs[e]
  /\ \A w \in Workers :
       /\ pc[w] \in Active => snap[w][cur[w]] < runs[cur[w]]
       /\ \A e \in batch[w] : snap[w][e] <= runs[e]

ChargeInv == BaseInv /\ ChargesAreRuns /\ QuarantineIsEarned

\* A held row that is not slow is PROCESSING under a fresh lease that no
\* recovery can see, and held once.
HeldIsFresh ==
  \A w \in Workers, e \in Events \ Slow : Holds(w, e) =>
    /\ status[e] = "PROCESSING" /\ lease[e] = "FRESH"
    /\ \A v \in Workers : e \notin stale[v]
    /\ \A v \in Workers : Holds(v, e) => v = w

LeaseInv == BaseInv /\ HeldIsFresh

\* What the only cycle that reaches a row remembers of it is still true.
MemoryIsCurrent ==
  \A w \in Workers :
    /\ pc[w] \in Active /\ cur[w] \in Alone =>
         /\ status[cur[w]] = "PROCESSING"
         /\ snap[w][cur[w]] = attempts[cur[w]]
    /\ \A e \in batch[w] \cap Alone :
         status[e] = "PENDING" /\ due[e] /\ snap[w][e] = attempts[e]
    /\ stale[w] # {} => pc[w] = "requeue"
    /\ batch[w] # {} => pc[w] \in {"batch"} \cup Active

\* Every handler start is paid for, or will be when its row leaves PROCESSING.
RunsArePaid ==
  \A e \in Alone :
    IF status[e] = "PROCESSING" THEN runs[e] <= attempts[e] + 1
                                ELSE runs[e] <= attempts[e]

AloneInv == BaseInv /\ MemoryIsCurrent /\ RunsArePaid
=============================================================================
