--------------------------- MODULE TaskRecurrence ----------------------------
(***************************************************************************)
(* One schedule of recurring tasks.  A scan (runTaskRecurrences) goes      *)
(* through the months that are due; the unique row of a month in           *)
(* task_recurrence_runs is claimed first, then the task is created in a    *)
(* transaction of its own, then completed and recorded in the row.  The    *)
(* worker of the outbox scans, and so does the cron route, which may run   *)
(* beside it.  A scan can die between any two of its statements, or be so  *)
(* slow that its claim is taken for the claim of a dead one.               *)
(***************************************************************************)
EXTENDS Naturals

CONSTANTS
  Scanners,     \* the worker and the calls of the cron route
  Worker,       \* the scanner whose cycle starts again and again
  Months,       \* bound: the months that pass
  Scheduled,    \* months of the schedule: its start, end and step
  MaxCatchUp,   \* MAX_CATCH_UP_MONTHS
  MaxFaults     \* bound: scans that die, or take longer than 15 minutes

Periods == 1..Months
None == 0

ASSUME RecurrenceAssumption ==
  /\ Worker \in Scanners
  /\ Months \in Nat \ {0} /\ MaxCatchUp \in Nat /\ MaxFaults \in Nat
  /\ Scheduled \subseteq Periods

VARIABLES
  now,       \* the current month
  rec,       \* the schedule: whether it is active, and how many months it catches up
  run,       \* the row of each month: row, its task and error, stale: older than 15 min
  created,   \* tasks ever created for each month, 2 for more
  scan,      \* each scan: its step, the month it began in, the one it is at, those left to do
  faults,
  forgotten  \* history: months whose task was left out of its row

vars == <<now, rec, run, created, scan, faults, forgotten>>

NoRun == [row |-> FALSE, task |-> FALSE, error |-> FALSE, stale |-> FALSE]
Claim == [NoRun EXCEPT !.row = TRUE]
Idle == [step |-> "idle", key |-> None, at |-> None, todo |-> {}]

Init ==
  /\ now = 1
  /\ rec = [active |-> TRUE, catchUp |-> 0]
  /\ run = [k \in Periods |-> NoRun]
  /\ created = [k \in Periods |-> 0]
  /\ scan = [s \in Scanners |-> Idle]
  /\ faults = 0
  /\ forgotten = {}

-----------------------------------------------------------------------------
\* duePeriods
DuePeriods(key, catchUp) == {k \in Scheduled : k <= key /\ key <= k + catchUp}

\* A scan that has claimed a month and not yet recorded the outcome.
Working(s, k) == scan[s].at = k /\ scan[s].step \in {"generating", "created", "recording"}

\* The rows of these months are deleted; a scan that still works on one of them
\* will have no row to record its task in, or somebody else's.
DeleteRuns(ks) ==
  /\ run' = [k \in Periods |-> IF k \in ks THEN NoRun ELSE run[k]]
  /\ forgotten' = forgotten \cup {k \in ks : \E s \in Scanners : Working(s, k)}

\* Mutant: no claim is ever taken for dead.
NeverStale(k) == FALSE

\* Mutant: the months that failed are taken for claims of the dead.
StaleClaimOrFailed(k) == run[k].row /\ run[k].stale /\ ~run[k].task

StaleClaim(k) == run[k].row /\ run[k].stale /\ ~run[k].task /\ ~run[k].error

\* A scan begins with the clock, and the claims older than STALE_CLAIM_MS are deleted.
Clean(s) ==
  /\ scan[s].step = "idle"
  /\ DeleteRuns({k \in Periods : StaleClaim(k)})
  /\ scan' = [scan EXCEPT ![s] = [Idle EXCEPT !.step = "cleaned", !.key = now]]
  /\ UNCHANGED <<now, rec, faults, created>>

\* Then the active schedules are read, and the months that were due for them then.
ReadDue(s) ==
  /\ scan[s].step = "cleaned"
  /\ scan' = [scan EXCEPT ![s] = [Idle EXCEPT !.step = "claiming",
                   !.todo = IF rec.active THEN DuePeriods(scan[s].key, rec.catchUp) ELSE {}]]
  /\ UNCHANGED <<now, rec, faults, run, created, forgotten>>

\* Mutant: without the unique row of a month.
AlwaysFree(k) == TRUE
Free(k) == ~run[k].row

\* createMany with skipDuplicates: the oldest month that is left is claimed, or
\* passed by when it has a row.
ClaimNext(s) ==
  /\ scan[s].step = "claiming"
  /\ \E k \in scan[s].todo :
       /\ \A j \in scan[s].todo : k <= j
       /\ run' = IF Free(k) THEN [run EXCEPT ![k] = Claim] ELSE run
       /\ scan' = [scan EXCEPT ![s] =
                     IF Free(k)
                     THEN [Idle EXCEPT !.step = "generating", !.at = k, !.todo = scan[s].todo \ {k}]
                     ELSE [Idle EXCEPT !.step = "claiming", !.todo = scan[s].todo \ {k}]]
  /\ UNCHANGED <<now, rec, faults, created, forgotten>>

\* The scan has gone through its months.
EndScan(s) ==
  /\ scan[s].step = "claiming" /\ scan[s].todo = {}
  /\ scan' = [scan EXCEPT ![s] = Idle]
  /\ UNCHANGED <<now, rec, faults, run, created, forgotten>>

\* generateTask, up to createTask: the creator may be inactive, and createTask
\* may refuse the people or the unit.
Generate(s) ==
  /\ scan[s].step = "generating"
  /\ \/ /\ created' = [created EXCEPT ![scan[s].at] = IF @ = 0 THEN 1 ELSE 2]
        /\ scan' = [scan EXCEPT ![s].step = "created"]
     \/ /\ scan' = [scan EXCEPT ![s].step = "failing"]
        /\ UNCHANGED created
  /\ UNCHANGED <<now, rec, faults, run, forgotten>>

\* The rest of generateTask: the criteria and the reviewer may throw, and then
\* nobody remembers the task; a subtask that cannot be created is an error of
\* the row beside its task.
Complete(s) ==
  LET k == scan[s].at
  IN  /\ scan[s].step = "created"
      /\ \/ /\ scan' = [scan EXCEPT ![s].step = "recording"]
            /\ \/ UNCHANGED run
               \/ run[k].row /\ run' = [run EXCEPT ![k].error = TRUE]
            /\ UNCHANGED forgotten
         \/ /\ scan' = [scan EXCEPT ![s].step = "failing"]
            /\ forgotten' = forgotten \cup {k}
            /\ UNCHANGED run
      /\ UNCHANGED <<now, rec, faults, created>>

Done(s) == [Idle EXCEPT !.step = "claiming", !.todo = scan[s].todo]

\* updateMany {taskId}, whoever has the row of the month now.
Record(s) ==
  LET k == scan[s].at
  IN  /\ scan[s].step = "recording"
      /\ run' = IF run[k].row THEN [run EXCEPT ![k].task = TRUE] ELSE run
      /\ scan' = [scan EXCEPT ![s] = Done(s)]
      /\ UNCHANGED <<now, rec, faults, created, forgotten>>

\* The catch clause.
Fail(s) ==
  LET k == scan[s].at
  IN  /\ scan[s].step = "failing"
      /\ run' = IF run[k].row THEN [run EXCEPT ![k].error = TRUE] ELSE run
      /\ scan' = [scan EXCEPT ![s] = Done(s)]
      /\ UNCHANGED <<now, rec, faults, created, forgotten>>

\* The process dies, or a statement outside the try fails: the claim stays.
Crash(s) ==
  /\ scan[s].step # "idle" /\ faults < MaxFaults
  /\ faults' = faults + 1
  /\ scan' = [scan EXCEPT ![s] = Idle]
  /\ forgotten' = IF scan[s].step \in {"created", "recording"} THEN forgotten \cup {scan[s].at}
                  ELSE forgotten
  /\ UNCHANGED <<now, rec, run, created>>

-----------------------------------------------------------------------------
Failed(k) == run[k].row /\ ~run[k].task /\ run[k].error

\* updateRecurrence; with retryFailed the rows of the due months that have an
\* error and no task are deleted in the same transaction.  A patch that does both
\* is like two patches, one after the other.
UpdateRecurrence(active, catchUp, retryFailed) ==
  /\ rec' = [active |-> active, catchUp |-> catchUp]
  /\ DeleteRuns(IF retryFailed THEN {k \in DuePeriods(now, catchUp) : Failed(k)} ELSE {})
  /\ UNCHANGED <<now, faults, created, scan>>

\* deleteTask: the foreign key of the run is set to null.
DeleteTask(k) ==
  /\ run[k].task
  /\ run' = [run EXCEPT ![k].task = FALSE]
  /\ forgotten' = forgotten \cup {k}
  /\ UNCHANGED <<now, rec, faults, created, scan>>

\* STALE_CLAIM_MS after the claim.
Age(k) ==
  /\ run[k].row /\ ~run[k].stale /\ \A s \in Scanners : scan[s].at # k
  /\ run' = [run EXCEPT ![k].stale = TRUE]
  /\ UNCHANGED <<now, rec, faults, created, scan, forgotten>>

\* The same while a scan is still at the month.
SlowScan(k) ==
  /\ run[k].row /\ ~run[k].stale /\ \E s \in Scanners : scan[s].at = k
  /\ faults < MaxFaults
  /\ run' = [run EXCEPT ![k].stale = TRUE]
  /\ faults' = faults + 1
  /\ UNCHANGED <<now, rec, created, scan, forgotten>>

NextMonth ==
  /\ now < Months
  /\ now' = now + 1
  /\ UNCHANGED <<rec, faults, run, created, scan, forgotten>>

-----------------------------------------------------------------------------
Step(s) == Clean(s) \/ ReadDue(s) \/ ClaimNext(s) \/ EndScan(s)
           \/ Generate(s) \/ Complete(s) \/ Record(s) \/ Fail(s)

Next == \/ \E s \in Scanners : Step(s) \/ Crash(s)
        \/ \E active \in BOOLEAN, catchUp \in 0..MaxCatchUp :
             UpdateRecurrence(active, catchUp, FALSE)
        \/ UpdateRecurrence(rec.active, rec.catchUp, TRUE)
        \/ \E k \in Periods : DeleteTask(k) \/ Age(k) \/ SlowScan(k)
        \/ NextMonth

Spec == Init /\ [][Next]_vars

\* The timer starts the worker again and again, a scan that has started goes on
\* (or dies, or is too slow), and time passes.
Fairness ==
  /\ WF_vars(Clean(Worker))
  /\ \A s \in Scanners : WF_vars(Step(s) /\ scan[s].step # "idle")
  /\ \A k \in Periods : WF_vars(Age(k))

FairSpec == Spec /\ Fairness

-----------------------------------------------------------------------------
(* Properties.                                                             *)

Run == [row : BOOLEAN, task : BOOLEAN, error : BOOLEAN, stale : BOOLEAN]
Steps == {"idle", "cleaned", "claiming", "generating", "created", "recording", "failing"}

\* The rows and the scans keep their types, and a month without a row has neither
\* a task nor an error.
TypeOK ==
  /\ now \in Periods
  /\ rec \in [active : BOOLEAN, catchUp : 0..MaxCatchUp]
  /\ run \in [Periods -> Run] /\ \A k \in Periods : ~run[k].row => run[k] = NoRun
  /\ created \in [Periods -> 0..2]
  /\ scan \in [Scanners -> [step : Steps, key : Periods \cup {None}, at : Periods \cup {None},
                        todo : SUBSET Scheduled]]
  /\ faults \in 0..MaxFaults /\ forgotten \subseteq Periods

\* A month gets one task, whatever scans run side by side and die, unless a scan
\* lost its task or its claim between the two, or the task was deleted.
OneTaskPerPeriod == \A k \in Periods : created[k] > 1 => k \in forgotten

\* A task that nobody lost is in the row of its month, or its scan is about to
\* write it there: a failed month that may be tried again has no task.
TaskIsRecorded ==
  \A k \in Periods \ forgotten :
     created[k] = 1 => run[k].task \/ \E s \in Scanners : Working(s, k)

\* A failed month waits for a person: no scan ever takes its row away.
FailureWaits ==
  [][\A k \in Periods : Failed(k) /\ ~run'[k].row => scan' = scan]_vars

\* A month that is due, of a schedule that is active, gets its task or its error,
\* although scans die after the claim; or it is not due any more.
Served(k) == run[k].task \/ run[k].error
EveryPeriodServed ==
  \A k \in Scheduled : (rec.active /\ k \in DuePeriods(now, rec.catchUp))
                         ~> (Served(k) \/ ~rec.active \/ k \notin DuePeriods(now, rec.catchUp))
=============================================================================
