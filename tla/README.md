# QCET E-Office: TLA+ models, model checking and proofs

QCET E-Office is the office system of a college: documents that come in, are
drafted, signed, numbered and sent, tasks that are assigned and reported,
dossiers, meetings, files. `apps/web` is the user interface, `apps/api` a Next.js
application in one process (`ARCHITECTURE.md`, "One API Process") whose
route handlers call services under `apps/api/src/server`; the services write to
PostgreSQL through Prisma, under READ COMMITTED. An outbox worker in the
same process delivers notifications and starts every periodic scan; a recording
starts cycles of its own beside it.

This directory holds TLA+ modules of the parts where requests, workers and crashes
meet, TLC configurations that check them on small instances, and proofs checked by
TLAPS. `PROJECT.json` maps every definition to the lines it models.

## 1. Inventory

### Components, their state and their operations

| Component | State | Operations | Correct when | Status |
|---|---|---|---|---|
| Transactional outbox and worker (`packages/db/src/outbox.ts`, `server/outbox/outbox-worker.ts`, `server/meetings/recording-kick.ts`) | `outbox_events`: status, attempts, availableAt, lockedAt; the batch of each cycle in memory | publish, recover leases, batch, claim, run handler, settle | at least once, never given up early, nothing stuck; what one cycle works on: within budget and backoff | `Outbox`, a refinement of `OutboxDelivery`, proved |
| Outgoing documents (`server/documents/outgoing-*.ts`, `state-machine.ts`) | `documents_outgoing_workflows`, `documents.status`, signature records, recipients | 17 commands from draft to recall and revision | separation of duties, signed before numbered before issued, receipt excludes recall, two tiers of status agree | `OutgoingDocument`, proved |
| Numbering engine (`numbering-engine.ts`) | one sequence row per type and year, numbers on documents | next number | never the same number twice | `Numbering`, a refinement of `NumberRegister`, proved |
| Idempotency wrapper (`server/api/idempotency.ts`) | `idempotency_records` | look up, wait, create or reset, run, record | a retry does not repeat the work, a replay answers the same request | `Idempotency`, proved |
| Task lifecycle (`tasks/task-domain-actions.ts`, `task-command-service.ts`, `task-actor-service.ts`) | `tasks`: status, progress, version, DRI; approval processes and their steps; the tasks below | 12 commands that move the status, reassignment, roll-up of the children | a completion is whole, approved by all who must, by somebody else; a running process can go on; an undisturbed roll-up gives the children's progress | `TaskLifecycle`, proved |
| Recurrence (`task-recurrence-service.ts`) | schedules, one run row per month with a unique key, the scans in memory | clean stale claims, claim a month, generate, record, retry | one task per month in spite of crashes; failures wait for a person; no due month is missed | `TaskRecurrence`, proved |
| Submission approval (`submission-approval-service.ts`, `submission-rules.ts`) | workflow row, steps of its rounds, `documents.status` | submit, decide, withdraw, open, ask for and decide a return, reassign | every round asks whom it must, once, in order; somebody is always asked; what is decided stays | `SubmissionApproval`, a refinement of `SubmissionProtocol`, proved |
| Files (`file-service.ts`, `file-object-purge.ts`, `file-scan-worker.ts`) | `file_objects`, the rows and texts that refer to them, bytes on disk | upload, scan, refer, detach, purge in two transactions around a delete | visible files have bytes, bytes have owners, what a purge could see to be referenced keeps its row, the first scan stands | `FileStorage`, proved |
| Task side workflows (extension, unit requests, declined work) | requests with a status of their own | request, decide, withdraw | one decision per request | left for later |
| Reminders and deadline scans | reminder logs with a unique key | compare dates, insert | once per date | left for later |
| Incoming documents | workflow row, routing | receive, route, assign, resolve | as for outgoing | left for later |
| Dossiers and disposal | dossiers, entries, disposal lists | open, add, close, propose, approve, execute | nothing is destroyed that still changes | left for later |
| Agent jobs | outbox rows with a timeout of their own | enqueue, run, give up, retry | one effective run | left for later |
| Meetings and recordings | recording chunks, transcription job | upload, finish, transcribe | every chunk once, in order | left for later |
| Generic document service, assistant, authorization, sessions, notifications, audit, organization, search, collaborative notes, shutdown, web | | | | not planned: reasons in `PROJECT.json` |

### How they interact

A command is an HTTP request: its service reads rows, checks status and rights
on what it has read, and then writes in one transaction that also adds an
audit row and publishes outbox events. Task and document routes put
`withIdempotency` around the command (`tasks/route.ts:229`,
`tasks/actions/bulk-update/route.ts:43`, `documents/[id]/actions/assign-unit` and
`.../resolve`). `assignOutgoingNumber` calls the numbering engine inside its
transaction; `createDocument` calls it with the root client. A child task's
transaction ends with the roll-up into its parent, in the same transaction and
without a lock. The purge of a dossier publishes the event whose handler purges
its files. The worker polls the outbox; a handler writes notifications, and the
same cycle starts the recurrence scan, which the cron route starts as well. The
loop never overlaps with itself (`currentCycle`), but the routes of a recording
call `runRecordingJobs` after their answer, which runs cycles for the jobs of
that recording beside the loop and beside each other.

### What is hard here

1. *Stale reads.* The check and the write of a command are apart. Some
   transactions repeat the check in a conditional update (withdraw, approve,
   number, receive, recall), others update by id. Both kinds are modelled as they
   are, and the properties say what survives each.
2. *Crashes, leases and second cycles* in the outbox: before and after the effect of
   a handler, between two statements of the recovery, in the catch block; and two
   cycles of one process with the same row in their batches.
3. *Counters computed from old values*: `attempts + 1`, the numbering gap.
4. *Two rows that must agree*: `Document.status` with the workflow's status, receipts
   with recalls, signatures with versions.
5. *Retries that overlap*: a second request with the key of one that is running.
6. *Roll-ups from unlocked reads*: two children that finish together each compute
   the parent without the other, and write it unconditionally.
7. *Steps outside transactions*: the disk cannot be rolled back with the rows, and a
   generated task is committed before the run that stands for it is recorded.
8. *Claims that go stale*: after fifteen minutes the claim of a slow scan looks like
   the claim of a dead one.
9. *Rounds*: what a request has read of one round of approval is written in the next.

`PROJECT.json` lists the hazards line by line, with the properties that would notice.

## 2. Plan

Done: `Outbox` (with `OutboxDelivery` and `OutboxRefinement`), `OutgoingDocument`,
`Numbering` (both with `NumberRegister`), `Idempotency`, `SubmissionApproval` (with `SubmissionProtocol` and
`SubmissionRefinement`), `FileStorage`, `TaskRecurrence`,
`TaskLifecycle`, and a proof module for each. What is left, in this order:

1. `IncomingDocument`, with a composition of `Idempotency` and its commands (a
   command that is replayed after a crash).
2. Dossiers and disposal: a list that was approved against dossiers that change,
   on top of `FileStorage`.
3. Task side workflows beside `TaskLifecycle`: requests that end in a change of the
   due date or the people.
4. `AgentJob` on `Outbox`: a handler that is given up but still runs.
5. Reminders, then recordings.

Proofs to add: abstract specifications of files (a content is stored or it is not) and of the
recurrence (a month is due, served or waits for a person), with refinements as for the outbox and the submissions.

## 3. Modules

### Outbox, OutboxDelivery, OutboxRefinement

`Outbox` has the rows (`status`, `attempts`, `due` for availableAt, `lease` for
lockedAt), the memory of each cycle (`pc`, the current row, the `ids` it was started for, the `batch`, and
`snap`, the attempts it read with the batch) and one action per database
statement: `Publish`; `RecoverDeadLetter` and `RecoverRequeue` (two `updateMany` over
one cutoff, `stale` being the rows that were expired at that moment);
`FetchBatch`; `Claim` and `SkipClaimed`; `HandlerSucceeds` and `HandlerFails`;
`RecordSuccess`, `RecordFailure` and the variants in which the update itself throws.
`Fault` kills a cycle or throws out of it; the death of the process is a fault of
each. `Init` also allows rows in
PROCESSING without a lease, those the release before the lease column left.

Two kinds of workers run cycles. A timer (`Timers`, one for each process) takes every
row and never overlaps with itself. A kick (`Kicks`, `runRecordingJobs`) takes some
transcription jobs (`Recordings`) and is not kept from running beside the timer.
Which rows a property can be about follows from this. A row is `Alone` when one
cycle only can reach it: with one process, all but the recordings' jobs. A row is
`Guarded` when it is alone or not `Slow`, that is, its handler gives up before its lease
does, as the jobs of the agent do (`agent-jobs.ts:106`: five minutes of a lease of ten).

Time is abstract: a backoff passes at any moment, and so does a lease, under a
running handler only of a slow row. A job that was given up by `Promise.race` may go
on to write behind the back of the outbox; that belongs to `AgentJob` (section 2).

`OutboxDelivery` is the promise without workers: an event waits, every attempt costs
one unit of a budget, it is done only after a delivery and dead exactly when
its budget is gone. `OutboxRefinement` maps PENDING and PROCESSING to "waiting" and
`attempts` to what is left of the budget, for the rows that are `Alone`.

### OutgoingDocument

One workflow row, administrative status, register number, signatures and
recipients per document; a fixed number of request `Slots`. `Receive` is the first part
of a command: it reads the row and checks what the command checks (`Accepts`,
from `runOutgoingStepGate` and the status tests before it). The second part is an action
per command, named as in the code. A transaction writes the workflow
row first and holds its lock, so it is one step, except `issueDocument` (which looks
at other documents' rows first: `CheckReplacement`) and `createDocumentRevision` (which
revokes the signatures it can see before it locks the row: `RevokeSignatures`). What the code
claims conditionally has its guard again in the second part (`StillInReview`, `StillSigned`,
`StillAwaitsReceipt`), what it updates by id has none. `Fail` ends a request without effect,
at any moment.

Abstractions: rights of the authorization engine are the sets `Leaders` and `Clerks`;
`signerName` equals the signer when it is read; a preset signer of the
draft is ignored; a timestamp is its user; texts, notes, files and audit rows are left out. The number
is taken in one step: that step and the several of `Numbering` implement the same `NumberRegister`. The generic edit of
`Document.status` by the document service is not in the model, and neither
are moves to ARCHIVED, which no command makes.

### Numbering, NumberRegister

One call of `getNextRegistrationNumber` is `ReadSequence`, `ReadLargest`, `TakeNumber` (the upsert
or update, which waits for the row lock and applies to the committed value),
and `StampDocument` (the caller's document and commit) or `Abort`. `Detached` calls use the root
client and commit the number before the document. `RegisterExplicit` is a number typed in by
the registry, `Legacy` what documents carried before.

`NumberRegister` is the promise: a register gives numbers that only rise. Under the mapping of `Numbering`
a detached call gives its number when it takes it and any other when its transaction commits.

### Idempotency

One key; a request looks at the row (`Lookup`), waits (`Poll`) if its caller gives a timeout (what it does
when the timeout ends depends on the row it read first, not on the present one, hence `Polling`), resets
a row that it saw FAILED or expired (`Reset`, by id) or creates it (`Create`, one insert wins; the loser is
`InspectWinner`), runs fn, and records the outcome by id. It may crash between any two
statements, its last update may be lost (the code swallows that error), and the row may expire at any moment.

### SubmissionApproval, SubmissionProtocol, SubmissionRefinement

One submission: the workflow row, the status of its document, and the rows of its steps, created in
batches of one transaction. A command is a read with its checks (`Receive...`) and a transaction
(`Commit...`), any number of them at the same time. A transaction that locks or claims the row first is
one step; a submission that is sent again reads its round before it takes the lock, so it is two (`ReadRound`).
A conflict ends the request without effect (`Refused`). `Outcome` and `DocumentStatusFor` are the
rules of `submission-rules.ts`.

The history variable `crossed` says whether some transaction has used a round that was no longer
current. Withdrawal and return compare the status and not the round, so this happens; what
still holds then is stated without the proviso (`WaitingHasPending`, `StepsAreFinal`), the rest with it.
Left out: consultations, which add remarks that no transition reads, and the report of times.

`SubmissionProtocol` is what the author is promised, without rounds, rows and requests: the units are asked together, the leader
after the last of them has agreed, an objection sends the submission back, and the document always shows where it is.
`SubmissionRefinement` maps the status to a phase and the pending steps of the current round to those who are asked. Opening
a submission, asking for a return and reassigning a step are stutters; `crossed` ends the promise.

### FileStorage

The copies of one content. An upload writes its bytes under the key of the hash, or a new key if that is
taken (the flag `wx`), then inserts the row, then scans (`WriteBytes`, `CreateRow`, `ScanInline`; `RemoveBytes`
after a refused insert; `CrashUpload` when the server dies, the bytes were written in part, or their removal fails).
The purge has the three steps of the code: `Stage` or, for a file that is referenced, `Skip`, which brings an archived
file back; `Delete`; and a transaction that counts the references again and deletes the row (`CountAgain`, `DeleteRow`),
with a crash after each.

Two kinds of references are counted. A row with a foreign key (`Attach`, `DetachAndAsk`: attachments,
deliverables, dossier items, materials of a meeting) needs the row of the file and waits for the lock of a purge. An id in a description, a
comment, a note or a URL (`Mention`, `Unmention`) has neither key nor lock, and commits at any moment, also between the
count and the deletion and after it; `missed` remembers those. The scan worker takes a batch of the oldest, reads the bytes and
records the answer if the row is still PENDING.

The history variable `purged` becomes 2 when a purge was run again on a file whose bytes were gone, or
deleted bytes a second time: `VisibleHasBytes` holds up to that (section 6). Left out: the reuse of the uploader's own clean
copy (a counter that nothing reads) and storage providers that no upload uses.

### TaskRecurrence

One schedule, the row of each month, and scans that run side by side: `Clean`, `ReadDue`, `ClaimNext`, `Generate`,
`Complete`, `Record` or `Fail`, `EndScan`, one action per statement or transaction. `Crash` kills a scan
anywhere; `Age` makes the claim of a dead scan stale, `SlowScan` that of a living one. People change the
schedule, retry failures (`UpdateRecurrence`) and delete tasks. `forgotten` records the months whose task
was lost on the way: thrown away after `createTask`, lost in a crash, left without its
row, or deleted. A scan takes the clock once, when it begins: the months it finds due are those of then. `claimedAt` is
that moment too, so a claim of a long scan is stale sooner than one would think; here it may go stale at any time. Left out: templates, and the people and texts of a schedule.

### TaskLifecycle

One task with its DRI, its approval processes and the tasks below it. A command is checked
before its transaction (one action per command under `Load`), reads again inside where the code does
(`Look...`), and writes (`Commit...`). `version` says how the final update finds its row: "any" compares
nothing, "read" compares the version, and "old" is a version that has moved since. Review
and cancel compare nothing, and the definition of a process leaves the version as it is.
`Refuse` ends any command without effect. A child runs its own command and rolls up in its transaction,
computed (`ChildRollsUp`) and written (`ChildCommits`) in two steps, as nothing is locked; some commands of
a child do not roll up (`ChildMovesQuietly`).

Two history variables say what the properties have to exclude: `touched` (the progress was set since the last roll-up, or
the roll-up ran beside another write) and `stray` (processes that a decision reached when they were
not waiting for it). Abstractions: rights are free, except the separation of duties; a child is
open, done or not counted; deliverables are a choice whether all are approved. Two pairs of statements of one transaction
are one step: a review reads the status again (`task-domain-actions.ts:1064`) where it writes it (1076), and a roll-up reads the siblings
(`task-command-service.ts:187`) where it reads the parent (202). Whatever comes between the first
two, the review writes COMPLETED with 100 per cent; what comes between the others makes the roll-up one that ran beside another write.
Left out: creation, archiving and deletion, the metadata that the route lets people edit, collaborators and observers.

## 4. Runs

| Configuration | Shows | Distinct states |
|---|---|---|
| `OutboxProcess` | the deployed process: its loop and a recording's kick, crashes, failed writes, a handler that outlives its lease. All rows: never given up early, settled at last. Guarded rows: exclusive claim, settled is final. The loop's rows: budget, backoff, refinement | 224,158 |
| `OutboxKickBudget` | *violation:* a recording's job is started beyond MAX_RETRIES | |
| `OutgoingSequential` | whole life, two versions, one request at a time: separate duties, complete issues, both tiers of status | 183,289 |
| `OutgoingConcurrent` | two overlapping requests, every command on one version: receipt against recall, one decision per submission, review by another | 377,513 |
| `OutgoingRevision` | two overlapping requests, two versions: revision against initialing, signing, numbering and sealing | 512,310 |
| `OutgoingReplacement` | *violation:* two documents that are issued at the same time replace the same third one | |
| `NumberingConcurrent` | four calls, one detached, legacy and typed numbers: the register is implemented | 851,765 |
| `IdempotencyConcurrent` | four overlapping requests, two bodies, one polls | 213,778 |
| `SubmissionConcurrent` | two overlapping requests, two rounds, two units and a leader: who is asked and in which order, that decisions stand, and the refinement | 1,175,832 |
| `FileStorage` | two uploads of one content, references by key and in texts, a purge that dies and runs again, the scan worker | 713,252 |
| `TaskRecurrence` | worker and cron side by side, one fault, two months: one task per month, failures wait for a person, every due month served | 604,352 |
| `TaskLifecycle` | two overlapping commands, two processes, two children that roll up, reassignment | 218,037 |

More configurations are kept beside these, for the questions of section 6. `OutgoingRecalledFinal`,
`OutgoingReceiptKept`, `OutgoingDoubleSign`, `OutgoingFormatGate`, `OutgoingAdminSync`, `FileMentioned`,
`IdempotencyOverlap`, `NumberingConsecutive`, `NumberingReconcile`,
`SubmissionReturnAsked` and `OutgoingOldSignature` each end in the violation of their one property. `IdempotencySequential` (37,417
states) shows that `AtMostOnce` holds of requests that wait for each other, which `IdempotencyOverlap` shows
it does not of others.

**Bounds.** Two events and `BatchLimit` 1 make one event wait for the other; one is a recording's job that two
cycles reach and that gives up in time, the other only the loop reaches and its handler may be slow. Two retries
let a crash or a failure meet a success; two faults (`MaxFaults`) allow a crash during the
recovery of a crash. Two slots are every race of two commands; the hazards of the code
are between two. `MaxVersion` 2 is one revision, 1 makes the
concurrent run about a single version. Two units allow a partial receipt. In
`OutgoingConcurrent` the only drafter is also a leader, so that only the
duty check keeps them from approving their own draft. Four calls let a gap be computed
before, during and after another one. `MaxActive` bounds overlapping requests.
A submission has two units that decide, one that its author heads (and that is skipped), two rounds,
and three batches of steps, enough for units, leader and a second round. Two files are
enough for two uploads to meet under one key, one of them beyond the scanner with a pass of two (three in the code), the other named by texts.
Two months with one to catch up make both due at once; one fault is one crash or one slow scan.
A task is new or has just been submitted and makes four moves from there (`MaxMoves`): define a process, approve its two steps
and one that comes in between, or any other four; two processes of two steps are what overlapping definitions leave.

**Deadlock** is checked for `Outbox`. The other configurations switch it off: calls and
requests are finitely many and all end, and a document comes to rest when no
command applies to it any more (filed or recalled, at its last version); so do a submission at its last round,
files that are stored and scanned, and a task after its last move.

**Symmetry** is used only where values are interchangeable (slots, documents, units, people and children of a
task, calls and requests). Two runs have a VIEW: `Seeing` leaves out
the approver of a closed step, which is never read again, and `TaskView` makes one state of all commands whose
version has moved, as they can only be refused.

**Fairness** is assumed of three modules.
*Outbox*: `setInterval` starts cycle after cycle, so each worker's
next statement eventually runs (a kick need never start, but goes on once it has); a handler returns or throws; backoffs and leases pass. Nothing is
assumed about outcomes: a handler may fail always, and `EventuallySettled` says that the row then ends
FAILED. It is stated for events that have a handler; one that has none stays PENDING for ever in
the code as well. A handler that never returns stops its cycle, which is why "returns or throws" has
to be said.
*FileStorage*: the timer starts a pass again and again and a pass goes on (weak fairness), and a file that is tried again and
again is read and recorded at last (strong fairness, as a crash or another pass may come between). `EveryFileIsScanned`
needs more: fewer files beyond the scanner than a pass takes.
*TaskRecurrence*: the worker starts a scan again and again, a scan that has started goes on or dies, and claims grow
old. The reminder scans come before it in the cycle, so this also assumes that they do not throw for ever.
Nothing is assumed of outcomes: a generation may always fail, and its month is then served by an error.

## 5. Proofs

All hold for every value of the constants under the assumptions named in the modules
(`OutboxAssumption` and so on, which TLC evaluates in the runs).

* **OutboxProofs.** All theorems are about any number of loops and kicks. `BaseInv` says that a row still in
  play has an attempt left (`AttemptLeft`), also after an old batch is settled, because a batch only
  remembers attempts of rows that were PENDING; this gives `TypeCorrect` (attempts never
  passes the limit) and `AtLeastOnce`. `ChargeInv` adds that no count, in a row or in the memory of a cycle, is above the number of
  starts of the handler (`ChargesAreRuns`): `NothingIsGivenUpEarly`, whatever old batches are settled.
  The other theorems name the rows they hold of. `LeaseInv` adds that a held row which is not slow is PROCESSING under a fresh lease that no recovery has seen
  (`HeldIsFresh`), and `AloneInv` that the only cycle which reaches a row remembers it as it is (`MemoryIsCurrent`) and that
  every start of its handler is paid for (`RunsArePaid`). Together they give
  `ClaimIsExclusive` and `SettledStays` for the guarded rows, and `AloneInv` gives `BudgetIsKept`, `BackoffIsRespected` (no step takes a row
  out of PENDING that is not due) and `AloneImplementsDelivery`, the refinement. That a row is alone is no hypothesis about a schedule: it says
  which cycles the code starts for it, and `OneProcess` derives it for all rows but the recordings' jobs from there being one process.
* **OutgoingDocumentProofs.** `DocumentInv` is inductive with any number of requests. Besides the
  properties it says what a request may still rely on after its first read
  (`RequestsAreChecked`: facts that cannot change, such as the drafter), that the register is ahead of every number given
  (`RegisterIsAhead`), and that sets of signatures are finite, which the serial of `InitialedOnce` needs. Eight theorems follow; `NumbersAreNeverReused` is an action property and
  `DocumentsImplementRegister` a refinement. The rest of the document's correctness does not survive overlapping requests
  (section 6), and is proved of documents on which requests do not overlap: any number of requests at a
  time, no two of them about one document (`DocumentsApart`). `OrderlyInv` then says that what a request has read still holds when it writes
  (`StillAccepted`), that a row's fields agree with the signatures behind it (`RowIsOrderly`), and that of each
  kind but initials a version has one signature (`SignaturesAreOrderly`): `SignerIsSeparate`, `IssuedIsWhole`, `AdminFollows`, `SignaturesOfOneVersion`.
  The hypothesis is about the order of requests only, and holds of itself in the
  run with one slot (`OneSlotIsApart`). Nothing is proved of replacements, which it does not order.
* **NumberingProofs.** The heart is `RowIsAhead`: the row is never below a value read or a
  number committed, and the open transaction's number is above it. The increment by a gap computed
  from old reads is then at least the gap there is. `EngineImplementsRegister` adds `TakenInOrder` (who has a number, and who the
  lock): a detached call gives when it takes, any other when it commits, and no failure takes a number back.
* **IdempotencyProofs.** `OneWinner` rests on `NobodyResets`: while the row has neither failed
  nor expired nobody sees a reason to reset it. `ReplayIsFaithful` needs that a cached response
  belongs to a request that succeeded, and that bodies do not change. `OnceInTurn` proves at-most-once of requests in
  turn (`RequestsInTurn`: one at a time between its first look and its end, dead ones counting as ended): `OnceInv` says that who executes works on a PENDING
  row, and that a row whose request has succeeded gives nobody a reason to run again before it expires. The hypothesis is needed, as
  `IdempotencyOverlap` shows; `OneActiveIsInTurn` derives it from `MaxActive = 1`.
* **SubmissionApprovalProofs.** `SubmissionInv` joins the properties with three facts. No row is of a round to come
  (`RoundsInOrder`). While a round waits none of its steps has gone wrong, and the leader's step is not there before the units
  have agreed (`RoundInOrder`); this is what the hardest case needs, the decision that sends a submission up to the leader and
  must not ask twice. And a decision in progress knows the round of its step, which never changes (`RequestsKnow`).
  `WithdrawalIsUnseen` needs that a round nobody has opened has no decision (`UnopenedIsUndecided`). `ApprovalImplementsProtocol` is the
  refinement, with any number of requests, units and rounds: one step per person and round (`AskedOncePerRound`) makes a decision take exactly one
  person from those who are asked, `RoundInOrder` makes the leader the only one asked at the leader's stage, and an insert finds a round
  without pending steps (`NobodyAsked`).
* **FileStorageProofs.** `FileInv` is about who holds a storage key: an upload between its bytes and its row, or a row whose bytes no
  purge has deleted. As long as no purge under a key was run again it has one holder (`OneHolder`), whose bytes are on the disk
  (`HolderHasBytes`). The key of a row is unique whatever happens (`OneRow`), and bytes that are there after the second step of
  a purge belong to somebody else (`ReleasedBytes`). A row that a purge has counted and is about to delete is locked, so no
  foreign key can have come, and every text that names it was missed (`CountedHolds`): `ReferencedRowsStay`.
* **TaskRecurrenceProofs.** `RecurrenceInv` speaks of the months that are not forgotten: a scan at work has the row, without a task
  (`WorkHasRow`); there is one such scan at most (`OneWorker`); before it has created the task there is none (`NoneYet`); and a
  task is in its row or carried by its scan (`Accounted`).
* **TaskLifecycleProofs.** `LifecycleInv` says what a command still knows between its check and its update. What completes a
  task by approval compares the version and writes 100 (`AllSound`); as long as the version is the one it read, it is not the DRI's and the task
  waits (`AllVouched`), and the steps it looked at stand (`AllChecked`). A process that is not stray has its approved steps first and
  its pending ones, at least one, after them (`Orderly`), which is why signing the last step is the end of it. A roll-up leaves a parent
  completed only at 100 (`RollIsWhole`). `ProgressIsRolledUp` has an invariant of its own on top (`RollInv`): a clean roll-up was computed
  from the children as they are.

**Model-checked only:** what must eventually happen (`EventuallySettled`, `EveryFileIsScanned`, `EveryPeriodServed`), which is
out of the prover's reach.

**Proved and not in a run:** the types of all eight components (for `FileStorage` without its two sequences); what
a property of a run implies (`FinalIsFinal` by the protocol, `NumbersDiffer` by the register); what has a configuration beside the runs
(`AtMostOnce` in `IdempotencySequential`, the two parts of
`SignaturesOfOneVersion` in `OutgoingDoubleSign` and `OutgoingOldSignature`, where overlapping requests break them); what its proviso
makes weak beside the hazard it is near (`NoOrphanStep`, `TaskIsRecorded`, `RunningHasPending`); and what is plain in the code
but carries a proof: `CompletedWasDelivered`, `StepsAreFinal`. A run is kept for the properties that several steps or
several actors are needed to break.

## 6. Where the code and its words disagree

Each of these has a configuration in which TLC finds the words violated.

* RECALLED is called final (`state-machine.ts:148`); a revision takes a recalled document back to DRAFT
  (`OutgoingRecalledFinal`).
* The rows of recipients are said to be unreceived when they are replaced
  (`outgoing-document-service.ts:1467`); after a revision they may be received (`OutgoingReceiptKept`).
* A second signature is said to need a revision (`outgoing-document-service.ts:1026`); two overlapping
  requests both sign (`OutgoingDoubleSign`). A revision revokes the signatures of the version before it; an initial that commits between the
  two statements of the revision stays valid (`OutgoingOldSignature`).
* Idempotency is said to be at-most-once (`idempotency.ts:166`); overlapping retries of a failed attempt
  both run (`IdempotencyOverlap`).
* The format check is said to need an approved content (`outgoing-document-service.ts:869`); a document in
  CONTENT_REVIEW passes (`OutgoingFormatGate`).
* ADR-004 says that every transition synchronises the two tiers of status; a signature writes the
  tier-1 status of the tier-2 status that it read (`OutgoingAdminSync`).
* A document is said to have one replacement (`outgoing-recipients.ts:58`); two issued at the same
  time both become it (`OutgoingReplacement`).
* Numbers are said to be consecutive and reconciled with what documents carry
  (`numbering-engine.ts:89`, `136`); both fail when two calls interleave (`NumberingConsecutive`, `NumberingReconcile`).
* Several workers are called safe (`outbox-worker.ts:5`), and no event is said to be tried beyond MAX_RETRIES (`outbox.ts:20`).
  One process is enough to break it: a recording's kick runs beside the loop, the claim looks at the status only, and an
  old batch settles with the attempts it read, so the handler of a transcription is started once too often, or during its
  backoff (`OutboxKickBudget`). Two processes would do the same to every row.
* A file that is still referenced is said never to be deleted (`file-object-purge.ts:55`, which counts texts as well); a text that
  commits between the second count (line 134) and the deletion (147), or later, names a row that is gone (`FileMentioned`).
* The request to return a submission is said to be of one that was opened (`schema.prisma:654`); neither a decision nor a
  new submission clears it, so it is asked of the next round as well (`SubmissionReturnAsked`).

What the modelling met beside these, kept in the models by a history variable or a guard instead of a run:

* *Outgoing documents.* A format approval that is late puts a numbered document back to AUTHORIZED_SIGN, where
  it can be neither signed nor numbered; only a revision frees it.
* *Submissions* (`crossed`). A submission sent again reads its round before `FOR UPDATE`, so two can open the same round; a withdrawal and an
  accepted return compare the status and not the round, so they can end a round that they have not seen. A decision does not look again at
  who may decide, so the person replaced meanwhile can still decide.
* *Files* (`purged`). A purge is said to be safe to run again at any step (`file-object-purge.ts:5`). If it died after the
  deletion and a reference came before it runs again, it takes the row for one that was merely archived and makes it visible without its bytes
  (line 104); and as an upload may take the free key although line 8 says it cannot (the bytes are gone, the key of the disk is free
  until the insert fails), a second deletion can take bytes that an upload has just written.
  The references of recordings are not counted, and the schema sets them to null. As many unscannable files as a pass takes keep all others waiting.
* *Recurrence* (`forgotten`). "Exactly once" (`task-recurrence-service.ts:7`) has five exceptions: a crash between the creation of the task and
  its record, an exception after `createTask` and then a retry, a generation slower than fifteen minutes, a retry of the failed months
  between the error of a subtask (line 363) and the record of the task beside it (296), and a task that
  is deleted and whose month is generated again.
* *Tasks* (`touched`, `stray`). The roll-up reads without a lock, writes over a parent that was cancelled meanwhile, and does not go on to the
  parent's parent; `reviewDeliverable`, `submitDeliverable` and a late definition change a child without it.
  Two definitions that overlap leave two processes running. `review` decides a step by id, also of a process that was sent back meanwhile: it runs again,
  perhaps with nothing to decide. `review` and `reviewDeliverable` are not in `CompletedByAnother`, because an
  executive passes the separation of duties (`hybrid-authorization.ts:724`). A resolution of the leadership completes a task at the progress
  that it has, past running processes and without a roll-up.

## 7. Not modelled, and why

Components marked "left for later" above wait for their turn, in the order of section 2; `PROJECT.json` says of each
what is missing, and of each modelled component which operations it leaves out. Left out for good: the web interface,
administrative CRUD, search and dashboards (no protocol), the language model, the PDF and audio
tools, push services and Yjs (external), and rate limits, sessions and CSRF checks (they stand in
front of every command and change none of the state above).
