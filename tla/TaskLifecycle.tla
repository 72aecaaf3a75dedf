---------------------------- MODULE TaskLifecycle ----------------------------
(***************************************************************************)
(* One task, the approval processes that are defined for it, and the tasks *)
(* below it, whose status rolls up into its progress.  A command reads the *)
(* task and checks it before its transaction starts; some read it again    *)
(* inside, without a lock.  The transactions are READ COMMITTED, and only  *)
(* some of the final updates compare the version of the task with the one  *)
(* that was read.                                                          *)
(***************************************************************************)
EXTENDS Integers, FiniteSets

CONSTANTS
  Users,         \* people who may execute, review and approve, but did not create the task
  Children,      \* rows for tasks below this one
  Slots,         \* bound: commands that run at the same time
  MaxProcesses,  \* bound: processes ever defined
  StepCount,     \* steps of a process
  MaxMoves       \* bound: commands ever given, to the task or to its children

Processes == 1..MaxProcesses
Steps == 1..StepCount
None == "none"

ASSUME TaskAssumption ==
  /\ Users # {} /\ IsFiniteSet(Children)
  /\ MaxProcesses \in Nat \ {0} /\ StepCount \in Nat \ {0} /\ MaxMoves \in Nat

VARIABLES
  task,     \* its status, progress and primary DRI
  procs,    \* the processes, each with its status and those of its steps
  child,    \* what counts of the status of a child: open, done, or off (cancelled, no row)
  roll,     \* the transaction of a child that has computed its roll-up
  req,      \* the commands that run
  moves,
  touched,  \* history: the progress was not set by the last roll-up, or it ran beside another
  stray     \* history: processes that a decision reached when they did not wait for it

vars == <<task, procs, child, roll, req, moves, touched, stray>>

Statuses == {"NOT_STARTED", "IN_PROGRESS", "WAITING_APPROVAL", "COMPLETED", "CANCELLED"}
Closed == {"COMPLETED", "CANCELLED"}

Unseen == [p \in Processes |-> 0]
Idle == [cmd |-> None, by |-> None, stage |-> "idle", read |-> None, target |-> None,
         value |-> 0, proc |-> 0, step |-> 0, first |-> Unseen, version |-> "any"]
NoRoll == [busy |-> FALSE, to |-> "off", status |-> None, progress |-> 0,
           counts |-> FALSE, clean |-> FALSE]

\* A task that is new, or whose result has just been submitted.
Init ==
  /\ task \in [status : {"NOT_STARTED", "WAITING_APPROVAL"}, progress : {0}, dri : Users]
  /\ procs = [p \in Processes |-> [status |-> None, step |-> [i \in Steps |-> "PENDING"]]]
  /\ child = [c \in Children |-> "off"]
  /\ roll = [c \in Children |-> NoRoll]
  /\ req = [s \in Slots |-> Idle]
  /\ moves = 0 /\ touched = FALSE /\ stray = {}

-----------------------------------------------------------------------------
(* The processes.                                                          *)

Running(p) == procs[p].status = "IN_REVIEW"
Pending(p) == {i \in Steps : procs[p].step[i] = "PENDING"}

\* currentStepOf each process that runs: past the last step when none is pending.
FirstPending(p) ==
  IF ~Running(p) THEN 0
  ELSE IF Pending(p) = {} THEN StepCount + 1
  ELSE CHOOSE i \in Pending(p) : \A j \in Pending(p) : i <= j
Seen == [p \in Processes |-> FirstPending(p)]

\* loadTaskAndBuildResource takes the newest process that runs.
Newest == IF \E p \in Processes : Running(p)
          THEN CHOOSE p \in Processes : Running(p) /\ \A q \in Processes : Running(q) => q <= p
          ELSE 0

\* What executeApprovalStep writes to the process, whatever it has become since.
Executed(p, i, decision) ==
  [procs EXCEPT ![p] =
     [step |-> [procs[p].step EXCEPT ![i] = IF decision = "COMPLETED" THEN "APPROVED" ELSE "REJECTED"],
      status |-> IF decision # "COMPLETED" THEN "REJECTED"
                 ELSE IF i < StepCount THEN "IN_REVIEW" ELSE "APPROVED"]]

\* What it checks first: the step is pending, the ones before it are approved
\* and the reviewer is not the DRI.
StepIsOpen(u, p, i) ==
  /\ procs[p].step[i] = "PENDING" /\ \A j \in Steps : j < i => procs[p].step[j] = "APPROVED"
  /\ u # task.dri

-----------------------------------------------------------------------------
(* What a command reads and checks before its transaction.                 *)

\* by is kept where duties are compared, and the status that was read where it is
\* written again; the version is "read" where the update compares it.
Command(cmd, by, target, value, proc, step, version) ==
  [cmd |-> cmd, by |-> by, stage |-> "loaded", read |-> IF cmd = "review" THEN task.status ELSE None,
   target |-> target, value |-> value, proc |-> proc, step |-> step, first |-> Unseen, version |-> version]

Begin(s, r) ==
  /\ req[s] = Idle /\ moves < MaxMoves
  /\ req' = [req EXCEPT ![s] = r]
  /\ moves' = moves + 1
  /\ UNCHANGED <<task, procs, child, roll, touched, stray>>

\* TaskStateMachine.canTransition.
CanTransition(from, to) ==
  \/ from \in Closed /\ to = "IN_PROGRESS"
  \/ from \notin Closed /\ to = "CANCELLED"
  \/ <<from, to>> \in {<<"NOT_STARTED", "IN_PROGRESS">>, <<"IN_PROGRESS", "WAITING_APPROVAL">>,
                       <<"WAITING_APPROVAL", "IN_PROGRESS">>, <<"WAITING_APPROVAL", "COMPLETED">>}

\* A task that waits for its approval falls back to 90.
Resumed == IF task.status = "WAITING_APPROVAL" /\ task.progress = 100 THEN 90 ELSE task.progress

\* The progress that updateStatus writes with a status.
ProgressFor(to) ==
  IF to \in {"COMPLETED", "WAITING_APPROVAL"} THEN 100
  ELSE IF to = "IN_PROGRESS" /\ task.status = "COMPLETED" THEN 50
  ELSE IF to = "IN_PROGRESS" THEN Resumed ELSE task.progress

\* The process that goes when the work is taken up again.
Reworked(to) == IF task.status = "WAITING_APPROVAL" /\ to = "IN_PROGRESS" THEN Newest ELSE 0

\* A maker of the task may not complete it, nor may anybody beside a process.
UpdateStatus(s) ==
  \E to \in Statuses, version \in {"any", "read"}, u \in Users \cup {None} :
     /\ CanTransition(task.status, to)
     /\ IF to = "COMPLETED" THEN u \notin {task.dri, None} /\ Newest = 0 /\ version = "read" ELSE u = None
     /\ Begin(s, Command("move", u, to, ProgressFor(to), Reworked(to), 0, version))

Start(s) ==
  /\ task.status # "IN_PROGRESS"
  /\ Begin(s, Command("move", None, "IN_PROGRESS", Resumed, Reworked("IN_PROGRESS"), 0, "any"))

\* The status that goes with a progress; 100 submits the work.
StatusFor(value) ==
  IF value = 100 THEN "WAITING_APPROVAL"
  ELSE IF task.status = "WAITING_APPROVAL" \/ (value > 0 /\ task.status = "NOT_STARTED") THEN "IN_PROGRESS"
  ELSE task.status

UpdateProgress(s) ==
  \E value \in {0, 50, 100} :
     /\ task.status \notin Closed
     /\ Begin(s, Command("move", None, StatusFor(value), value, 0, 0, "read"))

SubmitResult(s) ==
  /\ task.status \notin Closed
  /\ Begin(s, Command("submit", None, "WAITING_APPROVAL", 0, 0, 0, "any"))

\* A deliverable may also be submitted for a task that is over.
SubmitDeliverable(s) ==
  \E version \in {"any", "read"} :
     Begin(s, Command("submit", None, IF task.status = "CANCELLED" THEN None ELSE "WAITING_APPROVAL",
                      0, 0, 0, version))

Cancel(s) ==
  /\ task.status \notin Closed
  /\ Begin(s, Command("cancel", None, "CANCELLED", 0, 0, 0, "any"))

\* The decisions: COMPLETED approves, IN_PROGRESS sends the work back.
Decisions == {"COMPLETED", "IN_PROGRESS"}

ReviewDeliverable(s) ==
  /\ task.status \notin Closed
  /\ \E d \in Decisions :
       Begin(s, Command("review-deliverable", None, d, 0, 0, 0, "read"))

\* With a step of a process, or (step 0) of the result alone.
Review(s) ==
  \E u \in Users, d \in Decisions, p \in Processes, i \in 0..StepCount :
     /\ u # task.dri
     /\ IF i = 0 THEN p = 1 ELSE procs[p].status # None
     /\ Begin(s, Command("review", u, d, 0, p, i, "any"))

RequestRevision(s) ==
  \E p \in Processes, i \in 0..StepCount :
     /\ \E u \in Users : u # task.dri
     /\ IF i = 0 THEN p = 1 ELSE procs[p].status # None
     /\ Begin(s, Command("request-revision", None, "IN_PROGRESS", 0, p, i, "any"))

Approve(s) ==
  \E u \in Users, p \in Processes, i \in 0..StepCount :
     /\ u # task.dri /\ task.status = "WAITING_APPROVAL"
     /\ IF i = 0 THEN p = 1 ELSE procs[p].status # None
     /\ Begin(s, Command("approve", u, "COMPLETED", 0, p, i, "read"))

Define(s) ==
  /\ task.status = "WAITING_APPROVAL" /\ Newest = 0
  /\ Begin(s, Command("define", None, "WAITING_APPROVAL", 0, 0, 0, "any"))

\* A resolution of the leadership writes any status, or none.
Resolve(s) ==
  \E to \in Statuses \cup {None} : Begin(s, Command("resolve", None, to, 0, 0, 0, "read"))

Load(s) ==
  \/ UpdateStatus(s) \/ Start(s) \/ UpdateProgress(s) \/ Cancel(s) \/ Resolve(s)
  \/ SubmitResult(s) \/ SubmitDeliverable(s) \/ ReviewDeliverable(s)
  \/ Review(s) \/ RequestRevision(s) \/ Approve(s) \/ Define(s)

-----------------------------------------------------------------------------
(* What a transaction reads again, without a lock, before it writes.       *)

Looked(s, r) ==
  /\ req' = [req EXCEPT ![s] = [r EXCEPT !.stage = "looked"]]
  /\ UNCHANGED <<task, procs, child, roll, moves, touched, stray>>

\* All deliverables approved and no process running: the task is completed.
LookReviewDeliverable(s) ==
  /\ req[s].cmd = "review-deliverable" /\ req[s].stage = "loaded"
  /\ \E all \in BOOLEAN :
       Looked(s, IF req[s].target = "IN_PROGRESS" \/ (all /\ Newest = 0) THEN req[s]
                 ELSE [req[s] EXCEPT !.target = None])

LookReview(s) ==
  /\ req[s].cmd = "review" /\ req[s].stage = "loaded"
  /\ req[s].step # 0 => StepIsOpen(req[s].by, req[s].proc, req[s].step)
  /\ Looked(s, req[s])

\* closeActiveProcessOnRevision.
LookRequestRevision(s) ==
  /\ req[s].cmd = "request-revision" /\ req[s].stage = "loaded"
  /\ Looked(s, [req[s] EXCEPT !.first = Seen])

\* Mutant: any pending step may be signed.
LookAtPending(s) ==
  /\ req[s].cmd = "approve" /\ req[s].stage = "loaded"
  /\ IF req[s].step # 0 THEN Running(req[s].proc) /\ req[s].step \in Pending(req[s].proc)
     ELSE \A p \in Processes, i \in Steps : Running(p) => procs[p].step[i] = "APPROVED"
  /\ Looked(s, [req[s] EXCEPT !.first = Seen])

\* A step is signed in a process that runs; without a step, all of them have been.
LookApprove(s) ==
  /\ req[s].cmd = "approve" /\ req[s].stage = "loaded"
  /\ IF req[s].step # 0 THEN Running(req[s].proc) /\ StepIsOpen(req[s].by, req[s].proc, req[s].step)
     ELSE \A p \in Processes, i \in Steps : Running(p) => procs[p].step[i] = "APPROVED"
  /\ Looked(s, [req[s] EXCEPT !.first = Seen])

-----------------------------------------------------------------------------
(* What it writes.                                                         *)

Done(s) == [req EXCEPT ![s] = Idle]
\* The version of the task has changed for everybody who compares it.
Stale(r) == IF r.version = "read" THEN [r EXCEPT !.version = "old"] ELSE r
Bumped(s) == [t \in Slots |-> IF t = s THEN Idle ELSE Stale(req[t])]
Overtaken == [c \in Children |-> [roll[c] EXCEPT !.clean = FALSE]]

\* Mutant: nobody compares the version.
AlwaysCurrent(s) == TRUE
Current(s) == req[s].version # "old"

\* The update of the task by a command: status and progress in one row.
Write(s, status, progress) ==
  /\ task' = [task EXCEPT !.status = status, !.progress = progress]
  /\ req' = Bumped(s)
  /\ roll' = Overtaken
  /\ touched' = (touched \/ progress # task.progress)
  /\ UNCHANGED <<child, moves>>

CommitMove(s) ==
  /\ req[s].cmd = "move" /\ Current(s)
  /\ procs' = [p \in Processes |-> IF p = req[s].proc THEN [procs[p] EXCEPT !.status = "CANCELLED"] ELSE procs[p]]
  /\ Write(s, req[s].target, req[s].value)
  /\ UNCHANGED stray

CommitSubmit(s) ==
  /\ req[s].cmd = "submit" /\ Current(s)
  /\ Write(s, IF req[s].target = None THEN task.status ELSE req[s].target, task.progress)
  /\ UNCHANGED <<procs, stray>>

\* The status alone: neither the progress nor the processes follow.
CommitResolve(s) ==
  /\ req[s].cmd = "resolve" /\ Current(s)
  /\ Write(s, IF req[s].target = None THEN task.status ELSE req[s].target, task.progress)
  /\ UNCHANGED <<procs, stray>>

CommitCancel(s) ==
  /\ req[s].cmd = "cancel"
  /\ Write(s, "CANCELLED", task.progress)
  /\ UNCHANGED <<procs, stray>>

CommitReviewDeliverable(s) ==
  /\ req[s].cmd = "review-deliverable" /\ req[s].stage = "looked" /\ Current(s)
  /\ Write(s, IF req[s].target = None THEN task.status ELSE req[s].target,
              IF req[s].target = "COMPLETED" THEN 100 ELSE task.progress)
  /\ UNCHANGED <<procs, stray>>

\* A review writes the status that it read, unless it sends the work back or the
\* task is complete once its step is signed.
ReviewedStatus(r, decision) ==
  IF r.target = "IN_PROGRESS" THEN "IN_PROGRESS"
  ELSE IF r.step # 0 /\ decision = "COMPLETED" /\ (r.step = StepCount \/ task.status = "COMPLETED")
    THEN "COMPLETED"
  ELSE r.read

\* The decision of the step and the review of the work (the target) are two
\* inputs; the last step writes the progress even when the work is sent back.
CommitReview(s) ==
  \E decision \in Decisions :
    LET r == req[s]
        status == ReviewedStatus(r, decision)
        whole == status = "COMPLETED" \/ (r.step = StepCount /\ decision = "COMPLETED")
    IN  /\ r.cmd = "review" /\ r.stage = "looked"
        /\ procs' = IF r.step = 0 THEN procs ELSE Executed(r.proc, r.step, decision)
        /\ Write(s, status, IF whole THEN 100 ELSE task.progress)
        /\ stray' = IF r.step # 0 /\ r.step # FirstPending(r.proc) THEN stray \cup {r.proc} ELSE stray

\* The current steps that were read are rejected with their processes; so is the
\* step that is named, and otherwise every process that runs.
CommitRequestRevision(s) ==
  LET r == req[s]
      Rejected(p) == r.first[p] # 0 \/ IF r.step # 0 THEN p = r.proc ELSE Running(p)
      RejectedStep(p, i) == i = r.first[p] \/ (r.step # 0 /\ p = r.proc /\ i = r.step)
  IN  /\ r.cmd = "request-revision" /\ r.stage = "looked"
      /\ procs' = [p \in Processes |->
                    [status |-> IF Rejected(p) THEN "REJECTED" ELSE procs[p].status,
                     step |-> [i \in Steps |-> IF RejectedStep(p, i) THEN "REJECTED" ELSE procs[p].step[i]]]]
      /\ Write(s, "IN_PROGRESS", task.progress)
      /\ stray' = IF r.step # 0 /\ ~Running(r.proc) THEN stray \cup {r.proc} ELSE stray

\* The step is signed; the last one of its process completes the task, and so
\* does the last one that is pending in the processes that were read.
CommitApprove(s) ==
  LET r == req[s]
      saw == {p \in Processes : r.first[p] # 0}
      signed == IF r.step = 0 THEN procs ELSE Executed(r.proc, r.step, "COMPLETED")
      over == \A p \in saw, i \in Steps : signed[p].step[i] # "PENDING"
      completes == over \/ r.step = StepCount
  IN  /\ r.cmd = "approve" /\ r.stage = "looked" /\ Current(s)
      /\ procs' = [p \in Processes |-> IF over /\ p \in saw THEN [signed[p] EXCEPT !.status = "APPROVED"]
                                       ELSE signed[p]]
      /\ Write(s, IF completes THEN "COMPLETED" ELSE task.status, IF completes THEN 100 ELSE task.progress)
      /\ UNCHANGED stray

\* initiateApprovalProcess: the version of the task stays.
CommitDefine(s) ==
  \E p \in Processes :
     /\ req[s].cmd = "define"
     /\ procs[p].status = None /\ \A q \in Processes : procs[q].status = None => p <= q
     /\ procs' = [procs EXCEPT ![p].status = "IN_REVIEW"]
     /\ task' = [task EXCEPT !.status = "WAITING_APPROVAL"]
     /\ req' = Done(s)
     /\ roll' = Overtaken
     /\ UNCHANGED <<child, moves, touched, stray>>

Commit(s) ==
  \/ CommitMove(s) \/ CommitSubmit(s) \/ CommitResolve(s) \/ CommitCancel(s) \/ CommitReviewDeliverable(s)
  \/ CommitReview(s) \/ CommitRequestRevision(s) \/ CommitApprove(s) \/ CommitDefine(s)

\* A check fails and the transaction is rolled back, or the process dies.
Refuse(s) ==
  /\ req[s] # Idle
  /\ req' = Done(s)
  /\ UNCHANGED <<task, procs, child, roll, moves, touched, stray>>

\* setTaskDRI: the version goes up with the change of the people.
Reassign(u) ==
  /\ u # task.dri /\ moves < MaxMoves /\ moves' = moves + 1
  /\ task' = [task EXCEPT !.dri = u]
  /\ req' = [t \in Slots |-> Stale(req[t])]
  /\ UNCHANGED <<procs, child, roll, touched, stray>>

-----------------------------------------------------------------------------
(* The children.                                                           *)

Counting(statuses) == {c \in Children : statuses[c] # "off"}
DoneOf(statuses) == {c \in Children : statuses[c] = "done"}

\* Math.round(done / total * 100).
Rounded(statuses) ==
  LET total == Cardinality(Counting(statuses))
  IN  (200 * Cardinality(DoneOf(statuses)) + total) \div (2 * total)

\* Mutant: a completed parent is left alone.
LeaveCompleted(status, progress) ==
  IF progress = 100 THEN IF status \in {"IN_PROGRESS", "NOT_STARTED"} THEN "WAITING_APPROVAL" ELSE status
  ELSE IF status = "WAITING_APPROVAL" \/ (progress > 0 /\ status = "NOT_STARTED") THEN "IN_PROGRESS"
  ELSE status

\* The status of the parent that goes with the progress of its children.
ParentStatus(status, progress) ==
  IF progress = 100 THEN IF status \in {"IN_PROGRESS", "NOT_STARTED"} THEN "WAITING_APPROVAL" ELSE status
  ELSE IF status \in {"COMPLETED", "WAITING_APPROVAL"} \/ (progress > 0 /\ status = "NOT_STARTED")
    THEN "IN_PROGRESS"
  ELSE status

\* Mutant: the roll-up runs before the update of the child.
BeforeUpdate(c, to) == child
\* What the transaction of a child sees: the committed siblings and its own update.
Siblings(c, to) == [child EXCEPT ![c] = to]

\* A command of a child, up to the two reads of recalculateParentTaskProgress:
\* the siblings, then the parent.
ChildRollsUp(c) ==
  \E to \in {"open", "done", "off"} :
     LET statuses == Siblings(c, to)
         counts == Counting(statuses) # {}
         progress == IF counts THEN Rounded(statuses) ELSE 0
         status == ParentStatus(task.status, progress)
         writes == counts /\ (status # task.status \/ progress # task.progress)
     IN  /\ ~roll[c].busy /\ moves < MaxMoves /\ moves' = moves + 1
         /\ roll' = [roll EXCEPT ![c] =
              [busy |-> TRUE, to |-> to, counts |-> counts, clean |-> TRUE,
               status |-> IF writes THEN status ELSE None, progress |-> IF writes THEN progress ELSE 0]]
         /\ UNCHANGED <<task, procs, child, req, touched, stray>>

\* It writes the parent with what it computed, whatever the parent is by now.
ChildCommits(c) ==
  /\ roll[c].busy
  /\ child' = [child EXCEPT ![c] = roll[c].to]
  /\ IF roll[c].status # None
       THEN /\ task' = [task EXCEPT !.status = roll[c].status, !.progress = roll[c].progress]
            /\ req' = [t \in Slots |-> Stale(req[t])]
       ELSE UNCHANGED <<task, req>>
  /\ roll' = [Overtaken EXCEPT ![c] = NoRoll]
  /\ touched' = (~roll[c].clean \/ (touched /\ ~roll[c].counts))
  /\ UNCHANGED <<procs, moves, stray>>

\* reviewDeliverable, submitDeliverable and a late define of a child do not roll up.
ChildMovesQuietly(c) ==
  /\ child[c] # "off" /\ ~roll[c].busy /\ moves < MaxMoves /\ moves' = moves + 1
  /\ child' = [child EXCEPT ![c] = IF child[c] = "open" THEN "done" ELSE "open"]
  /\ roll' = Overtaken
  /\ touched' = TRUE
  /\ UNCHANGED <<task, procs, req, stray>>

-----------------------------------------------------------------------------
Next ==
  \/ \E s \in Slots : Load(s) \/ Commit(s) \/ Refuse(s)
                      \/ LookReviewDeliverable(s) \/ LookReview(s)
                      \/ LookRequestRevision(s) \/ LookApprove(s)
  \/ \E u \in Users : Reassign(u)
  \/ \E c \in Children : ChildRollsUp(c) \/ ChildCommits(c) \/ ChildMovesQuietly(c)

Spec == Init /\ [][Next]_vars

-----------------------------------------------------------------------------
(* Properties.                                                             *)

Commands == {"move", "submit", "cancel", "review-deliverable", "review", "request-revision",
             "approve", "define", "resolve"}

\* The task, its processes and the commands keep their types, and a command that
\* runs without a version check is one of those that have none.
TypeOK ==
  /\ task \in [status : Statuses, progress : 0..100, dri : Users]
  /\ procs \in [Processes -> [status : {None, "IN_REVIEW", "APPROVED", "REJECTED", "CANCELLED"},
                              step : [Steps -> {"PENDING", "APPROVED", "REJECTED"}]]]
  /\ child \in [Children -> {"open", "done", "off"}]
  /\ roll \in [Children -> [busy : BOOLEAN, to : {"open", "done", "off"}, status : Statuses \cup {None},
                            progress : 0..100, counts : BOOLEAN, clean : BOOLEAN]]
  /\ req \in [Slots -> [cmd : Commands \cup {None}, by : Users \cup {None},
                        stage : {"idle", "loaded", "looked"}, read : Statuses \cup {None},
                        target : Statuses \cup {None}, value : 0..100,
                        proc : 0..MaxProcesses, step : 0..StepCount,
                        first : [Processes -> 0..(StepCount + 1)], version : {"any", "read", "old"}]]
  /\ moves \in 0..MaxMoves /\ touched \in BOOLEAN /\ stray \subseteq Processes

\* A process that runs has a step to decide, unless a decision came late to it:
\* a task that waits for its process can go on.
RunningHasPending == \A p \in Processes \ stray : Running(p) => Pending(p) # {}

\* After a roll-up that nothing ran beside, the progress is that of the children,
\* until somebody sets it by hand.
ProgressIsRolledUp ==
  ~touched /\ Counting(child) # {} => task.progress = Rounded(child)

Ends(s) == req[s] # Idle /\ req'[s] = Idle

\* Whatever completes the task or writes a completed one, a command or a late
\* roll-up, leaves it at 100 per cent or does not change it: only a resolution of
\* the leadership completes it at the progress that it has.
CompletedIsWhole ==
  [][task'.status = "COMPLETED" /\ ~(\E s \in Slots : Ends(s) /\ req[s].cmd = "resolve") =>
       task'.progress = 100 \/ <<task'.status, task'.progress>> = <<task.status, task.progress>>]_vars

\* Nobody completes the task while being its DRI: a reassignment between the
\* check and the update is noticed by the version.
CompletedByAnother ==
  [][task.status # "COMPLETED" /\ task'.status = "COMPLETED" =>
       \A s \in Slots : Ends(s) /\ req[s].cmd \in {"approve", "move"} => req[s].by # task.dri]_vars

\* approve completes a task that still waits, when every step is approved of the
\* process it signs, or (without a step) of all the processes it saw: no step is
\* skipped, and none that was sent back meanwhile is passed over.  A process that
\* a late decision brought back to life is left out: it may hold a rejected step.
ApprovedThroughout ==
  [][\A s \in Slots :
       Ends(s) /\ req[s].cmd = "approve" /\ task.status # "COMPLETED" /\ task'.status = "COMPLETED" =>
          /\ task.status = "WAITING_APPROVAL"
          /\ \A p \in Processes, i \in Steps :
               IF req[s].step = 0 THEN req[s].first[p] # 0 => procs'[p].step[i] = "APPROVED"
               ELSE p = req[s].proc /\ p \notin stray => procs'[p].step[i] = "APPROVED"]_vars
=============================================================================
