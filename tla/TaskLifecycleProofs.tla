------------------------- MODULE TaskLifecycleProofs -------------------------
(***************************************************************************)
(* Proofs about TaskLifecycle, for any number of commands side by side, of *)
(* processes, of steps and of children.  A command that compares the       *)
(* version knows, as long as the version is the one it read, that what it  *)
(* checked still holds; and a process that no late decision reached has    *)
(* its approved steps first and its pending ones, at least one, after them.*)
(***************************************************************************)
EXTENDS TaskLifecycle, FiniteSetTheorems, WellFoundedInduction, TLAPS

ProcStatuses == {None, "IN_REVIEW", "APPROVED", "REJECTED", "CANCELLED"}
StepStatuses == {"PENDING", "APPROVED", "REJECTED"}
Proc == [status : ProcStatuses, step : [Steps -> StepStatuses]]
Roll == [busy : BOOLEAN, to : {"open", "done", "off"}, status : Statuses \cup {None},
         progress : 0..100, counts : BOOLEAN, clean : BOOLEAN]
Request == [cmd : Commands \cup {None}, by : Users \cup {None},
            stage : {"idle", "loaded", "looked"}, read : Statuses \cup {None},
            target : Statuses \cup {None}, value : 0..100,
            proc : 0..MaxProcesses, step : 0..StepCount,
            first : [Processes -> 0..(StepCount + 1)], version : {"any", "read", "old"}]

\* The commands that complete a task by the version they read.
Finishing(r) == r.cmd = "approve" \/ (r.cmd = "move" /\ r.target = "COMPLETED")

\* A command completes the task at 100 per cent only, compares the version if its
\* duties are those of an approver, and names a process if it decides.
Sound(r) ==
  /\ r.cmd \in {"review", "request-revision", "approve"} => r.proc \in Processes
  /\ r.cmd = "move" => r.target \in Statuses
  /\ r.cmd = "submit" => r.target # "COMPLETED"
  /\ r.cmd = "review" => r.read \in Statuses
  /\ (r.cmd = "move" /\ r.target = "COMPLETED") => r.value = 100
  /\ Finishing(r) => r.version # "any"
  /\ r.cmd = None => r = Idle

\* What an approver checked holds until the version changes.
Vouched(r) ==
  r.version # "old" =>
    /\ Finishing(r) => r.by # task.dri
    /\ r.cmd = "approve" => task.status = "WAITING_APPROVAL"

\* The steps that approve looked at, with the processes that ran then.
StepsStand(r) ==
  IF r.step = 0
  THEN \A p \in Processes : r.first[p] # 0 => Running(p) /\ \A i \in Steps : procs[p].step[i] = "APPROVED"
  ELSE /\ Running(r.proc) /\ r.first[r.proc] # 0
       /\ procs[r.proc].step[r.step] = "PENDING"
       /\ \A j \in Steps : j < r.step => procs[r.proc].step[j] = "APPROVED"
Checked(r) == (r.version # "old" /\ r.cmd = "approve" /\ r.stage = "looked") => StepsStand(r)

\* The steps of a process that runs: the approved ones, then those to come.
Split(steps, k) ==
  /\ \A j \in Steps : j < k => steps[j] = "APPROVED"
  /\ \A j \in Steps : j >= k => steps[j] = "PENDING"
Orderly == \A p \in Processes \ stray : Running(p) => \E k \in Steps : Split(procs[p].step, k)
Undefined == \A p \in Processes : procs[p].status = None => \A i \in Steps : procs[p].step[i] = "PENDING"

\* A roll-up leaves a parent completed only when its children are done.
RollIsWhole == \A c \in Children : roll[c].status = "COMPLETED" => roll[c].progress = 100

Typed ==
  /\ task \in [status : Statuses, progress : 0..100, dri : Users]
  /\ procs \in [Processes -> Proc]
  /\ child \in [Children -> {"open", "done", "off"}]
  /\ roll \in [Children -> Roll]
  /\ req \in [Slots -> Request]
  /\ moves \in 0..MaxMoves /\ touched \in BOOLEAN /\ stray \subseteq Processes

AllSound == \A s \in Slots : Sound(req[s])
AllVouched == \A s \in Slots : Vouched(req[s])
AllChecked == \A s \in Slots : Checked(req[s])

LifecycleInv ==
  /\ Typed /\ AllSound /\ AllVouched /\ AllChecked
  /\ Orderly /\ Undefined /\ RollIsWhole

USE TaskAssumption

-----------------------------------------------------------------------------
(* Numbers.                                                                *)

\* A product grows with its factor.
LEMMA Monotone ==
  ASSUME NEW a \in Nat, NEW b \in Nat, NEW n \in Nat, a <= b
  PROVE  n * a <= n * b
<1>1. PICK k \in Nat : b = a + k
  <2>1. b - a \in Nat /\ b = a + (b - a)
    BY SMT
  <2>2. QED
    BY <2>1
<1>2. n * b = n * a + n * k
  BY <1>1, SMT
<1>3. n * k \in Nat /\ n * a \in Nat
  BY SMT
<1>4. QED
  BY <1>2, <1>3, SMT

\* A rounded quotient is a number that fits.
LEMMA Quotient ==
  ASSUME NEW x \in Nat, NEW y \in Nat, y > 0
  PROVE  x \div y \in Nat /\ y * (x \div y) <= x
BY SMT

\* The rounded share of a part is a percentage.
LEMMA PartIsPercentage ==
  ASSUME NEW n \in Nat, NEW d \in Nat, n > 0, d <= n
  PROVE  (200 * d + n) \div (2 * n) \in 0..100
<1> DEFINE a == 200 * d + n
           b == 2 * n
           q == a \div b
<1>1. a \in Nat /\ b \in Nat /\ b > 0 /\ a <= 201 * n /\ b * 101 = 202 * n
  BY SMT
<1>2. q \in Nat /\ b * q <= a
  <2> HIDE DEF a, b
  <2>1. QED
    BY <1>1, Quotient
<1>3. ASSUME q >= 101 PROVE FALSE
  <2> HIDE DEF q, a, b
  <2>1. b * 101 <= b * q
    BY <1>1, <1>2, <1>3, Monotone
  <2>2. b * q \in Nat
    BY <1>1, <1>2
  <2>3. 202 * n <= a
    BY <1>1, <1>2, <2>1, <2>2
  <2>4. QED
    BY <1>1, <2>3
<1>4. QED
  BY <1>2, <1>3

\* So is the progress that rolls up.
LEMMA RoundedIsPercentage ==
  ASSUME NEW statuses \in [Children -> {"open", "done", "off"}], Counting(statuses) # {}
  PROVE  Rounded(statuses) \in 0..100
<1>1. DoneOf(statuses) \subseteq Counting(statuses) /\ Counting(statuses) \subseteq Children
  BY DEF DoneOf, Counting
<1>2. IsFiniteSet(Counting(statuses))
  BY <1>1, FS_Subset
<1>3. /\ Cardinality(Counting(statuses)) \in Nat /\ Cardinality(DoneOf(statuses)) \in Nat
      /\ Cardinality(DoneOf(statuses)) <= Cardinality(Counting(statuses))
  BY <1>1, <1>2, FS_Subset, FS_CardinalityType
<1>4. Cardinality(Counting(statuses)) # 0
  BY <1>2, FS_EmptySet
<1> DEFINE n == Cardinality(Counting(statuses))
           d == Cardinality(DoneOf(statuses))
<1>5. (200 * d + n) \div (2 * n) \in 0..100
  <2> HIDE DEF n, d
  <2>1. n \in Nat /\ d \in Nat /\ n # 0 /\ d <= n
    BY <1>3, <1>4 DEF n, d
  <2>2. n > 0
    BY <2>1
  <2>3. QED
    BY <2>1, <2>2, PartIsPercentage
<1>6. QED
  BY <1>5 DEF Rounded
-----------------------------------------------------------------------------
(* Commands as records.                                                    *)

LEMMA IdleIsRequest == Idle \in Request /\ Sound(Idle) /\ ~Finishing(Idle) /\ Idle.cmd = None
<1>1. Unseen \in [Processes -> 0..(StepCount + 1)]
  BY DEF Unseen
<1>2. Idle.cmd = None /\ Idle \in Request
  BY <1>1 DEF Idle, Request
<1>3. QED
  BY <1>2 DEF Sound, Finishing, None

LEMMA InitHolds ==
  ASSUME Init
  PROVE  LifecycleInv
<1>1. Typed
  <2>1. task \in [status : Statuses, progress : 0..100, dri : Users]
    BY DEF Init, Statuses
  <2>2. procs \in [Processes -> Proc]
    BY DEF Init, Proc, ProcStatuses, StepStatuses
  <2>3. roll \in [Children -> Roll]
    BY DEF Init, Roll, NoRoll
  <2>4. req \in [Slots -> Request] /\ child \in [Children -> {"open", "done", "off"}]
    BY IdleIsRequest DEF Init
  <2>5. moves \in 0..MaxMoves /\ stray \subseteq Processes
    BY DEF Init
  <2>6. touched \in BOOLEAN
    BY Zenon DEF Init
  <2>7. QED
    BY <2>1, <2>2, <2>3, <2>4, <2>5, <2>6, Zenon DEF Typed
<1>2. AllSound
  BY IdleIsRequest DEF Init, AllSound
<1>3. AllVouched /\ AllChecked
  <2>1. \A t \in Slots : req[t] = Idle
    BY DEF Init
  <2>2. Idle.cmd # "approve"
    BY IdleIsRequest DEF None
  <2>3. QED
    BY <2>1, <2>2, IdleIsRequest DEF AllVouched, AllChecked, Vouched, Checked
<1>4. Orderly /\ Undefined
  BY DEF Init, Orderly, Undefined, Running, None
<1>5. RollIsWhole
  BY DEF Init, RollIsWhole, NoRoll, None
<1>6. QED
  BY <1>1, <1>2, <1>3, <1>4, <1>5 DEF LifecycleInv

\* A command whose version has gone is the same otherwise.
LEMMA StaleFields ==
  ASSUME NEW r \in Request, Sound(r)
  PROVE  /\ Stale(r) \in Request /\ Sound(Stale(r))
         /\ Finishing(Stale(r)) => Stale(r).version = "old"
         /\ Stale(r) = Idle => r.cmd = None
<1>1. CASE r.version # "read"
  BY <1>1, IdleIsRequest DEF Stale, Sound, Request
<1>2. CASE r.version = "read"
  <2> DEFINE q == [r EXCEPT !.version = "old"]
  <2>1. Stale(r) = q
    BY <1>2 DEF Stale
  <2>2. q \in Request
    BY DEF Request
  <2>3. /\ q.cmd = r.cmd /\ q.target = r.target /\ q.value = r.value /\ q.proc = r.proc /\ q.read = r.read
        /\ q.version = "old"
    BY DEF Request
  <2>4. r.cmd # None
    BY <1>2 DEF Sound, Idle
  <2> HIDE DEF q
  <2>5. Sound(q)
    BY <2>3, <2>4, <1>2 DEF Sound, Finishing
  <2>6. q # Idle
    BY <2>3, <2>4, IdleIsRequest
  <2>7. QED
    BY <2>1, <2>2, <2>3, <2>5, <2>6
<1>3. QED
  BY <1>1, <1>2

\* One command changes and nothing else.
LEMMA SlotKeeps ==
  ASSUME LifecycleInv, NEW s \in Slots, NEW q \in Request, Sound(q), Vouched(q), Checked(q),
         req' = [req EXCEPT ![s] = q], moves' \in 0..MaxMoves,
         UNCHANGED <<task, procs, child, roll, touched, stray>>
  PROVE  LifecycleInv'
<1>1. req' \in [Slots -> Request] /\ \A t \in Slots : req'[t] = q \/ req'[t] = req[t]
  BY DEF LifecycleInv, Typed
<1>2. Typed'
  BY <1>1 DEF LifecycleInv, Typed
<1>3. AllSound'
  BY <1>1 DEF LifecycleInv, AllSound
<1>4. AllVouched'
  BY <1>1 DEF LifecycleInv, AllVouched, Vouched
<1>5. AllChecked'
  BY <1>1 DEF LifecycleInv, AllChecked, Checked, StepsStand, Running
<1>6. Orderly' /\ Undefined' /\ RollIsWhole'
  BY DEF LifecycleInv, Orderly, Undefined, RollIsWhole, Running
<1>7. QED
  BY <1>2, <1>3, <1>4, <1>5, <1>6 DEF LifecycleInv
-----------------------------------------------------------------------------
(* The newest process.                                                     *)

\* A set of numbers has a least one.
LEMMA Least ==
  ASSUME NEW T, T \subseteq Nat, T # {}
  PROVE  \E x \in T : \A y \in T : x <= y
<1> DEFINE R == {ss \in Nat \X Nat : ss[1] < ss[2]}
<1>1. IsWellFoundedOn(R, Nat)
  BY NatLessThanWellFounded DEF OpToRel
<1> HIDE DEF R
<1>2. PICK x \in T : \A y \in T : ~ (<<y, x>> \in R)
  BY <1>1, WFMin
<1>3. ASSUME NEW y \in T PROVE x <= y
  <2>1. ~ (<<y, x>> \in R)
    BY <1>2
  <2>2. x \in Nat /\ y \in Nat
    OBVIOUS
  <2>3. ~ (y < x)
    BY <2>1, <2>2 DEF R
  <2>4. QED
    BY <2>2, <2>3
<1>4. QED
  BY <1>2, <1>3

LEMMA NewestIsProcess == Newest \in 0..MaxProcesses
<1>1. CASE \A p \in Processes : ~Running(p)
  BY <1>1 DEF Newest
<1>2. ASSUME NEW p0 \in Processes, Running(p0) PROVE Newest \in 0..MaxProcesses
  <2> DEFINE T == {MaxProcesses - p : p \in {q \in Processes : Running(q)}}
  <2>1. T \subseteq Nat /\ T # {}
    BY <1>2 DEF Processes
  <2>2. PICK x \in T : \A y \in T : x <= y
    <3> HIDE DEF T
    <3>1. QED
      BY <2>1, Least
  <2>3. PICK p \in Processes : Running(p) /\ x = MaxProcesses - p
    BY <2>2
  <2>4. \A q \in Processes : Running(q) => q <= p
    <3>1. SUFFICES ASSUME NEW q \in Processes, Running(q) PROVE q <= p
      OBVIOUS
    <3>2. MaxProcesses - q \in T
      BY <3>1
    <3>3. MaxProcesses - p <= MaxProcesses - q
      BY <2>2, <2>3, <3>2
    <3>4. QED
      BY <3>3 DEF Processes
  <2>5. Newest \in Processes
    BY <1>2, <2>3, <2>4 DEF Newest
  <2>6. QED
    BY <2>5 DEF Processes
<1>3. QED
  BY <1>1, <1>2

\* What the types say of the task.
LEMMA TaskTypes ==
  ASSUME LifecycleInv
  PROVE  /\ task.status \in Statuses /\ task.progress \in 0..100 /\ task.dri \in Users
         /\ Resumed \in 0..100
         /\ \A to \in Statuses : ProgressFor(to) \in 0..100 /\ Reworked(to) \in 0..MaxProcesses
<1>1. task.status \in Statuses /\ task.progress \in 0..100 /\ task.dri \in Users
  BY DEF LifecycleInv, Typed
<1>2. Resumed \in 0..100
  BY <1>1 DEF Resumed
<1>3. ASSUME NEW to \in Statuses PROVE ProgressFor(to) \in 0..100
  BY <1>1, <1>2 DEF ProgressFor
<1>4. ASSUME NEW to \in Statuses PROVE Reworked(to) \in 0..MaxProcesses
  BY NewestIsProcess DEF Reworked
<1>5. QED
  BY <1>1, <1>2, <1>3, <1>4

-----------------------------------------------------------------------------
(* The commands begin.                                                     *)

\* What a command has checked, by its fields.
Allowed(cmd, by, target, value, proc, version) ==
  /\ cmd = "move" => target \in Statuses
  /\ cmd = "submit" => target # "COMPLETED"
  /\ (cmd = "move" /\ target = "COMPLETED") => value = 100
  /\ (cmd = "approve" \/ (cmd = "move" /\ target = "COMPLETED")) => version = "read" /\ by # task.dri
  /\ cmd = "approve" => task.status = "WAITING_APPROVAL"
  /\ cmd \in {"review", "request-revision", "approve"} => proc \in Processes

\* A command that says what it checked may begin.
LEMMA BeginKeeps ==
  ASSUME LifecycleInv, NEW s \in Slots,
         NEW cmd \in Commands, NEW by \in Users \cup {None},
         NEW target \in Statuses \cup {None}, NEW value \in 0..100, NEW proc \in 0..MaxProcesses,
         NEW step \in 0..StepCount, NEW version \in {"any", "read"},
         Allowed(cmd, by, target, value, proc, version),
         Begin(s, Command(cmd, by, target, value, proc, step, version))
  PROVE  LifecycleInv'
<1> DEFINE q == Command(cmd, by, target, value, proc, step, version)
<1>1. q \in Request
  <2>1. Unseen \in [Processes -> 0..(StepCount + 1)]
    BY DEF Unseen
  <2>2. QED
    BY <2>1, TaskTypes DEF Request, Command
<1>2. /\ q.cmd = cmd /\ q.by = by /\ q.stage = "loaded" /\ q.target = target /\ q.value = value
      /\ q.proc = proc /\ q.version = version
      /\ cmd = "review" => q.read \in Statuses
  BY TaskTypes DEF Command
<1>3. cmd # None
  BY DEF Commands, None
<1> HIDE DEF q
<1>4. Sound(q)
  BY <1>2, <1>3 DEF Sound, Finishing, Allowed
<1>5. Vouched(q)
  BY <1>2 DEF Vouched, Finishing, Allowed
<1>6. Checked(q)
  BY <1>2 DEF Checked
<1>7. moves' \in 0..MaxMoves
  BY DEF Begin, LifecycleInv, Typed
<1>8. /\ req' = [req EXCEPT ![s] = q]
      /\ UNCHANGED <<task, procs, child, roll, touched, stray>>
  BY DEF Begin, q
<1>9. QED
  BY <1>1, <1>4, <1>5, <1>6, <1>7, <1>8, SlotKeeps
-----------------------------------------------------------------------------
(* Each command begins soundly.                                            *)

LEMMA Givens ==
  /\ 0 \in 0..100 /\ 0 \in 0..MaxProcesses /\ 0 \in 0..StepCount
  /\ \A c \in {"move", "submit", "cancel", "review-deliverable", "review", "request-revision",
                "approve", "define", "resolve"} : c \in Commands
  /\ \A c \in {"NOT_STARTED", "IN_PROGRESS", "WAITING_APPROVAL", "COMPLETED", "CANCELLED"} :
       c \in Statuses \cup {None}
BY DEF Commands, Statuses

LEMMA UpdateStatusKeeps ==
  ASSUME LifecycleInv, NEW s \in Slots, UpdateStatus(s)
  PROVE  LifecycleInv'
<1>1. PICK to \in Statuses, version \in {"any", "read"}, u \in Users \cup {None} :
        /\ IF to = "COMPLETED" THEN u \notin {task.dri, None} /\ Newest = 0 /\ version = "read" ELSE u = None
        /\ Begin(s, Command("move", u, to, ProgressFor(to), Reworked(to), 0, version))
  BY Zenon DEF UpdateStatus
<1> DEFINE value == ProgressFor(to)
           proc == Reworked(to)
<1>2. value \in 0..100 /\ proc \in 0..MaxProcesses
  BY TaskTypes
<1>3. to = "COMPLETED" => value = 100
  BY DEF ProgressFor
<1>4. to = "COMPLETED" => version = "read" /\ u # task.dri
  BY <1>1
<1>5. Begin(s, Command("move", u, to, value, proc, 0, version))
  BY <1>1
<1> HIDE DEF value, proc
<1>6. Allowed("move", u, to, value, proc, version)
  BY <1>3, <1>4 DEF Allowed
<1>7. "move" \in Commands /\ to \in Statuses \cup {None} /\ 0 \in 0..StepCount
  BY DEF Commands
<1>8. QED
  BY <1>2, <1>5, <1>6, <1>7, BeginKeeps, ZenonT(30)

LEMMA StartKeeps ==
  ASSUME LifecycleInv, NEW s \in Slots, Start(s)
  PROVE  LifecycleInv'
<1> DEFINE value == Resumed
           proc == Reworked("IN_PROGRESS")
<1>1. Begin(s, Command("move", None, "IN_PROGRESS", value, proc, 0, "any"))
  BY DEF Start
<1>2. value \in 0..100 /\ proc \in 0..MaxProcesses
  BY TaskTypes DEF Statuses
<1> HIDE DEF value, proc
<1>3. "IN_PROGRESS" \in Statuses
  BY DEF Statuses
<1>4. QED
  BY <1>1, <1>2, <1>3, BeginKeeps, Givens, ZenonT(30) DEF Allowed

LEMMA UpdateProgressKeeps ==
  ASSUME LifecycleInv, NEW s \in Slots, UpdateProgress(s)
  PROVE  LifecycleInv'
<1>1. PICK value \in {0, 50, 100} :
        /\ task.status \notin Closed
        /\ Begin(s, Command("move", None, StatusFor(value), value, 0, 0, "read"))
  BY Zenon DEF UpdateProgress
<1> DEFINE target == StatusFor(value)
<1>2. target \in Statuses /\ target # "COMPLETED"
  BY <1>1, TaskTypes DEF StatusFor, Statuses, Closed
<1>3. Begin(s, Command("move", None, target, value, 0, 0, "read"))
  BY <1>1
<1> HIDE DEF target
<1>4. value \in 0..100
  OBVIOUS
<1>5. QED
  BY <1>2, <1>3, <1>4, BeginKeeps, Givens, ZenonT(30) DEF Allowed

LEMMA SubmitKeeps ==
  ASSUME LifecycleInv, NEW s \in Slots, SubmitResult(s) \/ SubmitDeliverable(s)
  PROVE  LifecycleInv'
<1>1. PICK target \in {None, "WAITING_APPROVAL"}, version \in {"any", "read"} :
        Begin(s, Command("submit", None, target, 0, 0, 0, version))
  <2>1. CASE SubmitResult(s)
    BY <2>1 DEF SubmitResult
  <2>2. CASE SubmitDeliverable(s)
    BY <2>2 DEF SubmitDeliverable
  <2>3. QED
    BY <2>1, <2>2
<1>2. target \in Statuses \cup {None} /\ Allowed("submit", None, target, 0, 0, version)
  BY DEF Statuses, Allowed, None
<1>3. "submit" \in Commands /\ 0 \in 0..100 /\ 0 \in 0..MaxProcesses /\ 0 \in 0..StepCount
  BY DEF Commands
<1>4. QED
  BY <1>1, <1>2, <1>3, BeginKeeps, ZenonT(30)

LEMMA CancelKeeps ==
  ASSUME LifecycleInv, NEW s \in Slots, Cancel(s)
  PROVE  LifecycleInv'
<1>1. Begin(s, Command("cancel", None, "CANCELLED", 0, 0, 0, "any"))
  BY DEF Cancel
<1>2. QED
  BY <1>1, BeginKeeps, Givens, ZenonT(30) DEF Allowed

LEMMA ResolveKeeps ==
  ASSUME LifecycleInv, NEW s \in Slots, Resolve(s)
  PROVE  LifecycleInv'
<1>1. PICK to \in Statuses \cup {None} : Begin(s, Command("resolve", None, to, 0, 0, 0, "read"))
  BY Zenon DEF Resolve
<1>2. QED
  BY <1>1, BeginKeeps, Givens, ZenonT(30) DEF Allowed

LEMMA ReviewDeliverableKeeps ==
  ASSUME LifecycleInv, NEW s \in Slots, ReviewDeliverable(s)
  PROVE  LifecycleInv'
<1>1. PICK d \in Decisions : Begin(s, Command("review-deliverable", None, d, 0, 0, 0, "read"))
  BY Zenon DEF ReviewDeliverable
<1>2. d \in Statuses
  BY DEF Decisions, Statuses
<1>3. QED
  BY <1>1, <1>2, BeginKeeps, Givens, ZenonT(30) DEF Allowed

LEMMA ReviewKeeps ==
  ASSUME LifecycleInv, NEW s \in Slots, Review(s)
  PROVE  LifecycleInv'
<1>1. PICK u \in Users, d \in Decisions, p \in Processes, i \in 0..StepCount :
        Begin(s, Command("review", u, d, 0, p, i, "any"))
  BY Zenon DEF Review
<1>2. d \in Statuses /\ p \in 0..MaxProcesses
  BY DEF Decisions, Statuses, Processes
<1>3. QED
  BY <1>1, <1>2, BeginKeeps, Givens, ZenonT(30) DEF Allowed

LEMMA RequestRevisionKeeps ==
  ASSUME LifecycleInv, NEW s \in Slots, RequestRevision(s)
  PROVE  LifecycleInv'
<1>1. PICK p \in Processes, i \in 0..StepCount :
        Begin(s, Command("request-revision", None, "IN_PROGRESS", 0, p, i, "any"))
  BY Zenon DEF RequestRevision
<1>2. p \in 0..MaxProcesses
  BY DEF Processes
<1>3. QED
  BY <1>1, <1>2, BeginKeeps, Givens, ZenonT(30) DEF Allowed

LEMMA ApproveKeeps ==
  ASSUME LifecycleInv, NEW s \in Slots, Approve(s)
  PROVE  LifecycleInv'
<1>1. PICK u \in Users, p \in Processes, i \in 0..StepCount :
        /\ u # task.dri /\ task.status = "WAITING_APPROVAL"
        /\ Begin(s, Command("approve", u, "COMPLETED", 0, p, i, "read"))
  BY Zenon DEF Approve
<1>2. p \in 0..MaxProcesses
  BY DEF Processes
<1>3. QED
  BY <1>1, <1>2, BeginKeeps, Givens, ZenonT(30) DEF Allowed

LEMMA DefineKeeps ==
  ASSUME LifecycleInv, NEW s \in Slots, Define(s)
  PROVE  LifecycleInv'
<1>1. Begin(s, Command("define", None, "WAITING_APPROVAL", 0, 0, 0, "any"))
  BY DEF Define
<1>2. QED
  BY <1>1, BeginKeeps, Givens, ZenonT(30) DEF Allowed

LEMMA LoadKeeps ==
  ASSUME LifecycleInv, NEW s \in Slots, Load(s)
  PROVE  LifecycleInv'
BY UpdateStatusKeeps, StartKeeps, UpdateProgressKeeps, CancelKeeps, ResolveKeeps, SubmitKeeps,
   ReviewDeliverableKeeps, ReviewKeeps, RequestRevisionKeeps, ApproveKeeps, DefineKeeps DEF Load
-----------------------------------------------------------------------------
(* What a transaction looks at.                                            *)

\* The current step of a process is the first that is pending.
LEMMA FirstPendingIs ==
  ASSUME NEW p \in Processes
  PROVE  /\ FirstPending(p) \in 0..(StepCount + 1)
         /\ ~Running(p) <=> FirstPending(p) = 0
         /\ FirstPending(p) \in Steps =>
              FirstPending(p) \in Pending(p) /\ \A j \in Pending(p) : FirstPending(p) <= j
<1>1. CASE ~Running(p)
  BY <1>1 DEF FirstPending, Steps
<1>2. CASE Running(p) /\ Pending(p) = {}
  BY <1>2 DEF FirstPending, Steps
<1>3. CASE Running(p) /\ Pending(p) # {}
  <2>1. Pending(p) \subseteq Nat /\ Pending(p) \subseteq Steps
    BY DEF Pending, Steps
  <2>2. \E x \in Pending(p) : \A y \in Pending(p) : x <= y
    BY <1>3, <2>1, Least
  <2>3. FirstPending(p) \in Pending(p) /\ \A j \in Pending(p) : FirstPending(p) <= j
    BY <1>3, <2>2 DEF FirstPending
  <2>4. QED
    BY <1>3, <2>1, <2>3 DEF Steps
<1>4. QED
  BY <1>1, <1>2, <1>3

LEMMA SeenIsTyped == Seen \in [Processes -> 0..(StepCount + 1)]
BY FirstPendingIs DEF Seen

\* A command that has looked says what it saw.
LEMMA LookedKeeps ==
  ASSUME LifecycleInv, NEW s \in Slots, NEW r \in Request, Sound(r), Vouched(r), r.cmd # None,
         r.cmd = "approve" => StepsStand(r), Looked(s, r)
  PROVE  LifecycleInv'
<1> DEFINE q == [r EXCEPT !.stage = "looked"]
<1>1. q \in Request
  BY DEF Request
<1>2. /\ q.cmd = r.cmd /\ q.by = r.by /\ q.target = r.target /\ q.value = r.value /\ q.proc = r.proc /\ q.read = r.read
      /\ q.step = r.step /\ q.first = r.first /\ q.version = r.version
  BY DEF Request
<1>3. req' = [req EXCEPT ![s] = q] /\ UNCHANGED <<task, procs, child, roll, moves, touched, stray>>
  BY DEF Looked
<1> HIDE DEF q
<1>4. Sound(q)
  BY <1>2 DEF Sound, Finishing
<1>5. Vouched(q)
  BY <1>2 DEF Vouched, Finishing
<1>6. Checked(q)
  BY <1>2 DEF Checked, StepsStand
<1>7. moves' \in 0..MaxMoves
  BY <1>3 DEF LifecycleInv, Typed
<1>8. QED
  BY <1>1, <1>3, <1>4, <1>5, <1>6, <1>7, SlotKeeps

LEMMA SlotFacts ==
  ASSUME LifecycleInv, NEW s \in Slots
  PROVE  req[s] \in Request /\ Sound(req[s]) /\ Vouched(req[s]) /\ Checked(req[s])
BY DEF LifecycleInv, Typed, AllSound, AllVouched, AllChecked

LEMMA LookReviewDeliverableKeeps ==
  ASSUME LifecycleInv, NEW s \in Slots, LookReviewDeliverable(s)
  PROVE  LifecycleInv'
<1> DEFINE q == [req[s] EXCEPT !.target = None]
<1>1. req[s].cmd = "review-deliverable" /\ (Looked(s, req[s]) \/ Looked(s, q))
  BY DEF LookReviewDeliverable
<1>2. req[s] \in Request /\ Sound(req[s]) /\ Vouched(req[s])
  BY SlotFacts
<1>3. q \in Request /\ q.cmd = req[s].cmd
  BY <1>2 DEF Request
<1>4. "review-deliverable" # None
  BY DEF None
<1> HIDE DEF q
<1>5. Sound(q) /\ Vouched(q)
  BY <1>1, <1>3, <1>4 DEF Sound, Vouched, Finishing
<1>6. CASE Looked(s, req[s])
  BY <1>1, <1>2, <1>4, <1>6, LookedKeeps
<1>7. CASE Looked(s, q)
  BY <1>1, <1>3, <1>4, <1>5, <1>7, LookedKeeps
<1>8. QED
  BY <1>1, <1>6, <1>7

LEMMA LookReviewKeeps ==
  ASSUME LifecycleInv, NEW s \in Slots, LookReview(s)
  PROVE  LifecycleInv'
<1>1. req[s].cmd = "review" /\ Looked(s, req[s]) /\ "review" # None
  BY DEF LookReview, None
<1>2. QED
  BY <1>1, SlotFacts, LookedKeeps

LEMMA FirstFields ==
  ASSUME NEW r \in Request, NEW q, q = [r EXCEPT !.first = Seen]
  PROVE  /\ q \in Request /\ q.cmd = r.cmd /\ q.by = r.by /\ q.target = r.target /\ q.value = r.value
         /\ q.proc = r.proc /\ q.step = r.step /\ q.first = Seen /\ q.version = r.version
BY SeenIsTyped DEF Request

LEMMA LookRequestRevisionKeeps ==
  ASSUME LifecycleInv, NEW s \in Slots, LookRequestRevision(s)
  PROVE  LifecycleInv'
<1> DEFINE q == [req[s] EXCEPT !.first = Seen]
<1>1. req[s].cmd = "request-revision" /\ Looked(s, q) /\ "request-revision" # None
  BY DEF LookRequestRevision, None
<1>2. req[s] \in Request /\ Sound(req[s]) /\ Vouched(req[s])
  BY SlotFacts
<1>3. /\ q \in Request /\ q.cmd = req[s].cmd /\ q.proc = req[s].proc
      /\ q.target = req[s].target /\ q.version = req[s].version
  BY <1>2, FirstFields
<1> HIDE DEF q
<1>4. Sound(q) /\ Vouched(q)
  BY <1>1, <1>2, <1>3 DEF Sound, Vouched, Finishing
<1>5. QED
  BY <1>1, <1>3, <1>4, LookedKeeps

LEMMA LookApproveKeeps ==
  ASSUME LifecycleInv, NEW s \in Slots, LookApprove(s)
  PROVE  LifecycleInv'
<1> DEFINE q == [req[s] EXCEPT !.first = Seen]
<1>1. /\ req[s].cmd = "approve" /\ Looked(s, q) /\ "approve" # None
      /\ IF req[s].step # 0
         THEN Running(req[s].proc) /\ StepIsOpen(req[s].by, req[s].proc, req[s].step)
         ELSE \A p \in Processes, i \in Steps : Running(p) => procs[p].step[i] = "APPROVED"
  BY DEF LookApprove, None
<1>2. req[s] \in Request /\ Sound(req[s]) /\ Vouched(req[s])
  BY SlotFacts
<1>3. /\ q \in Request /\ q.cmd = req[s].cmd /\ q.proc = req[s].proc /\ q.by = req[s].by
      /\ q.target = req[s].target /\ q.version = req[s].version /\ q.step = req[s].step /\ q.first = Seen
  BY <1>2, FirstFields
<1> HIDE DEF q
<1>4. Sound(q)
  BY <1>1, <1>2, <1>3 DEF Sound, Finishing
<1>5. Vouched(q)
  BY <1>2, <1>3 DEF Vouched, Finishing
<1>6. req[s].proc \in Processes
  BY <1>1, <1>2 DEF Sound
<1>7. \A p \in Processes : Seen[p] = FirstPending(p) /\ (Seen[p] # 0 <=> Running(p))
  BY FirstPendingIs DEF Seen
<1>8. StepsStand(q)
  BY <1>1, <1>3, <1>6, <1>7 DEF StepsStand, StepIsOpen
<1>9. QED
  BY <1>1, <1>3, <1>4, <1>5, <1>8, LookedKeeps

LEMMA RefuseKeeps ==
  ASSUME LifecycleInv, NEW s \in Slots, Refuse(s)
  PROVE  LifecycleInv'
<1>1. Vouched(Idle) /\ Checked(Idle)
  BY IdleIsRequest DEF Vouched, Checked, None
<1>2. /\ req' = [req EXCEPT ![s] = Idle] /\ moves' \in 0..MaxMoves
      /\ UNCHANGED <<task, procs, child, roll, touched, stray>>
  BY DEF Refuse, Done, LifecycleInv, Typed
<1>3. QED
  BY <1>1, <1>2, IdleIsRequest, SlotKeeps
-----------------------------------------------------------------------------
(* What a transaction writes.                                              *)

\* Everything but the processes, and the processes.
TaskPart ==
  /\ task \in [status : Statuses, progress : 0..100, dri : Users]
  /\ child \in [Children -> {"open", "done", "off"}] /\ roll \in [Children -> Roll]
  /\ req \in [Slots -> Request] /\ moves \in 0..MaxMoves /\ touched \in BOOLEAN
  /\ AllSound /\ AllVouched /\ AllChecked /\ RollIsWhole
ProcessPart == procs \in [Processes -> Proc] /\ stray \subseteq Processes /\ Orderly /\ Undefined

LEMMA Parts == LifecycleInv <=> TaskPart /\ ProcessPart
BY Zenon DEF LifecycleInv, Typed, TaskPart, ProcessPart

\* After an update of the task nobody who compares the version may go on.
LEMMA BumpedFacts ==
  ASSUME LifecycleInv, NEW s \in Slots, req' = Bumped(s)
  PROVE  /\ req' \in [Slots -> Request] /\ AllSound' /\ AllVouched' /\ AllChecked'
<1>1. \A t \in Slots : req'[t] = IF t = s THEN Idle ELSE Stale(req[t])
  BY DEF Bumped
<1>2. \A t \in Slots : req'[t] \in Request /\ Sound(req'[t])
  BY <1>1, IdleIsRequest, StaleFields, SlotFacts
<1>3. req' \in [Slots -> Request]
  BY <1>1, <1>2 DEF Bumped
<1>4. \A t \in Slots : Finishing(req'[t]) => req'[t].version = "old"
  BY <1>1, IdleIsRequest, StaleFields, SlotFacts
<1>5. AllSound'
  BY <1>2 DEF AllSound, Sound, Finishing
<1>6. AllVouched'
  BY <1>4 DEF AllVouched, Vouched, Finishing
<1>7. AllChecked'
  BY <1>4 DEF AllChecked, Checked, Finishing
<1>8. QED
  BY <1>3, <1>5, <1>6, <1>7

LEMMA OvertakenFacts ==
  ASSUME LifecycleInv
  PROVE  /\ Overtaken \in [Children -> Roll]
         /\ \A c \in Children : Overtaken[c].status = roll[c].status
                                /\ Overtaken[c].progress = roll[c].progress
<1>1. ASSUME NEW c \in Children
      PROVE  /\ [roll[c] EXCEPT !.clean = FALSE] \in Roll
             /\ [roll[c] EXCEPT !.clean = FALSE].status = roll[c].status
             /\ [roll[c] EXCEPT !.clean = FALSE].progress = roll[c].progress
  <2>1. roll[c] \in Roll
    BY DEF LifecycleInv, Typed
  <2>2. [roll[c] EXCEPT !.clean = FALSE] \in Roll
    BY <2>1 DEF Roll
  <2>3. QED
    BY <2>1, <2>2, Zenon DEF Roll
<1>2. QED
  BY <1>1 DEF Overtaken

LEMMA WriteKeeps ==
  ASSUME LifecycleInv, NEW s \in Slots, NEW status \in Statuses, NEW progress \in 0..100,
         Write(s, status, progress)
  PROVE  TaskPart'
<1>1. task' = [task EXCEPT !.status = status, !.progress = progress]
      /\ req' = Bumped(s) /\ roll' = Overtaken /\ child' = child /\ moves' = moves
  BY DEF Write
<1>2. touched' \in BOOLEAN
  BY Zenon DEF Write
<1>3. task \in [status : Statuses, progress : 0..100, dri : Users]
  BY DEF LifecycleInv, Typed
<1>4. /\ task' \in [status : Statuses, progress : 0..100, dri : Users]
      /\ task'.status = status /\ task'.progress = progress
  BY <1>1, <1>3
<1>6. roll' \in [Children -> Roll] /\ RollIsWhole'
  BY <1>1, OvertakenFacts DEF RollIsWhole, LifecycleInv
<1>7. child' \in [Children -> {"open", "done", "off"}] /\ moves' \in 0..MaxMoves
  BY <1>1 DEF LifecycleInv, Typed
<1>8. req' \in [Slots -> Request] /\ AllSound' /\ AllVouched' /\ AllChecked'
  BY <1>1, BumpedFacts
<1>9. QED
  BY <1>2, <1>4, <1>6, <1>7, <1>8, Zenon DEF TaskPart

LEMMA ProcFields ==
  ASSUME LifecycleInv, NEW p \in Processes
  PROVE  /\ procs[p] \in Proc /\ procs[p].status \in ProcStatuses
         /\ procs[p].step \in [Steps -> StepStatuses]
BY DEF LifecycleInv, Typed, Proc

LEMMA CommitMoveKeeps ==
  ASSUME LifecycleInv, NEW s \in Slots, CommitMove(s)
  PROVE  LifecycleInv'
<1>1. PICK status, progress : status = req[s].target /\ progress = req[s].value
  OBVIOUS
<1>2. req[s].cmd = "move" /\ Write(s, status, progress)
  BY <1>1 DEF CommitMove
<1>3. req[s] \in Request /\ Sound(req[s])
  BY SlotFacts
<1>4. status \in Statuses
  BY <1>1, <1>2, <1>3 DEF Request, Sound
<1>5. progress \in 0..100
  BY <1>1, <1>3 DEF Request
<1>6. TaskPart'
  BY <1>2, <1>4, <1>5, WriteKeeps
<1>7. ProcessPart'
  <2>1. /\ stray' = stray
        /\ procs' = [p \in Processes |-> IF p = req[s].proc THEN [procs[p] EXCEPT !.status = "CANCELLED"]
                                         ELSE procs[p]]
    BY DEF CommitMove
  <2>2. ASSUME NEW p \in Processes
        PROVE  /\ procs'[p] \in Proc /\ procs'[p].step = procs[p].step
               /\ procs'[p].status = procs[p].status \/ procs'[p].status = "CANCELLED"
    BY <2>1, ProcFields DEF Proc, ProcStatuses
  <2>3. procs' \in [Processes -> Proc]
    BY <2>1, <2>2
  <2>4. Orderly'
    BY <2>1, <2>2 DEF LifecycleInv, Orderly, Running
  <2>5. Undefined'
    BY <2>2 DEF LifecycleInv, Undefined, None
  <2>6. QED
    BY <2>1, <2>3, <2>4, <2>5 DEF ProcessPart, LifecycleInv, Typed
<1>8. QED
  BY <1>6, <1>7, Parts, PTL

\* The commands that leave the processes alone.
LEMMA PlainCommitKeeps ==
  ASSUME LifecycleInv, NEW s \in Slots,
         CommitSubmit(s) \/ CommitResolve(s) \/ CommitCancel(s) \/ CommitReviewDeliverable(s)
  PROVE  LifecycleInv'
<1> DEFINE target == IF req[s].target = None THEN task.status ELSE req[s].target
           progress == IF req[s].target = "COMPLETED" THEN 100 ELSE task.progress
<1>1. target \in Statuses /\ progress \in 0..100 /\ task.progress \in 0..100 /\ "CANCELLED" \in Statuses
  BY SlotFacts, TaskTypes DEF Request, Statuses
<1>2. \/ Write(s, target, task.progress) \/ Write(s, "CANCELLED", task.progress)
      \/ Write(s, target, progress)
  BY DEF CommitSubmit, CommitResolve, CommitCancel, CommitReviewDeliverable
<1>3. TaskPart'
  <2> HIDE DEF target, progress
  <2>1. QED
    BY <1>1, <1>2, WriteKeeps
<1>4. procs' = procs /\ stray' = stray
  BY DEF CommitSubmit, CommitResolve, CommitCancel, CommitReviewDeliverable
<1>5. ProcessPart'
  BY <1>4, Parts DEF ProcessPart, Orderly, Undefined, Running
<1>6. QED
  BY <1>3, <1>5, Parts, PTL

\* What a decision of a step makes of its process.
LEMMA ExecutedFacts ==
  ASSUME LifecycleInv, NEW p \in Processes, NEW i \in Steps, NEW decision, NEW new, new = Executed(p, i, decision)
  PROVE  /\ new \in [Processes -> Proc]
         /\ \A q \in Processes : q # p => new[q] = procs[q]
         /\ new[p].status # None
         /\ \A j \in Steps : j # i => new[p].step[j] = procs[p].step[j]
         /\ decision = "COMPLETED" => new[p].step[i] = "APPROVED"
         /\ (new[p].status = "IN_REVIEW") => decision = "COMPLETED" /\ i < StepCount
<1> DEFINE steps == [procs[p].step EXCEPT ![i] = IF decision = "COMPLETED" THEN "APPROVED" ELSE "REJECTED"]
           status == IF decision # "COMPLETED" THEN "REJECTED"
                     ELSE IF i < StepCount THEN "IN_REVIEW" ELSE "APPROVED"
           record == [step |-> steps, status |-> status]
<1>1. procs \in [Processes -> Proc] /\ procs[p].step \in [Steps -> StepStatuses]
  BY ProcFields DEF LifecycleInv, Typed
<1>2. /\ steps \in [Steps -> StepStatuses] /\ \A j \in Steps : j # i => steps[j] = procs[p].step[j]
      /\ decision = "COMPLETED" => steps[i] = "APPROVED"
  BY <1>1 DEF StepStatuses
<1>3. /\ status \in ProcStatuses /\ status # None
      /\ status = "IN_REVIEW" => decision = "COMPLETED" /\ i < StepCount
  BY DEF ProcStatuses, None
<1>4. new = [procs EXCEPT ![p] = record]
  BY DEF Executed
<1> HIDE DEF steps, status
<1>5. record \in Proc /\ record.step = steps /\ record.status = status
  BY <1>2, <1>3 DEF Proc
<1> HIDE DEF record
<1>6. new \in [Processes -> Proc] /\ new[p] = record /\ \A q \in Processes : q # p => new[q] = procs[q]
  BY <1>1, <1>4, <1>5
<1>7. QED
  BY <1>2, <1>3, <1>5, <1>6

\* The decision of the first pending step moves the border of an orderly process.
LEMMA ExecutedOrder ==
  ASSUME LifecycleInv, NEW p \in Processes, NEW i \in Steps, NEW decision, NEW new, new = Executed(p, i, decision),
         p \notin stray, Running(p), procs[p].step[i] = "PENDING",
         \A j \in Steps : j < i => procs[p].step[j] # "PENDING",
         new[p].status = "IN_REVIEW"
  PROVE  \E k \in Steps : Split(new[p].step, k)
<1>1. PICK k \in Steps : Split(procs[p].step, k)
  BY DEF LifecycleInv, Orderly
<1>2. i = k
  BY <1>1 DEF Split, Steps
<1>3. decision = "COMPLETED" /\ i < StepCount
  BY ExecutedFacts
<1>4. k + 1 \in Steps
  BY <1>2, <1>3 DEF Steps
<1>5. new[p].step[i] = "APPROVED" /\ \A j \in Steps : j # i => new[p].step[j] = procs[p].step[j]
  BY <1>3, ExecutedFacts
<1>6. Split(new[p].step, k + 1)
  BY <1>1, <1>2, <1>5 DEF Split, Steps
<1>7. QED
  BY <1>4, <1>6

LEMMA CommitReviewKeeps ==
  ASSUME LifecycleInv, NEW s \in Slots, CommitReview(s)
  PROVE  LifecycleInv'
<1>0. PICK decision \in Decisions :
        LET r == req[s]
            status == ReviewedStatus(r, decision)
            whole == status = "COMPLETED" \/ (r.step = StepCount /\ decision = "COMPLETED")
        IN  /\ r.cmd = "review"
            /\ procs' = IF r.step = 0 THEN procs ELSE Executed(r.proc, r.step, decision)
            /\ Write(s, status, IF whole THEN 100 ELSE task.progress)
            /\ stray' = IF r.step # 0 /\ r.step # FirstPending(r.proc) THEN stray \cup {r.proc} ELSE stray
  BY Zenon DEF CommitReview
<1> DEFINE r == req[s]
           status == ReviewedStatus(r, decision)
           whole == status = "COMPLETED" \/ (r.step = StepCount /\ decision = "COMPLETED")
           progress == IF whole THEN 100 ELSE task.progress
<1>1. /\ r.cmd = "review"
      /\ procs' = IF r.step = 0 THEN procs ELSE Executed(r.proc, r.step, decision)
      /\ Write(s, status, progress)
      /\ stray' = IF r.step # 0 /\ r.step # FirstPending(r.proc) THEN stray \cup {r.proc} ELSE stray
  BY <1>0, Zenon
<1>2. r \in Request /\ Sound(r)
  BY SlotFacts
<1>3. r.proc \in Processes /\ r.step \in 0..StepCount /\ r.read \in Statuses
  BY <1>1, <1>2 DEF Sound, Request
<1>4. TaskPart'
  <2>1. status \in Statuses
    BY <1>3 DEF ReviewedStatus, Statuses
  <2>2. progress \in 0..100
    BY TaskTypes
  <2> HIDE DEF status, progress
  <2>3. QED
    BY <1>1, <2>1, <2>2, WriteKeeps
<1>5. ProcessPart'
  <2>1. CASE r.step = 0
    <3>1. procs' = procs /\ stray' = stray
      BY <1>1, <2>1
    <3>2. QED
      BY <3>1, Parts DEF ProcessPart, Orderly, Undefined, Running
  <2>2. CASE r.step # 0
    <3> DEFINE p == r.proc
               i == r.step
    <3>1. i \in Steps /\ p \in Processes
      BY <1>3, <2>2 DEF Steps
    <3>2. procs' = Executed(p, i, decision)
          /\ stray' = IF i # FirstPending(p) THEN stray \cup {p} ELSE stray
      BY <1>1, <2>2
    <3> HIDE DEF p, i, r
    <3>3. /\ procs' \in [Processes -> Proc] /\ \A q \in Processes : q # p => procs'[q] = procs[q]
          /\ procs'[p].status # None
      BY <3>1, <3>2, ExecutedFacts
    <3>4. Undefined'
      BY <3>3 DEF LifecycleInv, Undefined
    <3>5. stray' \subseteq Processes
      BY <3>1, <3>2 DEF LifecycleInv, Typed
    <3>6. ASSUME p \notin stray', procs'[p].status = "IN_REVIEW" PROVE \E k \in Steps : Split(procs'[p].step, k)
      <4>1. i = FirstPending(p) /\ p \notin stray
        BY <3>2, <3>6
      <4>2. Running(p) /\ i \in Pending(p) /\ \A j \in Pending(p) : i <= j
        BY <3>1, <4>1, FirstPendingIs DEF Steps
      <4>3. procs[p].step[i] = "PENDING" /\ \A j \in Steps : j < i => procs[p].step[j] # "PENDING"
        BY <3>1, <4>2 DEF Pending, Steps
      <4>4. QED
        BY <3>1, <3>2, <3>6, <4>1, <4>2, <4>3, ExecutedOrder
    <3>7. Orderly'
      BY <3>2, <3>3, <3>6 DEF LifecycleInv, Orderly, Running
    <3>8. QED
      BY <3>3, <3>4, <3>5, <3>7 DEF ProcessPart
  <2>3. QED
    BY <2>1, <2>2
<1>6. QED
  BY <1>4, <1>5, Parts, PTL

LEMMA CommitRequestRevisionKeeps ==
  ASSUME LifecycleInv, NEW s \in Slots, CommitRequestRevision(s)
  PROVE  LifecycleInv'
<1> DEFINE r == req[s]
           Rejected(p) == r.first[p] # 0 \/ IF r.step # 0 THEN p = r.proc ELSE Running(p)
           RejectedStep(p, i) == i = r.first[p] \/ (r.step # 0 /\ p = r.proc /\ i = r.step)
           statusOf(p) == IF Rejected(p) THEN "REJECTED" ELSE procs[p].status
           stepsOf(p) == [i \in Steps |-> IF RejectedStep(p, i) THEN "REJECTED" ELSE procs[p].step[i]]
<1>1. /\ r.cmd = "request-revision" /\ Write(s, "IN_PROGRESS", task.progress)
      /\ procs' = [p \in Processes |-> [status |-> statusOf(p), step |-> stepsOf(p)]]
      /\ stray' = IF r.step # 0 /\ ~Running(r.proc) THEN stray \cup {r.proc} ELSE stray
  BY DEF CommitRequestRevision
<1>2. r \in Request /\ Sound(r) /\ r.proc \in Processes
  BY <1>1, SlotFacts DEF Sound
<1>3. TaskPart'
  <2>1. "IN_PROGRESS" \in Statuses /\ task.progress \in 0..100
    BY TaskTypes DEF Statuses
  <2>2. QED
    BY <1>1, <2>1, WriteKeeps
<1>4. ProcessPart'
  <2>1. ASSUME NEW p \in Processes
        PROVE  /\ procs'[p] \in Proc /\ (~Rejected(p) => procs'[p] = procs[p])
               /\ Rejected(p) => procs'[p].status = "REJECTED"
    <3>1. procs[p] \in Proc /\ procs[p].step \in [Steps -> StepStatuses] /\ procs[p].status \in ProcStatuses
      BY ProcFields
    <3>2. procs'[p] = [status |-> statusOf(p), step |-> stepsOf(p)]
      BY <1>1
    <3>3. statusOf(p) \in ProcStatuses /\ stepsOf(p) \in [Steps -> StepStatuses]
      BY <3>1 DEF ProcStatuses, StepStatuses
    <3>4. ~Rejected(p) => statusOf(p) = procs[p].status
      OBVIOUS
    <3>5. ~Rejected(p) => stepsOf(p) = procs[p].step
      <4>1. SUFFICES ASSUME ~Rejected(p) PROVE stepsOf(p) = procs[p].step
        OBVIOUS
      <4>2. \A i \in Steps : ~RejectedStep(p, i)
        BY <4>1 DEF Steps
      <4>3. QED
        BY <3>1, <4>2
    <3>6. Rejected(p) => statusOf(p) = "REJECTED"
      OBVIOUS
    <3> HIDE DEF statusOf, stepsOf, Rejected, RejectedStep, r
    <3>7. procs'[p] \in Proc /\ procs'[p].status = statusOf(p) /\ procs'[p].step = stepsOf(p)
      BY <3>2, <3>3 DEF Proc
    <3>8. QED
      BY <3>1, <3>4, <3>5, <3>6, <3>7 DEF Proc
  <2>2. procs' \in [Processes -> Proc]
    BY <1>1, <2>1
  <2>3. stray' \subseteq Processes /\ stray \subseteq stray'
    BY <1>1, <1>2 DEF LifecycleInv, Typed
  <2> HIDE DEF Rejected, RejectedStep, statusOf, stepsOf, r
  <2>4. Undefined'
    BY <2>1 DEF LifecycleInv, Undefined, None
  <2>5. Orderly'
    BY <2>1, <2>3 DEF LifecycleInv, Orderly, Running
  <2>6. QED
    BY <2>2, <2>3, <2>4, <2>5 DEF ProcessPart
<1>5. QED
  BY <1>3, <1>4, Parts, PTL

\* What approve writes: a completed task whose process is over, or nothing new.
WritesApproval(s) ==
  \E status, progress :
     /\ Write(s, status, progress)
     /\ \/ status = "COMPLETED" /\ progress = 100
        \/ status = task.status /\ progress = task.progress
     /\ (status = "COMPLETED" /\ req[s].step # 0 /\ req[s].step # StepCount) =>
          Executed(req[s].proc, req[s].step, "COMPLETED")[req[s].proc].step[StepCount] # "PENDING"

\* What approve leaves of the processes.
LEMMA ApprovedFacts ==
  ASSUME LifecycleInv, NEW s \in Slots, CommitApprove(s)
  PROVE  /\ req[s].step = 0 => \A p \in Processes : procs'[p].step = procs[p].step
         /\ req[s].step # 0 => \A p \in Processes : procs'[p].step = Executed(req[s].proc, req[s].step, "COMPLETED")[p].step
         /\ ProcessPart'
         /\ stray' = stray /\ StepsStand(req[s]) /\ req[s].by # task.dri /\ task.status = "WAITING_APPROVAL"
         /\ req[s].proc \in Processes /\ req[s].step \in 0..StepCount
         /\ WritesApproval(s)
<1> DEFINE r == req[s]
           saw == {p \in Processes : r.first[p] # 0}
           signed == IF r.step = 0 THEN procs ELSE Executed(r.proc, r.step, "COMPLETED")
           over == \A p \in saw, i \in Steps : signed[p].step[i] # "PENDING"
           completes == over \/ r.step = StepCount
<1>1. /\ r.cmd = "approve" /\ r.stage = "looked" /\ r.version # "old" /\ stray' = stray
      /\ procs' = [p \in Processes |-> IF over /\ p \in saw THEN [signed[p] EXCEPT !.status = "APPROVED"] ELSE signed[p]]
      /\ Write(s, IF completes THEN "COMPLETED" ELSE task.status, IF completes THEN 100 ELSE task.progress)
  BY DEF CommitApprove, Current
<1>2. r \in Request /\ Sound(r) /\ Vouched(r) /\ Checked(r)
  BY SlotFacts
<1>3. r.proc \in Processes /\ r.step \in 0..StepCount /\ StepsStand(r)
      /\ r.by # task.dri /\ task.status = "WAITING_APPROVAL"
  BY <1>1, <1>2 DEF Sound, Vouched, Checked, Request, Finishing
<1>4. signed \in [Processes -> Proc]
  BY <1>3, ExecutedFacts DEF LifecycleInv, Typed, Steps
<1>5. /\ r.step = 0 => \A p \in Processes : signed[p] = procs[p]
      /\ r.step # 0 => \A p \in Processes : signed[p] = Executed(r.proc, r.step, "COMPLETED")[p]
  OBVIOUS
<1>6. \A p \in Processes \ stray : signed[p].status = "IN_REVIEW" => \E k \in Steps : Split(signed[p].step, k)
  <2>1. CASE r.step = 0
    BY <2>1 DEF LifecycleInv, Orderly, Running
  <2>2. CASE r.step # 0
    <3> DEFINE p == r.proc
               i == r.step
               new == Executed(p, i, "COMPLETED")
    <3>1. i \in Steps /\ p \in Processes /\ signed = new
      BY <1>3, <2>2 DEF Steps
    <3>2. Running(p) /\ procs[p].step[i] = "PENDING" /\ \A j \in Steps : j < i => procs[p].step[j] = "APPROVED"
      BY <1>3, <2>2 DEF StepsStand
    <3> HIDE DEF p, i, r, signed, new
    <3>3. \A q \in Processes : q # p => new[q] = procs[q]
      BY <3>1, ExecutedFacts DEF new
    <3>4. ASSUME p \notin stray, new[p].status = "IN_REVIEW" PROVE \E k \in Steps : Split(new[p].step, k)
      BY <3>1, <3>2, <3>4, ExecutedOrder DEF new
    <3>5. QED
      BY <3>1, <3>3, <3>4 DEF LifecycleInv, Orderly, Running
  <2>3. QED
    BY <2>1, <2>2
<1>7. \A p \in Processes : signed[p].status = None => \A i \in Steps : signed[p].step[i] = "PENDING"
  <2>1. CASE r.step = 0
    BY <2>1 DEF LifecycleInv, Undefined
  <2>2. CASE r.step # 0
    <3>1. r.step \in Steps
      BY <1>3, <2>2 DEF Steps
    <3>2. QED
      BY <1>3, <2>2, <3>1, ExecutedFacts DEF LifecycleInv, Undefined
  <2>3. QED
    BY <2>1, <2>2
<1>8. ASSUME NEW p \in Processes
      PROVE  /\ procs'[p] \in Proc /\ procs'[p].step = signed[p].step
             /\ procs'[p].status = signed[p].status \/ procs'[p].status = "APPROVED"
  <2> HIDE DEF signed, over, saw
  <2>1. CASE over /\ p \in saw
    <3>1. procs'[p] = [signed[p] EXCEPT !.status = "APPROVED"] /\ signed[p] \in Proc
      BY <1>1, <1>4, <2>1
    <3>2. QED
      BY <3>1 DEF Proc, ProcStatuses
  <2>2. CASE ~(over /\ p \in saw)
    BY <1>1, <1>4, <2>2
  <2>3. QED
    BY <2>1, <2>2
<1>9. ProcessPart'
  <2> HIDE DEF signed, over, saw
  <2>1. procs' \in [Processes -> Proc]
    BY <1>1, <1>8
  <2>2. Orderly'
    BY <1>1, <1>6, <1>8 DEF Orderly, Running
  <2>3. Undefined'
    BY <1>7, <1>8 DEF Undefined, None
  <2>4. QED
    BY <1>1, <2>1, <2>2, <2>3 DEF ProcessPart, LifecycleInv, Typed
<1>10. (completes /\ r.step # 0 /\ r.step # StepCount) =>
         Executed(r.proc, r.step, "COMPLETED")[r.proc].step[StepCount] # "PENDING"
  <2>1. SUFFICES ASSUME over, r.step # 0
                 PROVE  Executed(r.proc, r.step, "COMPLETED")[r.proc].step[StepCount] # "PENDING"
    OBVIOUS
  <2>2. r.proc \in saw
    BY <1>3, <2>1 DEF StepsStand
  <2>3. StepCount \in Steps
    BY DEF Steps
  <2>4. QED
    BY <2>1, <2>2, <2>3
<1>11. WritesApproval(s)
  <2>1. CASE completes
    <3>1. Write(s, "COMPLETED", 100)
      BY <1>1, <2>1
    <3>2. QED
      BY <1>10, <2>1, <3>1 DEF WritesApproval
  <2>2. CASE ~completes
    <3>1. Write(s, task.status, task.progress) /\ task.status # "COMPLETED"
      BY <1>1, <1>3, <2>2
    <3>2. QED
      BY <3>1 DEF WritesApproval
  <2>3. QED
    BY <2>1, <2>2
<1>12. \A p \in Processes : procs'[p].step = signed[p].step
  BY <1>8
<1> HIDE DEF signed, over, saw, completes
<1>13. /\ r.step = 0 => \A p \in Processes : procs'[p].step = procs[p].step
       /\ r.step # 0 => \A p \in Processes : procs'[p].step = Executed(r.proc, r.step, "COMPLETED")[p].step
  BY <1>5, <1>12
<1>14. QED
  BY <1>1, <1>3, <1>9, <1>11, <1>13, Zenon

LEMMA CommitApproveKeeps ==
  ASSUME LifecycleInv, NEW s \in Slots, CommitApprove(s)
  PROVE  LifecycleInv'
<1>1. PICK status, progress : /\ Write(s, status, progress)
                              /\ \/ status = "COMPLETED" /\ progress = 100
                                 \/ status = task.status /\ progress = task.progress
  BY ApprovedFacts DEF WritesApproval
<1>2. status \in Statuses /\ progress \in 0..100
  BY <1>1, TaskTypes DEF Statuses
<1>3. TaskPart'
  BY <1>1, <1>2, WriteKeeps
<1>4. QED
  BY <1>3, ApprovedFacts, Parts, PTL

LEMMA CommitDefineKeeps ==
  ASSUME LifecycleInv, NEW s \in Slots, CommitDefine(s)
  PROVE  LifecycleInv'
<1>1. PICK p \in Processes :
        /\ procs[p].status = None
        /\ procs' = [procs EXCEPT ![p].status = "IN_REVIEW"]
        /\ task' = [task EXCEPT !.status = "WAITING_APPROVAL"]
        /\ req' = [req EXCEPT ![s] = Idle]
        /\ roll' = Overtaken /\ UNCHANGED <<child, moves, touched, stray>>
  BY DEF CommitDefine, Done
<1>2. /\ task \in [status : Statuses, progress : 0..100, dri : Users]
      /\ procs \in [Processes -> Proc] /\ req \in [Slots -> Request]
  BY DEF LifecycleInv, Typed
<1>3. /\ task' \in [status : Statuses, progress : 0..100, dri : Users]
      /\ task'.status = "WAITING_APPROVAL" /\ task'.dri = task.dri
  BY <1>1, <1>2 DEF Statuses
<1>4. /\ procs' \in [Processes -> Proc] /\ \A q \in Processes : q # p => procs'[q] = procs[q]
      /\ procs'[p].status = "IN_REVIEW" /\ procs'[p].step = procs[p].step
  <2>1. procs[p] \in Proc /\ procs' = [procs EXCEPT ![p] = [procs[p] EXCEPT !.status = "IN_REVIEW"]]
    BY <1>1, <1>2
  <2>2. [procs[p] EXCEPT !.status = "IN_REVIEW"] \in Proc
        /\ [procs[p] EXCEPT !.status = "IN_REVIEW"].status = "IN_REVIEW"
        /\ [procs[p] EXCEPT !.status = "IN_REVIEW"].step = procs[p].step
    BY <2>1 DEF Proc, ProcStatuses
  <2>3. QED
    BY <1>2, <2>1, <2>2
<1>5. \A q \in Processes : Running(q) => q # p
  BY <1>1 DEF Running, None
<1>6. /\ req' \in [Slots -> Request] /\ \A t \in Slots : req'[t] = Idle \/ req'[t] = req[t]
  BY <1>1, <1>2, IdleIsRequest
<1>7. AllSound'
  BY <1>6, IdleIsRequest DEF LifecycleInv, AllSound
<1>8. AllVouched'
  <2>1. SUFFICES ASSUME NEW t \in Slots PROVE Vouched(req[t])' 
    BY DEF AllVouched
  <2>2. CASE req'[t] = Idle
    BY <2>2, IdleIsRequest DEF Vouched, None
  <2>3. CASE req'[t] = req[t]
    BY <1>3, <2>3, SlotFacts DEF Vouched
  <2>4. QED
    BY <1>6, <2>2, <2>3
<1>9. AllChecked'
  <2>1. SUFFICES ASSUME NEW t \in Slots PROVE Checked(req[t])'
    BY DEF AllChecked
  <2>2. CASE req'[t] = Idle
    BY <2>2, IdleIsRequest DEF Checked, None
  <2>3. CASE req'[t] = req[t]
    <3> DEFINE r == req[t]
    <3>1. SUFFICES ASSUME r.version # "old", r.cmd = "approve", r.stage = "looked" PROVE StepsStand(req[t])'
      BY <2>3 DEF Checked
    <3>2. StepsStand(r) /\ r.proc \in Processes
      BY <3>1, SlotFacts DEF Checked, Sound
    <3> HIDE DEF r
    <3>3. CASE r.step = 0
      <4>1. \A q \in Processes : r.first[q] # 0 => q # p /\ Running(q) /\ \A i \in Steps : procs[q].step[i] = "APPROVED"
        BY <1>5, <3>2, <3>3 DEF StepsStand
      <4>2. \A q \in Processes : r.first[q] # 0 => procs'[q].status = "IN_REVIEW" /\ \A i \in Steps : procs'[q].step[i] = "APPROVED"
        BY <1>4, <4>1 DEF Running
      <4>3. QED
        BY <2>3, <3>3, <4>2 DEF StepsStand, Running, r
    <3>4. CASE r.step # 0
      <4>1. procs'[r.proc] = procs[r.proc] /\ Running(r.proc)
        BY <1>4, <1>5, <3>2, <3>4 DEF StepsStand
      <4>2. QED
        BY <2>3, <3>2, <3>4, <4>1 DEF StepsStand, Running, r
    <3>5. QED
      BY <3>3, <3>4
  <2>4. QED
    BY <1>6, <2>2, <2>3
<1>10. roll' \in [Children -> Roll] /\ RollIsWhole'
  BY <1>1, OvertakenFacts DEF RollIsWhole, LifecycleInv
<1>11. /\ child' \in [Children -> {"open", "done", "off"}] /\ moves' \in 0..MaxMoves
       /\ stray' \subseteq Processes
  BY <1>1 DEF LifecycleInv, Typed
<1>12. touched' \in BOOLEAN
  BY <1>1, Zenon DEF LifecycleInv, Typed
<1>14. Undefined'
  BY <1>4 DEF Undefined, LifecycleInv, None
<1>15. Orderly'
  <2>1. SUFFICES ASSUME NEW q \in Processes, q \notin stray, procs'[q].status = "IN_REVIEW"
                 PROVE  \E k \in Steps : Split(procs'[q].step, k)
    BY <1>1 DEF Orderly, Running
  <2>2. CASE q = p
    <3>1. \A i \in Steps : procs'[p].step[i] = "PENDING"
      BY <1>1, <1>4 DEF LifecycleInv, Undefined
    <3>2. 1 \in Steps /\ Split(procs'[p].step, 1)
      BY <3>1 DEF Split, Steps
    <3>3. QED
      BY <2>2, <3>2
  <2>3. CASE q # p
    BY <1>4, <2>1, <2>3 DEF LifecycleInv, Orderly, Running
  <2>4. QED
    BY <2>2, <2>3
<1>16. QED
  BY <1>3, <1>4, <1>6, <1>7, <1>8, <1>9, <1>10, <1>11, <1>12, <1>14, <1>15, Zenon DEF LifecycleInv, Typed

LEMMA CommitKeeps ==
  ASSUME LifecycleInv, NEW s \in Slots, Commit(s)
  PROVE  LifecycleInv'
BY CommitMoveKeeps, PlainCommitKeeps, CommitReviewKeeps, CommitRequestRevisionKeeps,
   CommitApproveKeeps, CommitDefineKeeps DEF Commit

-----------------------------------------------------------------------------
(* The people and the children.                                            *)

\* The same for an update by somebody who runs no command of the task.
LEMMA StaledFacts ==
  ASSUME LifecycleInv, req' = [t \in Slots |-> Stale(req[t])]
  PROVE  /\ req' \in [Slots -> Request] /\ AllSound' /\ AllVouched' /\ AllChecked'
<1>1. \A t \in Slots : /\ req'[t] \in Request /\ Sound(req'[t])
                       /\ Finishing(req'[t]) => req'[t].version = "old"
  BY StaleFields, SlotFacts
<1>2. AllSound'
  BY <1>1 DEF AllSound, Sound, Finishing
<1>3. AllVouched'
  BY <1>1 DEF AllVouched, Vouched, Finishing
<1>4. AllChecked'
  BY <1>1 DEF AllChecked, Checked, Finishing
<1>5. QED
  BY <1>1, <1>2, <1>3, <1>4

LEMMA ReassignKeeps ==
  ASSUME LifecycleInv, NEW u \in Users, Reassign(u)
  PROVE  LifecycleInv'
<1>1. /\ task' = [task EXCEPT !.dri = u] /\ req' = [t \in Slots |-> Stale(req[t])]
      /\ moves < MaxMoves /\ moves' = moves + 1
      /\ UNCHANGED <<procs, child, roll, touched, stray>>
  BY DEF Reassign
<1>2. req' \in [Slots -> Request] /\ AllSound' /\ AllVouched' /\ AllChecked'
  BY <1>1, StaledFacts
<1>3. /\ task' \in [status : Statuses, progress : 0..100, dri : Users]
      /\ task'.status = task.status /\ task'.progress = task.progress
  BY <1>1 DEF LifecycleInv, Typed
<1>5. moves' \in 0..MaxMoves
  BY <1>1 DEF LifecycleInv, Typed
<1>6. RollIsWhole' /\ Orderly' /\ Undefined'
  BY <1>1 DEF LifecycleInv, RollIsWhole, Orderly, Undefined, Running
<1>7. /\ procs' \in [Processes -> Proc] /\ child' \in [Children -> {"open", "done", "off"}]
      /\ roll' \in [Children -> Roll] /\ stray' \subseteq Processes
  BY <1>1 DEF LifecycleInv, Typed
<1>8. touched' \in BOOLEAN
  BY <1>1, Zenon DEF LifecycleInv, Typed
<1>9. QED
  BY <1>2, <1>3, <1>5, <1>6, <1>7, <1>8, Zenon DEF LifecycleInv, Typed

\* The status that rolls up is one of a task, and leaves a completed parent
\* completed only when the children are done.
LEMMA ParentStatusFits ==
  ASSUME NEW status \in Statuses, NEW progress \in 0..100
  PROVE  /\ ParentStatus(status, progress) \in Statuses
         /\ ParentStatus(status, progress) = "COMPLETED" => progress = 100
BY DEF ParentStatus, Statuses

LEMMA SiblingsAreTyped ==
  ASSUME LifecycleInv, NEW c \in Children, NEW to \in {"open", "done", "off"}
  PROVE  Siblings(c, to) \in [Children -> {"open", "done", "off"}]
BY DEF LifecycleInv, Typed, Siblings

\* What a child has computed when its transaction comes to the update.
RolledUp(c, to, counts, status, progress) ==
  /\ ~roll[c].busy /\ moves < MaxMoves /\ moves' = moves + 1
  /\ roll' = [roll EXCEPT ![c] = [busy |-> TRUE, to |-> to, counts |-> counts, clean |-> TRUE,
                                  status |-> status, progress |-> progress]]
  /\ UNCHANGED <<task, procs, child, req, touched, stray>>
  /\ to \in {"open", "done", "off"} /\ counts \in BOOLEAN
  /\ status \in Statuses \cup {None} /\ progress \in 0..100
  /\ status = "COMPLETED" => progress = 100
  /\ counts <=> Counting(Siblings(c, to)) # {}
  /\ counts => Rounded(Siblings(c, to)) = IF status # None THEN progress ELSE task.progress

LEMMA ChildRollsUpFacts ==
  ASSUME LifecycleInv, NEW c \in Children, ChildRollsUp(c)
  PROVE  \E to, counts, status, progress : RolledUp(c, to, counts, status, progress)
<1>1. PICK to \in {"open", "done", "off"} :
        LET statuses == Siblings(c, to)
            counts == Counting(statuses) # {}
            progress == IF counts THEN Rounded(statuses) ELSE 0
            status == ParentStatus(task.status, progress)
            writes == counts /\ (status # task.status \/ progress # task.progress)
        IN  /\ ~roll[c].busy /\ moves < MaxMoves /\ moves' = moves + 1
            /\ roll' = [roll EXCEPT ![c] =
                 [busy |-> TRUE, to |-> to, counts |-> counts, clean |-> TRUE,
                  status |-> IF writes THEN status ELSE None, progress |-> IF writes THEN progress ELSE 0]]
            /\ UNCHANGED <<task, procs, child, req, touched, stray>>
  BY DEF ChildRollsUp
<1> DEFINE statuses == Siblings(c, to)
           counts == Counting(statuses) # {}
           progress == IF counts THEN Rounded(statuses) ELSE 0
           status == ParentStatus(task.status, progress)
           writes == counts /\ (status # task.status \/ progress # task.progress)
           wstatus == IF writes THEN status ELSE None
           wprogress == IF writes THEN progress ELSE 0
<1>2. progress \in 0..100
  BY SiblingsAreTyped, RoundedIsPercentage
<1>3. status \in Statuses /\ (status = "COMPLETED" => progress = 100)
  <2> HIDE DEF progress
  <2>1. QED
    BY <1>2, TaskTypes, ParentStatusFits
<1>4. wstatus \in Statuses \cup {None} /\ wprogress \in 0..100 /\ (wstatus = "COMPLETED" => wprogress = 100)
  <2> HIDE DEF progress, status, writes
  <2>1. QED
    BY <1>2, <1>3 DEF None
<1>5. counts => Rounded(statuses) = IF wstatus # None THEN wprogress ELSE task.progress
  <2>1. counts => progress = Rounded(statuses)
    OBVIOUS
  <2>2. status # None
    <3> HIDE DEF status
    <3>1. QED
      BY <1>3 DEF Statuses, None
  <2>3. counts /\ ~writes => progress = task.progress
    OBVIOUS
  <2> HIDE DEF progress, status, writes, counts, statuses
  <2>4. QED
    BY <2>1, <2>2, <2>3
<1>6. /\ ~roll[c].busy /\ moves < MaxMoves /\ moves' = moves + 1
      /\ roll' = [roll EXCEPT ![c] = [busy |-> TRUE, to |-> to, counts |-> counts, clean |-> TRUE,
                                      status |-> wstatus, progress |-> wprogress]]
      /\ UNCHANGED <<task, procs, child, req, touched, stray>>
  BY <1>1, Zenon
<1>7. counts \in BOOLEAN /\ (counts <=> Counting(Siblings(c, to)) # {})
  BY Zenon
<1>8. RolledUp(c, to, counts, wstatus, wprogress)
  <2>1. counts => Rounded(Siblings(c, to)) = IF wstatus # None THEN wprogress ELSE task.progress
    BY <1>5, Zenon
  <2> HIDE DEF counts, wstatus, wprogress
  <2>2. QED
    BY <1>1, <1>4, <1>6, <1>7, <2>1, Zenon DEF RolledUp
<1>9. QED
  BY <1>8, Zenon

LEMMA ChildRollsUpKeeps ==
  ASSUME LifecycleInv, NEW c \in Children, ChildRollsUp(c)
  PROVE  LifecycleInv'
<1>1. PICK to, counts, status, progress : RolledUp(c, to, counts, status, progress)
  BY ChildRollsUpFacts
<1> DEFINE entry == [busy |-> TRUE, to |-> to, counts |-> counts, clean |-> TRUE,
                     status |-> status, progress |-> progress]
<1>2. /\ moves < MaxMoves /\ moves' = moves + 1
      /\ roll' = [roll EXCEPT ![c] = entry]
      /\ UNCHANGED <<task, procs, child, req, touched, stray>>
      /\ to \in {"open", "done", "off"} /\ counts \in BOOLEAN
      /\ status \in Statuses \cup {None} /\ progress \in 0..100
      /\ status = "COMPLETED" => progress = 100
  BY <1>1, Zenon DEF RolledUp
<1>3. entry \in Roll /\ entry.status = status /\ entry.progress = progress
  <2>1. entry \in Roll
    BY <1>2, Zenon DEF Roll
  <2>2. QED
    BY <2>1, Zenon
<1> HIDE DEF entry
<1>4. roll \in [Children -> Roll]
  BY DEF LifecycleInv, Typed
<1>5. roll' \in [Children -> Roll] /\ roll'[c] = entry /\ \A d \in Children : d # c => roll'[d] = roll[d]
  BY <1>2, <1>3, <1>4
<1>6. RollIsWhole'
  BY <1>2, <1>3, <1>5 DEF LifecycleInv, RollIsWhole
<1>7. moves' \in 0..MaxMoves
  BY <1>2 DEF LifecycleInv, Typed
<1>8. /\ task' \in [status : Statuses, progress : 0..100, dri : Users]
      /\ procs' \in [Processes -> Proc] /\ child' \in [Children -> {"open", "done", "off"}]
      /\ req' \in [Slots -> Request] /\ stray' \subseteq Processes
  BY <1>2 DEF LifecycleInv, Typed
<1>9. touched' \in BOOLEAN
  BY <1>2, Zenon DEF LifecycleInv, Typed
<1>10. AllSound' /\ AllVouched'
  BY <1>2 DEF LifecycleInv, AllSound, AllVouched, Vouched
<1>11. AllChecked'
  BY <1>2 DEF LifecycleInv, AllChecked, Checked, StepsStand, Running
<1>12. Orderly' /\ Undefined'
  BY <1>2 DEF LifecycleInv, Orderly, Undefined, Running
<1>13. QED
  BY <1>5, <1>6, <1>7, <1>8, <1>9, <1>10, <1>11, <1>12, Zenon DEF LifecycleInv, Typed

LEMMA NoRollFits == NoRoll \in Roll /\ NoRoll.status # "COMPLETED"
<1>1. NoRoll \in Roll
  BY DEF NoRoll, Roll
<1>2. NoRoll.status = None
  BY Zenon DEF NoRoll
<1>3. QED
  BY <1>1, <1>2 DEF None

LEMMA ChildCommitsKeeps ==
  ASSUME LifecycleInv, NEW c \in Children, ChildCommits(c)
  PROVE  LifecycleInv'
<1>1. /\ child' = [child EXCEPT ![c] = roll[c].to]
      /\ roll' = [Overtaken EXCEPT ![c] = NoRoll]
      /\ UNCHANGED <<procs, moves, stray>>
  BY DEF ChildCommits
<1>2. \/ /\ roll[c].status # None
         /\ task' = [task EXCEPT !.status = roll[c].status, !.progress = roll[c].progress]
         /\ req' = [t \in Slots |-> Stale(req[t])]
      \/ UNCHANGED <<task, req>>
  BY DEF ChildCommits
<1>3. touched' \in BOOLEAN
  BY Zenon DEF ChildCommits
<1>4. roll[c] \in Roll /\ roll \in [Children -> Roll]
  BY DEF LifecycleInv, Typed
<1>5. /\ roll[c].to \in {"open", "done", "off"} /\ roll[c].status \in Statuses \cup {None}
      /\ roll[c].progress \in 0..100
  BY <1>4 DEF Roll
<1>6. roll' \in [Children -> Roll]
      /\ \A d \in Children : roll'[d] = NoRoll \/ roll'[d] = Overtaken[d]
  BY <1>1, OvertakenFacts, NoRollFits
<1>7. RollIsWhole'
  BY <1>6, OvertakenFacts, NoRollFits DEF LifecycleInv, RollIsWhole
<1>8. child' \in [Children -> {"open", "done", "off"}]
  BY <1>1, <1>5 DEF LifecycleInv, Typed
<1>9. procs' \in [Processes -> Proc] /\ moves' \in 0..MaxMoves /\ stray' \subseteq Processes
  BY <1>1 DEF LifecycleInv, Typed
<1>10. Orderly' /\ Undefined'
  BY <1>1 DEF LifecycleInv, Orderly, Undefined, Running
<1>11. /\ task' \in [status : Statuses, progress : 0..100, dri : Users]
       /\ req' \in [Slots -> Request] /\ AllSound' /\ AllVouched' /\ AllChecked'
  <2>1. CASE /\ roll[c].status # None
             /\ task' = [task EXCEPT !.status = roll[c].status, !.progress = roll[c].progress]
             /\ req' = [t \in Slots |-> Stale(req[t])]
    <3>1. task' \in [status : Statuses, progress : 0..100, dri : Users]
      BY <1>5, <2>1 DEF LifecycleInv, Typed
    <3>2. QED
      BY <2>1, <3>1, StaledFacts
  <2>2. CASE UNCHANGED <<task, req>>
    <3>1. task' \in [status : Statuses, progress : 0..100, dri : Users] /\ req' \in [Slots -> Request]
      BY <2>2 DEF LifecycleInv, Typed
    <3>2. AllSound' /\ AllVouched'
      BY <2>2 DEF LifecycleInv, AllSound, AllVouched, Vouched
    <3>3. AllChecked'
      BY <1>1, <2>2 DEF LifecycleInv, AllChecked, Checked, StepsStand, Running
    <3>4. QED
      BY <3>1, <3>2, <3>3
  <2>3. QED
    BY <1>2, <2>1, <2>2
<1>12. QED
  BY <1>3, <1>6, <1>7, <1>8, <1>9, <1>10, <1>11, Zenon DEF LifecycleInv, Typed

LEMMA ChildMovesQuietlyKeeps ==
  ASSUME LifecycleInv, NEW c \in Children, ChildMovesQuietly(c)
  PROVE  LifecycleInv'
<1>1. /\ moves < MaxMoves /\ moves' = moves + 1
      /\ child' = [child EXCEPT ![c] = IF child[c] = "open" THEN "done" ELSE "open"]
      /\ roll' = Overtaken
      /\ UNCHANGED <<task, procs, req, stray>>
  BY DEF ChildMovesQuietly
<1>2. touched' \in BOOLEAN
  BY Zenon DEF ChildMovesQuietly
<1>3. roll' \in [Children -> Roll] /\ RollIsWhole'
  BY <1>1, OvertakenFacts DEF RollIsWhole, LifecycleInv
<1>4. moves' \in 0..MaxMoves /\ child' \in [Children -> {"open", "done", "off"}]
  BY <1>1 DEF LifecycleInv, Typed
<1>5. /\ task' \in [status : Statuses, progress : 0..100, dri : Users]
      /\ procs' \in [Processes -> Proc] /\ req' \in [Slots -> Request] /\ stray' \subseteq Processes
  BY <1>1 DEF LifecycleInv, Typed
<1>6. AllSound' /\ AllVouched'
  BY <1>1 DEF LifecycleInv, AllSound, AllVouched, Vouched
<1>7. AllChecked'
  BY <1>1 DEF LifecycleInv, AllChecked, Checked, StepsStand, Running
<1>8. Orderly' /\ Undefined'
  BY <1>1 DEF LifecycleInv, Orderly, Undefined, Running
<1>9. QED
  BY <1>2, <1>3, <1>4, <1>5, <1>6, <1>7, <1>8, Zenon DEF LifecycleInv, Typed

LEMMA StutterKeeps ==
  ASSUME LifecycleInv, UNCHANGED vars
  PROVE  LifecycleInv'
<1>1. UNCHANGED <<task, procs, child, roll, req, moves, stray>>
  BY DEF vars
<1>2. touched' \in BOOLEAN
  BY Zenon DEF vars, LifecycleInv, Typed
<1>3. /\ task' \in [status : Statuses, progress : 0..100, dri : Users]
      /\ procs' \in [Processes -> Proc] /\ req' \in [Slots -> Request] /\ stray' \subseteq Processes
      /\ moves' \in 0..MaxMoves /\ child' \in [Children -> {"open", "done", "off"}]
      /\ roll' \in [Children -> Roll]
  BY <1>1 DEF LifecycleInv, Typed
<1>4. AllSound' /\ AllVouched'
  BY <1>1 DEF LifecycleInv, AllSound, AllVouched, Vouched
<1>5. AllChecked'
  BY <1>1 DEF LifecycleInv, AllChecked, Checked, StepsStand, Running
<1>6. Orderly' /\ Undefined' /\ RollIsWhole'
  BY <1>1 DEF LifecycleInv, Orderly, Undefined, Running, RollIsWhole
<1>7. QED
  BY <1>2, <1>3, <1>4, <1>5, <1>6, Zenon DEF LifecycleInv, Typed

LEMMA NextKeeps ==
  ASSUME LifecycleInv, [Next]_vars
  PROVE  LifecycleInv'
<1>1. ASSUME NEW s \in Slots,
             Load(s) \/ Commit(s) \/ Refuse(s) \/ LookReviewDeliverable(s) \/ LookReview(s)
               \/ LookRequestRevision(s) \/ LookApprove(s)
      PROVE  LifecycleInv'
  BY <1>1, LoadKeeps, CommitKeeps, RefuseKeeps, LookReviewDeliverableKeeps, LookReviewKeeps,
     LookRequestRevisionKeeps, LookApproveKeeps
<1>2. ASSUME NEW u \in Users, Reassign(u) PROVE LifecycleInv'
  BY <1>2, ReassignKeeps
<1>3. ASSUME NEW c \in Children, ChildRollsUp(c) \/ ChildCommits(c) \/ ChildMovesQuietly(c)
      PROVE  LifecycleInv'
  BY <1>3, ChildRollsUpKeeps, ChildCommitsKeeps, ChildMovesQuietlyKeeps
<1>4. CASE UNCHANGED vars
  BY <1>4, StutterKeeps
<1>5. QED
  BY <1>1, <1>2, <1>3, <1>4, Zenon DEF Next

-----------------------------------------------------------------------------
(* The theorems.                                                           *)

\* The inductive invariant: types, what the commands that run have checked, the
\* order of the steps of a process, and whole roll-ups.
THEOREM LifecycleIsInvariant == Spec => []LifecycleInv
<1>1. Init => LifecycleInv
  BY InitHolds
<1>2. LifecycleInv /\ [Next]_vars => LifecycleInv'
  BY NextKeeps
<1>3. QED
  BY <1>1, <1>2, PTL DEF Spec

\* The task, its processes and the commands keep their types.
THEOREM LifecycleTypeCorrect == Spec => []TypeOK
<1>1. LifecycleInv => TypeOK
  BY Zenon DEF LifecycleInv, Typed, TypeOK, Proc, ProcStatuses, StepStatuses, Roll, Request
<1>2. QED
  BY <1>1, LifecycleIsInvariant, PTL

\* What a step leaves of a completed task: 100 per cent, or what it found.
WholeStep ==
  task'.status = "COMPLETED" =>
    task'.progress = 100 \/ <<task'.status, task'.progress>> = <<task.status, task.progress>>

\* An update of the task is whole when what it writes is.
LEMMA WriteIsWhole ==
  ASSUME LifecycleInv, NEW s \in Slots, NEW status, NEW progress, Write(s, status, progress),
         status = "COMPLETED" => progress = 100 \/ (status = task.status /\ progress = task.progress)
  PROVE  WholeStep
<1>1. task' = [task EXCEPT !.status = status, !.progress = progress]
  BY DEF Write
<1>2. task \in [status : Statuses, progress : 0..100, dri : Users]
  BY DEF LifecycleInv, Typed
<1>3. task'.status = status /\ task'.progress = progress
  BY <1>1, <1>2
<1>4. QED
  BY <1>3 DEF WholeStep

\* Every command but a resolution is whole.
LEMMA CommitIsWhole ==
  ASSUME LifecycleInv, NEW s \in Slots, Commit(s), ~CommitResolve(s)
  PROVE  WholeStep
<1> DEFINE r == req[s]
           target == IF r.target = None THEN task.status ELSE r.target
<1>1. r \in Request /\ Sound(r)
  BY SlotFacts
<1>2. CASE CommitMove(s)
  <2>1. Write(s, r.target, r.value) /\ (r.target = "COMPLETED" => r.value = 100)
    BY <1>1, <1>2 DEF CommitMove, Sound
  <2> HIDE DEF r
  <2>2. QED
    BY <2>1, WriteIsWhole
<1>3. CASE CommitSubmit(s)
  <2>1. Write(s, target, task.progress) /\ (target = "COMPLETED" => target = task.status)
    BY <1>1, <1>3 DEF CommitSubmit, Sound
  <2> HIDE DEF target
  <2>2. QED
    BY <2>1, WriteIsWhole
<1>4. CASE CommitCancel(s)
  BY <1>4, WriteIsWhole DEF CommitCancel
<1>5. CASE CommitReviewDeliverable(s)
  <2> DEFINE progress == IF r.target = "COMPLETED" THEN 100 ELSE task.progress
  <2>1. Write(s, target, progress)
    BY <1>5 DEF CommitReviewDeliverable
  <2>2. target = "COMPLETED" => progress = 100 \/ (target = task.status /\ progress = task.progress)
    OBVIOUS
  <2> HIDE DEF target, progress
  <2>3. QED
    BY <2>1, <2>2, WriteIsWhole
<1>6. CASE CommitReview(s)
  <2>1. PICK status, progress : Write(s, status, progress) /\ (status = "COMPLETED" => progress = 100)
    BY <1>6 DEF CommitReview
  <2>2. QED
    BY <2>1, WriteIsWhole
<1>7. CASE CommitRequestRevision(s)
  BY <1>7, WriteIsWhole DEF CommitRequestRevision
<1>8. CASE CommitApprove(s)
  <2>1. PICK status, progress : /\ Write(s, status, progress)
                                /\ \/ status = "COMPLETED" /\ progress = 100
                                   \/ status = task.status /\ progress = task.progress
    BY <1>8, ApprovedFacts DEF WritesApproval
  <2>2. QED
    BY <2>1, WriteIsWhole
<1>9. CASE CommitDefine(s)
  <2>1. task' = [task EXCEPT !.status = "WAITING_APPROVAL"]
    BY <1>9 DEF CommitDefine
  <2>2. task'.status = "WAITING_APPROVAL"
    BY <2>1 DEF LifecycleInv, Typed
  <2>3. QED
    BY <2>2 DEF WholeStep
<1>10. QED
  BY <1>2, <1>3, <1>4, <1>5, <1>6, <1>7, <1>8, <1>9, Zenon DEF Commit

\* So is the roll-up of a child, however late.
LEMMA ChildIsWhole ==
  ASSUME LifecycleInv, NEW c \in Children, ChildCommits(c)
  PROVE  WholeStep
<1>1. CASE roll[c].status = None
  BY <1>1 DEF ChildCommits, WholeStep
<1>2. CASE roll[c].status # None
  <2>1. PICK status, progress : status = roll[c].status /\ progress = roll[c].progress
    OBVIOUS
  <2>2. task' = [task EXCEPT !.status = status, !.progress = progress]
    BY <1>2, <2>1 DEF ChildCommits
  <2>3. task'.status = status /\ task'.progress = progress
    BY <2>2 DEF LifecycleInv, Typed
  <2>4. status = "COMPLETED" => progress = 100
    BY <2>1 DEF LifecycleInv, RollIsWhole
  <2>5. QED
    BY <2>3, <2>4 DEF WholeStep
<1>3. QED
  BY <1>1, <1>2

\* Every step is whole that is not the end of a resolution.
LEMMA StepIsWhole ==
  ASSUME LifecycleInv, [Next]_vars, \A s \in Slots : ~(Ends(s) /\ req[s].cmd = "resolve")
  PROVE  WholeStep
<1>1. ASSUME UNCHANGED <<task.status, task.progress>> PROVE WholeStep
  BY <1>1 DEF WholeStep
<1>2. ASSUME NEW s \in Slots, Commit(s) PROVE WholeStep
  <2>1. ASSUME CommitResolve(s) PROVE FALSE
    <3>1. req[s].cmd = "resolve" /\ req' = Bumped(s)
      BY <2>1 DEF CommitResolve, Write
    <3>2. req'[s] = Idle /\ req[s] # Idle
      BY <3>1, IdleIsRequest DEF Bumped, None
    <3>3. QED
      BY <3>1, <3>2 DEF Ends
  <2>2. QED
    BY <1>2, <2>1, CommitIsWhole
<1>3. ASSUME NEW s \in Slots, Load(s) PROVE WholeStep
  BY <1>1, <1>3 DEF Load, Begin, UpdateStatus, Start, UpdateProgress, Cancel, Resolve, SubmitResult,
     SubmitDeliverable, ReviewDeliverable, Review, RequestRevision, Approve, Define
<1>4. ASSUME NEW s \in Slots,
             LookReviewDeliverable(s) \/ LookReview(s) \/ LookRequestRevision(s) \/ LookApprove(s) \/ Refuse(s)
      PROVE  WholeStep
  BY <1>1, <1>4 DEF LookReviewDeliverable, LookReview, LookRequestRevision, LookApprove, Looked, Refuse
<1>5. ASSUME NEW u \in Users, Reassign(u) PROVE WholeStep
  <2>1. task' = [task EXCEPT !.dri = u]
    BY <1>5 DEF Reassign
  <2>2. task'.status = task.status /\ task'.progress = task.progress
    BY <2>1 DEF LifecycleInv, Typed
  <2>3. QED
    BY <2>2 DEF WholeStep
<1>6. ASSUME NEW c \in Children, ChildRollsUp(c) \/ ChildMovesQuietly(c) PROVE WholeStep
  BY <1>1, <1>6 DEF ChildRollsUp, ChildMovesQuietly
<1>7. CASE UNCHANGED vars
  BY <1>1, <1>7 DEF vars
<1>8. QED
  BY <1>2, <1>3, <1>4, <1>5, <1>6, <1>7, ChildIsWhole, Zenon DEF Next

\* Whatever completes the task leaves it at 100 per cent, the roll-up of its
\* children included; only a resolution completes it as it stands.
THEOREM CompletedTaskIsWhole == Spec => CompletedIsWhole
<1>1. LifecycleInv /\ [Next]_vars =>
        [task'.status = "COMPLETED" /\ ~(\E s \in Slots : Ends(s) /\ req[s].cmd = "resolve") =>
           task'.progress = 100 \/ <<task'.status, task'.progress>> = <<task.status, task.progress>>]_vars
  <2>1. SUFFICES ASSUME LifecycleInv, [Next]_vars, task'.status = "COMPLETED",
                        ~(\E s \in Slots : Ends(s) /\ req[s].cmd = "resolve")
                 PROVE  task'.progress = 100 \/ <<task'.status, task'.progress>> = <<task.status, task.progress>>
    BY Zenon
  <2>2. WholeStep
    BY <2>1, StepIsWhole
  <2>3. QED
    BY <2>1, <2>2 DEF WholeStep
<1>2. QED
  BY <1>1, LifecycleIsInvariant, PTL DEF Spec, CompletedIsWhole

\* A process that runs has a step to decide.
THEOREM RunningProcessGoesOn == Spec => []RunningHasPending
<1>1. LifecycleInv => RunningHasPending
  <2>1. SUFFICES ASSUME LifecycleInv, NEW p \in Processes \ stray, Running(p) PROVE Pending(p) # {}
    BY DEF RunningHasPending
  <2>2. PICK k \in Steps : Split(procs[p].step, k)
    BY <2>1 DEF LifecycleInv, Orderly
  <2>3. procs[p].step[k] = "PENDING"
    BY <2>2 DEF Split, Steps
  <2>4. QED
    BY <2>3 DEF Pending
<1>2. QED
  BY <1>1, LifecycleIsInvariant, PTL

\* A command that ends while the status of the task changes has changed it.
LEMMA EndedByCommit ==
  ASSUME LifecycleInv, [Next]_vars, NEW s \in Slots, Ends(s), req[s].cmd # None,
         task'.status = "COMPLETED", task.status # "COMPLETED"
  PROVE  Commit(s)
<1>1. req'[s] = Idle /\ req[s] # Idle /\ req[s] \in Request /\ Sound(req[s])
  BY SlotFacts DEF Ends
<1>2. Stale(req[s]) # Idle
  BY <1>1, StaleFields
<1>3. ASSUME NEW t \in Slots, Commit(t), t # s PROVE FALSE
  <2>1. CASE CommitDefine(t)
    <3>1. task' = [task EXCEPT !.status = "WAITING_APPROVAL"]
      BY <2>1 DEF CommitDefine
    <3>2. QED
      BY <3>1 DEF LifecycleInv, Typed
  <2>2. ASSUME req' = Bumped(t) PROVE FALSE
    <3>1. req'[s] = Stale(req[s])
      BY <1>3, <2>2 DEF Bumped
    <3>2. QED
      BY <1>1, <1>2, <3>1
  <2>3. QED
    BY <1>3, <2>1, <2>2, Zenon DEF Commit, CommitMove, CommitSubmit, CommitResolve, CommitCancel, CommitReviewDeliverable,
       CommitReview, CommitRequestRevision, CommitApprove, Write
<1>4. ASSUME NEW c \in Children, ChildCommits(c) PROVE FALSE
  <2>1. req' = [t \in Slots |-> Stale(req[t])] \/ req' = req
    BY <1>4 DEF ChildCommits
  <2>2. QED
    BY <1>1, <1>2, <2>1
<1>5. ASSUME NEW u \in Users, Reassign(u) PROVE FALSE
  <2>1. req' = [t \in Slots |-> Stale(req[t])]
    BY <1>5 DEF Reassign
  <2>2. QED
    BY <1>1, <1>2, <2>1
<1>6. task' # task
  OBVIOUS
<1>7. ASSUME NEW t \in Slots, Load(t) PROVE FALSE
  BY <1>6, <1>7 DEF Load, Begin, UpdateStatus, Start, UpdateProgress, Cancel, Resolve, SubmitResult, SubmitDeliverable,
     ReviewDeliverable, Review, RequestRevision, Approve, Define
<1>8. ASSUME NEW t \in Slots,
             LookReviewDeliverable(t) \/ LookReview(t) \/ LookRequestRevision(t) \/ LookApprove(t) \/ Refuse(t)
      PROVE FALSE
  BY <1>6, <1>8 DEF LookReviewDeliverable, LookReview, LookRequestRevision, LookApprove, Looked, Refuse
<1>9. ASSUME NEW c \in Children, ChildRollsUp(c) \/ ChildMovesQuietly(c) PROVE FALSE
  BY <1>6, <1>9 DEF ChildRollsUp, ChildMovesQuietly
<1>10. Next
  BY <1>6 DEF vars
<1>11. QED
  BY <1>3, <1>4, <1>5, <1>7, <1>8, <1>9, <1>10, Zenon DEF Next

\* Nobody completes the task while being its DRI, by a status or by an approval.
THEOREM CompletionBySomebodyElse == Spec => CompletedByAnother
<1>1. LifecycleInv /\ [Next]_vars =>
        [task.status # "COMPLETED" /\ task'.status = "COMPLETED" =>
           \A s \in Slots : Ends(s) /\ req[s].cmd \in {"approve", "move"} => req[s].by # task.dri]_vars
  <2>1. SUFFICES ASSUME LifecycleInv, [Next]_vars, task.status # "COMPLETED", task'.status = "COMPLETED",
                        NEW s \in Slots, Ends(s), req[s].cmd \in {"approve", "move"}
                 PROVE  req[s].by # task.dri
    BY Zenon
  <2>2. req[s].cmd # None
    BY <2>1 DEF None
  <2>3. Commit(s)
    BY <2>1, <2>2, EndedByCommit
  <2>4. req[s] \in Request /\ Sound(req[s]) /\ Vouched(req[s])
    BY <2>1, SlotFacts
  <2>5. CASE req[s].cmd = "approve"
    <3>1. CommitApprove(s)
      BY <2>3, <2>5 DEF Commit, CommitMove, CommitSubmit, CommitResolve, CommitCancel, CommitReviewDeliverable,
         CommitReview, CommitRequestRevision, CommitDefine
    <3>2. QED
      BY <2>1, <3>1, ApprovedFacts
  <2>6. CASE req[s].cmd = "move"
    <3>1. CommitMove(s)
      BY <2>3, <2>6 DEF Commit, CommitApprove, CommitSubmit, CommitResolve, CommitCancel, CommitReviewDeliverable,
         CommitReview, CommitRequestRevision, CommitDefine
    <3>2. /\ req[s].version # "old"
          /\ task' = [task EXCEPT !.status = req[s].target, !.progress = req[s].value]
      BY <3>1 DEF CommitMove, Current, Write
    <3>3. task'.status = req[s].target
      <4>1. PICK status, progress : status = req[s].target /\ progress = req[s].value
        OBVIOUS
      <4>2. task' = [task EXCEPT !.status = status, !.progress = progress]
        BY <3>2, <4>1
      <4>3. task \in [status : Statuses, progress : 0..100, dri : Users]
        BY <2>1 DEF LifecycleInv, Typed
      <4>4. QED
        BY <4>1, <4>2, <4>3
    <3>4. Finishing(req[s])
      BY <2>1, <2>6, <3>3 DEF Finishing
    <3>5. QED
      BY <2>4, <3>2, <3>4 DEF Vouched
  <2>7. QED
    BY <2>1, <2>5, <2>6
<1>2. QED
  BY <1>1, LifecycleIsInvariant, PTL DEF Spec, CompletedByAnother

\* An approval completes a task when every step has been approved.
LEMMA ApprovalCompletes ==
  ASSUME LifecycleInv, NEW s \in Slots, CommitApprove(s), task'.status = "COMPLETED",
         NEW p \in Processes, NEW i \in Steps,
         IF req[s].step = 0 THEN req[s].first[p] # 0 ELSE p = req[s].proc /\ p \notin stray
  PROVE  procs'[p].step[i] = "APPROVED"
<1> DEFINE r == req[s]
<1>1. StepsStand(r) /\ r.proc \in Processes /\ r.step \in 0..StepCount
  BY ApprovedFacts
<1>2. CASE r.step = 0
  <2>1. procs'[p].step = procs[p].step
    BY <1>2, ApprovedFacts
  <2>2. QED
    BY <1>1, <1>2, <2>1 DEF StepsStand
<1>3. CASE r.step # 0
  <2> DEFINE k == r.step
             new == Executed(p, k, "COMPLETED")
  <2>1. k \in Steps /\ p = r.proc /\ p \notin stray
    BY <1>1, <1>3 DEF Steps
  <2>2. procs'[p].step = new[p].step
    BY <1>3, <2>1, ApprovedFacts
  <2>3. /\ Running(p) /\ procs[p].step[k] = "PENDING"
        /\ \A j \in Steps : j < k => procs[p].step[j] = "APPROVED"
    BY <1>1, <1>3, <2>1 DEF StepsStand
  <2>4. new[p].step[k] = "APPROVED" /\ \A j \in Steps : j # k => new[p].step[j] = procs[p].step[j]
    BY <2>1, ExecutedFacts
  <2>5. PICK m \in Steps : Split(procs[p].step, m)
    BY <2>1, <2>3 DEF LifecycleInv, Orderly
  <2>6. m <= k
    BY <2>1, <2>3, <2>5 DEF Split, Steps
  <2>7. PICK status, progress :
          /\ Write(s, status, progress)
          /\ (status = "COMPLETED" /\ k # 0 /\ k # StepCount) =>
               Executed(r.proc, k, "COMPLETED")[r.proc].step[StepCount] # "PENDING"
    BY ApprovedFacts DEF WritesApproval
  <2>8. status = "COMPLETED"
    <3>1. task' = [task EXCEPT !.status = status, !.progress = progress]
      BY <2>7 DEF Write
    <3>2. task \in [status : Statuses, progress : 0..100, dri : Users]
      BY DEF LifecycleInv, Typed
    <3>3. QED
      BY <3>1, <3>2
  <2>9. k # StepCount => new[p].step[StepCount] # "PENDING"
    BY <1>3, <2>1, <2>7, <2>8
  <2> HIDE DEF k, new, r
  <2>10. k = StepCount
    <3>1. SUFFICES ASSUME k # StepCount PROVE FALSE
      OBVIOUS
    <3>2. StepCount \in Steps /\ m <= StepCount
      BY <2>5 DEF Steps
    <3>3. procs[p].step[StepCount] = "PENDING"
      BY <2>5, <3>2 DEF Split
    <3>4. QED
      BY <2>4, <2>9, <3>1, <3>2, <3>3
  <2>11. i < k \/ i = k
    BY <2>1, <2>10 DEF Steps
  <2>12. QED
    BY <2>2, <2>3, <2>4, <2>11
<1>4. QED
  BY <1>2, <1>3

\* approve skips no step and passes over none that was sent back.
THEOREM ApprovalIsThorough == Spec => ApprovedThroughout
<1>1. LifecycleInv /\ [Next]_vars =>
        [\A s \in Slots :
           Ends(s) /\ req[s].cmd = "approve" /\ task.status # "COMPLETED" /\ task'.status = "COMPLETED" =>
              /\ task.status = "WAITING_APPROVAL"
              /\ \A p \in Processes, i \in Steps :
                   IF req[s].step = 0 THEN req[s].first[p] # 0 => procs'[p].step[i] = "APPROVED"
                   ELSE p = req[s].proc /\ p \notin stray => procs'[p].step[i] = "APPROVED"]_vars
  <2>1. SUFFICES ASSUME LifecycleInv, [Next]_vars, NEW s \in Slots, Ends(s), req[s].cmd = "approve",
                        task.status # "COMPLETED", task'.status = "COMPLETED"
                 PROVE  /\ task.status = "WAITING_APPROVAL"
                        /\ \A p \in Processes, i \in Steps :
                             IF req[s].step = 0 THEN req[s].first[p] # 0 => procs'[p].step[i] = "APPROVED"
                             ELSE p = req[s].proc /\ p \notin stray => procs'[p].step[i] = "APPROVED"
    BY Zenon
  <2>2. req[s].cmd # None
    BY <2>1 DEF None
  <2>3. Commit(s)
    BY <2>1, <2>2, EndedByCommit
  <2>4. CommitApprove(s)
    BY <2>1, <2>3 DEF Commit, CommitMove, CommitSubmit, CommitResolve, CommitCancel, CommitReviewDeliverable,
       CommitReview, CommitRequestRevision, CommitDefine
  <2>5. task.status = "WAITING_APPROVAL"
    BY <2>1, <2>4, ApprovedFacts
  <2>6. ASSUME NEW p \in Processes, NEW i \in Steps,
               IF req[s].step = 0 THEN req[s].first[p] # 0 ELSE p = req[s].proc /\ p \notin stray
        PROVE  procs'[p].step[i] = "APPROVED"
    BY <2>1, <2>4, <2>6, ApprovalCompletes
  <2>7. QED
    BY <2>5, <2>6
<1>2. QED
  BY <1>1, LifecycleIsInvariant, PTL DEF Spec, ApprovedThroughout

-----------------------------------------------------------------------------
(* The progress that rolls up.                                             *)

\* What a roll-up computed is still what it would compute, if nothing has been
\* written beside it.
RollIsCurrent ==
  \A c \in Children : roll[c].busy /\ roll[c].clean =>
     /\ roll[c].counts <=> Counting(Siblings(c, roll[c].to)) # {}
     /\ roll[c].counts => Rounded(Siblings(c, roll[c].to)) =
                            IF roll[c].status # None THEN roll[c].progress ELSE task.progress
RollInv == RollIsCurrent /\ ProgressIsRolledUp

\* Nothing is clean after somebody else has written.
LEMMA NobodyIsClean ==
  ASSUME LifecycleInv
  PROVE  \A c \in Children : Overtaken[c].clean = FALSE
<1>1. ASSUME NEW c \in Children PROVE [roll[c] EXCEPT !.clean = FALSE].clean = FALSE
  <2>1. roll[c] \in Roll
    BY DEF LifecycleInv, Typed
  <2>2. QED
    BY <2>1, Zenon DEF Roll
<1>2. QED
  BY <1>1 DEF Overtaken

LEMMA CommitRolls ==
  ASSUME LifecycleInv, RollInv, NEW s \in Slots, Commit(s)
  PROVE  RollInv'
<1>1. roll' = Overtaken /\ child' = child
  BY DEF Commit, CommitMove, CommitSubmit, CommitResolve, CommitCancel, CommitReviewDeliverable,
     CommitReview, CommitRequestRevision, CommitApprove, CommitDefine, Write
<1>2. RollIsCurrent'
  BY <1>1, NobodyIsClean DEF RollIsCurrent
<1>3. CASE \E status, progress : Write(s, status, progress)
  <2>1. PICK status, progress : Write(s, status, progress)
    BY <1>3
  <2>2. task' = [task EXCEPT !.status = status, !.progress = progress]
        /\ (touched' <=> touched \/ progress # task.progress)
    BY <2>1, Zenon DEF Write
  <2>3. task'.progress = progress
    BY <2>2 DEF LifecycleInv, Typed
  <2>4. ~touched' => ~touched /\ task'.progress = task.progress
    BY <2>2, <2>3, Zenon
  <2>5. ProgressIsRolledUp'
    BY <1>1, <2>4 DEF ProgressIsRolledUp, RollInv, Counting, Rounded, DoneOf
  <2>6. QED
    BY <1>2, <2>5 DEF RollInv
<1>4. CASE CommitDefine(s)
  <2>1. task' = [task EXCEPT !.status = "WAITING_APPROVAL"] /\ touched' = touched
    BY <1>4 DEF CommitDefine
  <2>2. task'.progress = task.progress
    BY <2>1 DEF LifecycleInv, Typed
  <2>3. ProgressIsRolledUp'
    BY <1>1, <2>1, <2>2 DEF ProgressIsRolledUp, RollInv, Counting, Rounded, DoneOf
  <2>4. QED
    BY <1>2, <2>3 DEF RollInv
<1>5. QED
  BY <1>3, <1>4, Zenon DEF Commit, CommitMove, CommitSubmit, CommitResolve, CommitCancel, CommitReviewDeliverable,
     CommitReview, CommitRequestRevision, CommitApprove

LEMMA QuietRolls ==
  ASSUME LifecycleInv, RollInv, UNCHANGED <<child, roll, touched>>, task'.progress = task.progress
  PROVE  RollInv'
<1>1. child' = child /\ roll' = roll /\ (touched' <=> touched)
  BY Zenon
<1>2. \A c \in Children : \A to : Siblings(c, to)' = Siblings(c, to)
  BY <1>1, Zenon DEF Siblings
<1>3. RollIsCurrent'
  <2>1. SUFFICES ASSUME NEW c \in Children, roll[c].busy, roll[c].clean
                 PROVE  /\ roll[c].counts <=> Counting(Siblings(c, roll[c].to)) # {}
                        /\ roll[c].counts => Rounded(Siblings(c, roll[c].to)) =
                               IF roll[c].status # None THEN roll[c].progress ELSE task'.progress
    BY <1>1, Zenon DEF RollIsCurrent, Siblings
  <2>2. QED
    BY <2>1, Zenon DEF RollInv, RollIsCurrent
<1>4. ProgressIsRolledUp'
  <2>1. SUFFICES ASSUME ~touched, Counting(child) # {} PROVE task'.progress = Rounded(child)
    BY <1>1, Zenon DEF ProgressIsRolledUp
  <2>2. QED
    BY <2>1, Zenon DEF RollInv, ProgressIsRolledUp
<1>5. QED
  BY <1>3, <1>4 DEF RollInv

LEMMA ChildRollsUpRolls ==
  ASSUME LifecycleInv, RollInv, NEW c \in Children, ChildRollsUp(c)
  PROVE  RollInv'
<1>1. PICK to, counts, status, progress : RolledUp(c, to, counts, status, progress)
  BY ChildRollsUpFacts
<1> DEFINE entry == [busy |-> TRUE, to |-> to, counts |-> counts, clean |-> TRUE,
                     status |-> status, progress |-> progress]
<1>2. roll' = [roll EXCEPT ![c] = entry] /\ UNCHANGED <<task, child, touched>>
  BY <1>1, Zenon DEF RolledUp
<1>3. entry.to = to /\ (entry.counts <=> counts) /\ entry.status = status /\ entry.progress = progress
  BY <1>1, Zenon DEF RolledUp
<1> HIDE DEF entry
<1>4. roll'[c] = entry /\ \A d \in Children : d # c => roll'[d] = roll[d]
  BY <1>2 DEF LifecycleInv, Typed
<1>5. /\ entry.counts <=> Counting(Siblings(c, entry.to)) # {}
      /\ entry.counts => Rounded(Siblings(c, entry.to)) = IF entry.status # None THEN entry.progress ELSE task.progress
  <2>1. /\ counts <=> Counting(Siblings(c, to)) # {}
        /\ counts => Rounded(Siblings(c, to)) = IF status # None THEN progress ELSE task.progress
    BY <1>1, Zenon DEF RolledUp
  <2>2. entry.to = to /\ entry.counts = counts /\ entry.status = status /\ entry.progress = progress
    BY Zenon DEF entry
  <2>3. QED
    BY <2>1, <2>2, Zenon
<1>6. child' = child /\ task' = task
  BY <1>2
<1>7. RollIsCurrent'
  <2>1. SUFFICES ASSUME NEW d \in Children, roll'[d].busy, roll'[d].clean
                 PROVE  /\ roll'[d].counts <=> Counting(Siblings(d, roll'[d].to)) # {}
                        /\ roll'[d].counts => Rounded(Siblings(d, roll'[d].to)) =
                               IF roll'[d].status # None THEN roll'[d].progress ELSE task.progress
    BY <1>6, Zenon DEF RollIsCurrent, Siblings
  <2>2. CASE d = c
    BY <1>4, <1>5, <2>2, Zenon
  <2>3. CASE d # c
    BY <1>4, <2>1, <2>3, Zenon DEF RollInv, RollIsCurrent
  <2>4. QED
    BY <2>2, <2>3
<1>8. ProgressIsRolledUp'
  BY <1>2 DEF RollInv, ProgressIsRolledUp, Counting, Rounded, DoneOf
<1>9. QED
  BY <1>7, <1>8 DEF RollInv

LEMMA ChildCommitsRolls ==
  ASSUME LifecycleInv, RollInv, NEW c \in Children, ChildCommits(c)
  PROVE  RollInv'
<1>1. /\ child' = Siblings(c, roll[c].to) /\ roll' = [Overtaken EXCEPT ![c] = NoRoll] /\ roll[c].busy
  BY DEF ChildCommits, Siblings
<1>2. touched' <=> (~roll[c].clean \/ (touched /\ ~roll[c].counts))
  BY Zenon DEF ChildCommits
<1>3. roll[c].status # None => task'.progress = roll[c].progress
  <2>1. SUFFICES ASSUME roll[c].status # None PROVE task'.progress = roll[c].progress
    OBVIOUS
  <2>2. PICK status, progress : status = roll[c].status /\ progress = roll[c].progress
    OBVIOUS
  <2>3. task' = [task EXCEPT !.status = status, !.progress = progress]
    BY <2>1, <2>2 DEF ChildCommits
  <2>4. QED
    BY <2>2, <2>3 DEF LifecycleInv, Typed
<1>4. roll[c].status = None => task' = task
  BY DEF ChildCommits
<1>5. RollIsCurrent'
  <2>1. NoRoll.busy = FALSE
    BY Zenon DEF NoRoll
  <2>2. \A d \in Children : roll'[d] = NoRoll \/ roll'[d] = Overtaken[d]
    BY <1>1, OvertakenFacts
  <2>3. \A d \in Children : ~(roll'[d].busy /\ roll'[d].clean)
    BY <2>1, <2>2, NobodyIsClean, Zenon
  <2>4. QED
    BY <2>3 DEF RollIsCurrent
<1>6. ProgressIsRolledUp'
  <2>1. SUFFICES ASSUME ~touched', Counting(child') # {} PROVE task'.progress = Rounded(child')
    BY DEF ProgressIsRolledUp, Counting, Rounded, DoneOf
  <2>2. roll[c].clean /\ (~touched \/ roll[c].counts)
    BY <1>2, <2>1, Zenon
  <2>3. /\ roll[c].counts <=> Counting(child') # {}
        /\ roll[c].counts => Rounded(child') = IF roll[c].status # None THEN roll[c].progress ELSE task.progress
    BY <1>1, <2>2, Zenon DEF RollInv, RollIsCurrent
  <2>4. Rounded(child') = IF roll[c].status # None THEN roll[c].progress ELSE task.progress
    BY <2>1, <2>3, Zenon
  <2>5. QED
    BY <1>3, <1>4, <2>4
<1>7. QED
  BY <1>5, <1>6 DEF RollInv

\* After a roll-up that nothing ran beside, the parent shows its children.
THEOREM ProgressRollsUp == Spec => []ProgressIsRolledUp
<1>1. Init => RollInv
  <2>1. SUFFICES ASSUME Init PROVE RollInv
    OBVIOUS
  <2>2. \A c \in Children : roll[c] = NoRoll /\ child[c] = "off"
    BY <2>1 DEF Init
  <2>3. NoRoll.busy = FALSE
    BY Zenon DEF NoRoll
  <2>4. RollIsCurrent
    BY <2>2, <2>3, Zenon DEF RollIsCurrent
  <2>5. ProgressIsRolledUp
    BY <2>2 DEF ProgressIsRolledUp, Counting
  <2>6. QED
    BY <2>4, <2>5 DEF RollInv
<1>2. LifecycleInv /\ RollInv /\ [Next]_vars => RollInv'
  <2>1. SUFFICES ASSUME LifecycleInv, RollInv, [Next]_vars PROVE RollInv'
    OBVIOUS
  <2>2. ASSUME NEW s \in Slots, Load(s) PROVE RollInv'
    <3>1. UNCHANGED <<task, child, roll, touched>>
      BY <2>2 DEF Load, Begin, UpdateStatus, Start, UpdateProgress, Cancel, Resolve, SubmitResult, SubmitDeliverable,
         ReviewDeliverable, Review, RequestRevision, Approve, Define
    <3>2. QED
      BY <2>1, <3>1, QuietRolls
  <2>3. ASSUME NEW s \in Slots,
               LookReviewDeliverable(s) \/ LookReview(s) \/ LookRequestRevision(s) \/ LookApprove(s) \/ Refuse(s)
        PROVE  RollInv'
    <3>1. UNCHANGED <<task, child, roll, touched>>
      BY <2>3 DEF LookReviewDeliverable, LookReview, LookRequestRevision, LookApprove, Looked, Refuse
    <3>2. QED
      BY <2>1, <3>1, QuietRolls
  <2>4. ASSUME NEW u \in Users, Reassign(u) PROVE RollInv'
    <3>1. task' = [task EXCEPT !.dri = u] /\ UNCHANGED <<child, roll, touched>>
      BY <2>4 DEF Reassign
    <3>2. task'.progress = task.progress
      BY <2>1, <3>1 DEF LifecycleInv, Typed
    <3>3. QED
      BY <2>1, <3>1, <3>2, QuietRolls
  <2>5. ASSUME NEW c \in Children, ChildMovesQuietly(c) PROVE RollInv'
    <3>1. roll' = Overtaken /\ touched' = TRUE
      BY <2>5 DEF ChildMovesQuietly
    <3>2. QED
      BY <2>1, <3>1, NobodyIsClean DEF RollInv, RollIsCurrent, ProgressIsRolledUp
  <2>6. CASE UNCHANGED vars
    <3>1. UNCHANGED <<task, child, roll, touched>>
      BY <2>6 DEF vars
    <3>2. QED
      BY <2>1, <3>1, QuietRolls
  <2>7. QED
    BY <2>1, <2>2, <2>3, <2>4, <2>5, <2>6, CommitRolls, ChildRollsUpRolls, ChildCommitsRolls, Zenon DEF Next
<1>3. RollInv => ProgressIsRolledUp
  BY DEF RollInv
<1>4. QED
  BY <1>1, <1>2, <1>3, LifecycleIsInvariant, PTL DEF Spec
=============================================================================
