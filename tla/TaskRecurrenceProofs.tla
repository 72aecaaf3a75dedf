------------------------ MODULE TaskRecurrenceProofs -------------------------
(***************************************************************************)
(* Proofs about TaskRecurrence, for any number of scans side by side, of   *)
(* months and of faults.  A month whose task nobody lost has one scan that *)
(* works on it at most, under a row that has no task yet; and its task is  *)
(* recorded or in the hands of that scan.                                  *)
(***************************************************************************)
EXTENDS TaskRecurrence, TLAPS

Carrying(s, k) == scan[s].at = k /\ scan[s].step \in {"created", "recording"}

\* A scan works on a month under its row, which has no task.
WorkHasRow ==
  \A k \in Periods \ forgotten : \A s \in Scanners :
     Working(s, k) => run[k].row /\ ~run[k].task

OneWorker ==
  \A k \in Periods \ forgotten : \A s, t \in Scanners :
     Working(s, k) /\ Working(t, k) => s = t

\* Before the task is created there is none.
NoneYet ==
  \A k \in Periods \ forgotten : \A s \in Scanners :
     scan[s].at = k /\ scan[s].step = "generating" => created[k] = 0

\* A task is recorded, or a scan carries it.
Accounted ==
  \A k \in Periods \ forgotten :
     created[k] # 0 => /\ created[k] = 1
                       /\ run[k].task \/ \E s \in Scanners : Carrying(s, k)

\* A scan that is at a month is at one of the calendar.
AtMonth == \A s \in Scanners :
  scan[s].step \in {"generating", "created", "recording", "failing"} => scan[s].at \in Periods

RecurrenceInv == TypeOK /\ AtMonth /\ WorkHasRow /\ OneWorker /\ NoneYet /\ Accounted

USE RecurrenceAssumption DEF Steps, Run

-----------------------------------------------------------------------------
LEMMA InitHolds ==
  ASSUME Init
  PROVE  RecurrenceInv
<1>1. 1 \in Periods /\ None \notin Periods
  BY DEF Periods, None
<1>2. TypeOK
  BY <1>1 DEF Init, TypeOK, NoRun, Idle
<1>3. AtMonth /\ WorkHasRow /\ OneWorker /\ NoneYet /\ Accounted
  BY DEF Init, AtMonth, WorkHasRow, OneWorker, NoneYet, Accounted, Working, Idle
<1>4. QED
  BY <1>2, <1>3 DEF RecurrenceInv

\* What the types say, without the records.
LEMMA Types ==
  ASSUME RecurrenceInv
  PROVE  /\ now \in Periods /\ rec \in [active : BOOLEAN, catchUp : 0..MaxCatchUp]
         /\ run \in [Periods -> Run] /\ created \in [Periods -> 0..2]
         /\ \A k \in Periods : ~run[k].row => run[k] = NoRun
         /\ \A k \in Periods : run[k].task => run[k].row
         /\ scan \in [Scanners -> [step : Steps, key : Periods \cup {None}, at : Periods \cup {None}, todo : SUBSET Scheduled]]
         /\ faults \in 0..MaxFaults /\ forgotten \subseteq Periods
  BY DEF RecurrenceInv, TypeOK, NoRun

LEMMA RunFields ==
  ASSUME NEW r \in Run
  PROVE  /\ [r EXCEPT !.error = TRUE] \in Run
         /\ [r EXCEPT !.error = TRUE].row = r.row /\ [r EXCEPT !.error = TRUE].task = r.task
         /\ \A b \in BOOLEAN : /\ [r EXCEPT !.task = b] \in Run /\ [r EXCEPT !.task = b].row = r.row
                               /\ [r EXCEPT !.task = b].task = b
                               /\ [r EXCEPT !.task = b].error = r.error
         /\ [r EXCEPT !.stale = TRUE] \in Run
         /\ [r EXCEPT !.stale = TRUE].row = r.row /\ [r EXCEPT !.stale = TRUE].task = r.task
<1>1. r.row \in BOOLEAN /\ r.task \in BOOLEAN /\ r.error \in BOOLEAN /\ r.stale \in BOOLEAN
  OBVIOUS
<1>2. [r EXCEPT !.error = TRUE] \in Run
  BY <1>1
<1>3. [r EXCEPT !.error = TRUE].row = r.row /\ [r EXCEPT !.error = TRUE].task = r.task
  BY <1>1
<1>4. \A b \in BOOLEAN : [r EXCEPT !.task = b] \in Run
  BY <1>1
<1>5. \A b \in BOOLEAN : [r EXCEPT !.task = b].row = r.row /\ [r EXCEPT !.task = b].error = r.error
  BY <1>1
<1>6. \A b \in BOOLEAN : [r EXCEPT !.task = b].task = b
  OBVIOUS
<1>7. [r EXCEPT !.stale = TRUE] \in Run
  BY <1>1
<1>8. [r EXCEPT !.stale = TRUE].row = r.row /\ [r EXCEPT !.stale = TRUE].task = r.task
  BY <1>1
<1>9. QED
  BY <1>2, <1>3, <1>4, <1>5, <1>6, <1>7, <1>8

LEMMA RunUpdate ==
  ASSUME run \in [Periods -> Run], NEW k \in Periods, NEW r \in Run, run' = [run EXCEPT ![k] = r]
  PROVE  run' \in [Periods -> Run] /\ run'[k] = r /\ \A j \in Periods \ {k} : run'[j] = run[j]
OBVIOUS

\* An error, or anything else but its task, is changed in the row of a month.
LEMMA RowChanged ==
  ASSUME RecurrenceInv, NEW k \in Periods, run[k].row,
         NEW r \in Run, r.row = run[k].row, r.task = run[k].task, run' = [run EXCEPT ![k] = r]
  PROVE  run' \in [Periods -> Run] /\ \A j \in Periods : /\ run'[j].row = run[j].row
                                                        /\ run'[j].task = run[j].task
                                                        /\ ~run[j].row => run'[j] = run[j]
<1>1. run \in [Periods -> Run] /\ run[k] \in Run
  BY Types
<1> HIDE DEF Run
<1>2. run' \in [Periods -> Run] /\ run'[k] = r /\ \A j \in Periods \ {k} : run'[j] = run[j]
  BY <1>1, RunUpdate
<1>3. QED
  BY <1>2

LEMMA CleanStep ==
  ASSUME RecurrenceInv, NEW ks \in SUBSET Periods, DeleteRuns(ks),
         \A k \in ks : ~run[k].task,
         UNCHANGED created,
         now' \in Periods, rec' \in [active : BOOLEAN, catchUp : 0..MaxCatchUp],
         faults' \in 0..MaxFaults,
         scan' \in [Scanners -> [step : Steps, key : Periods \cup {None}, at : Periods \cup {None}, todo : SUBSET Scheduled]],
         \A s \in Scanners : \/ scan'[s].step = scan[s].step /\ scan'[s].at = scan[s].at
                             \/ /\ scan'[s].step \in {"idle", "cleaned", "claiming"}
                                /\ scan[s].step \in {"idle", "cleaned", "claiming"}
  PROVE  RecurrenceInv'
<1>1. /\ run' = [k \in Periods |-> IF k \in ks THEN NoRun ELSE run[k]]
      /\ forgotten' = forgotten \cup {k \in ks : \E s \in Scanners : Working(s, k)}
  BY DEF DeleteRuns
<1>2. NoRun \in Run
  BY DEF NoRun
<1>3. TypeOK'
  BY <1>1, <1>2, Types DEF TypeOK
<1>4. \A s \in Scanners, k \in Periods : (Working(s, k)' <=> Working(s, k)) /\ (Carrying(s, k)' <=> Carrying(s, k))
  BY DEF Working, Carrying
<1>5. AtMonth'
  BY DEF RecurrenceInv, AtMonth
<1>6. WorkHasRow' /\ OneWorker'
  BY <1>1, <1>4 DEF RecurrenceInv, WorkHasRow, OneWorker
<1>7. NoneYet'
  BY <1>1 DEF RecurrenceInv, NoneYet
<1>8. Accounted'
  <2> SUFFICES ASSUME NEW k \in Periods \ forgotten', created[k] # 0
               PROVE  created[k] = 1 /\ (run'[k].task \/ \E s \in Scanners : Carrying(s, k)')
    BY DEF Accounted
  <2>1. created[k] = 1 /\ (run[k].task \/ \E s \in Scanners : Carrying(s, k))
    BY <1>1 DEF RecurrenceInv, Accounted
  <2>2. CASE run[k].task
    BY <2>1, <2>2, <1>1
  <2>3. CASE \E s \in Scanners : Carrying(s, k)
    BY <2>1, <2>3, <1>4
  <2>4. QED
    BY <2>1, <2>2, <2>3
<1>9. QED
  BY <1>3, <1>5, <1>6, <1>7, <1>8 DEF RecurrenceInv

\* A step of one scan that leaves the calendar alone, keeps the rows and the
\* tasks of the months, and works on no month that it did not work on; what it
\* drops it has recorded or forgotten.
LEMMA OneScanStep ==
  ASSUME RecurrenceInv, NEW s \in Scanners,
         UNCHANGED <<now, rec, created>>, faults' \in 0..MaxFaults,
         forgotten \subseteq forgotten', forgotten' \subseteq Periods,
         NEW new \in [step : Steps, key : Periods \cup {None}, at : Periods \cup {None}, todo : SUBSET Scheduled],
         scan' = [scan EXCEPT ![s] = new],
         new.step \in {"generating", "created", "recording", "failing"} =>
            /\ new.at = scan[s].at
            /\ scan[s].step \in {"generating", "created", "recording", "failing"},
         new.step = "generating" => scan[s].step = "generating",
         new.step \in {"created", "recording"} => scan[s].step \in {"created", "recording"},
         run' \in [Periods -> Run],
         \A k \in Periods : /\ run'[k].row = run[k].row
                            /\ run[k].task => run'[k].task
                            /\ ~run[k].row => run'[k] = run[k]
                            /\ run'[k].task => run[k].task \/ scan[s].at = k,
         \A k \in Periods \ forgotten' :
            Carrying(s, k) /\ ~(new.at = k /\ new.step \in {"created", "recording"}) => run'[k].task,
         \A k \in Periods \ forgotten' :
            scan[s].at = k /\ run'[k].task /\ ~run[k].task => Working(s, k) /\ ~(Working(s, k)')
  PROVE  RecurrenceInv'
<1>1. TypeOK'
  BY Types DEF TypeOK
<1>2. scan'[s] = new /\ \A t \in Scanners \ {s} : scan'[t] = scan[t]
  BY Types
<1>3. \A t \in Scanners, k \in Periods : Working(t, k)' => Working(t, k)
  BY <1>2 DEF Working
<1>4. \A t \in Scanners \ {s}, k \in Periods : /\ Working(t, k)' <=> Working(t, k)
                                               /\ Carrying(t, k)' <=> Carrying(t, k)
  BY <1>2 DEF Working, Carrying
<1>5. AtMonth'
  BY <1>2 DEF RecurrenceInv, AtMonth
<1>6. OneWorker'
  BY <1>3 DEF RecurrenceInv, OneWorker
<1>7. WorkHasRow'
  <2> SUFFICES ASSUME NEW k \in Periods \ forgotten', NEW t \in Scanners, Working(t, k)'
               PROVE  run'[k].row /\ ~run'[k].task
    BY DEF WorkHasRow
  <2>1. Working(t, k) /\ run[k].row /\ ~run[k].task
    BY <1>3 DEF RecurrenceInv, WorkHasRow
  <2>2. run'[k].row
    BY <2>1
  <2>3. ASSUME run'[k].task PROVE FALSE
    <3>1. ~Working(s, k)' /\ Working(s, k)
      BY <2>1, <2>3
    <3>2. s = t
      BY <2>1, <3>1 DEF RecurrenceInv, OneWorker
    <3>3. QED
      BY <3>1, <3>2
  <2>4. QED
    BY <2>2, <2>3
<1>8. NoneYet'
  BY <1>2 DEF RecurrenceInv, NoneYet
<1>9. Accounted'
  <2> SUFFICES ASSUME NEW k \in Periods \ forgotten', created[k] # 0
               PROVE  created[k] = 1 /\ (run'[k].task \/ \E t \in Scanners : Carrying(t, k)')
    BY DEF Accounted
  <2>1. created[k] = 1 /\ (run[k].task \/ \E t \in Scanners : Carrying(t, k))
    BY DEF RecurrenceInv, Accounted
  <2>2. CASE run[k].task
    BY <2>1, <2>2
  <2>3. ASSUME NEW t \in Scanners, Carrying(t, k)
        PROVE  run'[k].task \/ \E u \in Scanners : Carrying(u, k)'
    <3>1. CASE t # s
      BY <2>3, <3>1, <1>4
    <3>2. CASE t = s
      BY <2>3, <3>2, <1>2 DEF Carrying
    <3>3. QED
      BY <3>1, <3>2
  <2>4. QED
    BY <2>1, <2>2, <2>3
<1>10. QED
  BY <1>1, <1>5, <1>6, <1>7, <1>8, <1>9 DEF RecurrenceInv

\* The same for a step that only gives up the month of the scan.
LEMMA DoneScanStep ==
  ASSUME RecurrenceInv, NEW s \in Scanners,
         UNCHANGED <<now, rec, created, faults, forgotten>>,
         scan' = [scan EXCEPT ![s] = Done(s)],
         scan[s].at \in Periods, Working(s, scan[s].at),
         run' \in [Periods -> Run],
         \A k \in Periods : /\ run'[k].row = run[k].row
                            /\ run[k].task => run'[k].task
                            /\ ~run[k].row => run'[k] = run[k]
                            /\ run'[k].task => run[k].task \/ scan[s].at = k,
         \A k \in Periods \ forgotten : Carrying(s, k) => run'[k].task
  PROVE  RecurrenceInv'
<1>1. /\ Done(s) \in [step : Steps, key : Periods \cup {None}, at : Periods \cup {None}, todo : SUBSET Scheduled]
      /\ Done(s).step = "claiming"
  BY Types DEF Done, Idle
<1>2. \A k \in Periods : scan[s].at = k => Working(s, k) /\ ~(Working(s, k)')
  <2>1. scan'[s].step = "claiming"
    BY <1>1, Types
  <2>2. \A k \in Periods : ~(Working(s, k)')
    BY <2>1 DEF Working
  <2>3. QED
    BY <2>2
<1>3. faults' \in 0..MaxFaults /\ forgotten' \subseteq Periods
  BY Types
<1> DEFINE to == Done(s)
<1>4. to.step = "claiming" /\ scan' = [scan EXCEPT ![s] = to]
      /\ to \in [step : Steps, key : Periods \cup {None}, at : Periods \cup {None}, todo : SUBSET Scheduled]
  BY <1>1
<1>5. \A k \in Periods \ forgotten' : Carrying(s, k) => run'[k].task
  OBVIOUS
<1> HIDE DEF to, Run, Steps
<1>6. QED
  BY <1>2, <1>3, <1>4, <1>5, OneScanStep, ZenonT(30)

LEMMA QuietScanSteps ==
  ASSUME RecurrenceInv, NEW s \in Scanners, ReadDue(s) \/ EndScan(s) \/ Fail(s) \/ Crash(s)
  PROVE  RecurrenceInv'
<1>0. scan[s] \in [step : Steps, key : Periods \cup {None}, at : Periods \cup {None}, todo : SUBSET Scheduled]
  BY Types
<1>1. CASE ReadDue(s)
  <2> DEFINE new == [Idle EXCEPT !.step = "claiming",
                     !.todo = IF rec.active THEN DuePeriods(scan[s].key, rec.catchUp) ELSE {}]
  <2>1. new \in [step : Steps, key : Periods \cup {None}, at : Periods \cup {None}, todo : SUBSET Scheduled]
    BY DEF DuePeriods, Idle
  <2>2. /\ UNCHANGED <<now, rec, created, faults, forgotten, run>>
        /\ scan' = [scan EXCEPT ![s] = new] /\ scan[s].step = "cleaned" /\ new.step = "claiming"
    BY <1>1 DEF ReadDue
  <2> HIDE DEF new
  <2>3. QED
    BY <2>1, <2>2, Types, OneScanStep DEF Carrying, Working
<1>2. CASE EndScan(s)
  <2>1. Idle \in [step : Steps, key : Periods \cup {None}, at : Periods \cup {None}, todo : SUBSET Scheduled] /\ Idle.step = "idle"
    BY DEF Idle
  <2>2. /\ UNCHANGED <<now, rec, created, faults, forgotten, run>>
        /\ scan' = [scan EXCEPT ![s] = Idle] /\ scan[s].step = "claiming"
    BY <1>2 DEF EndScan
  <2>3. QED
    BY <2>1, <2>2, Types, OneScanStep DEF Carrying, Working
<1>3. CASE Fail(s)
  <2> DEFINE k == scan[s].at
  <2>1. Done(s) \in [step : Steps, key : Periods \cup {None}, at : Periods \cup {None}, todo : SUBSET Scheduled] /\ Done(s).step = "claiming"
    BY <1>0 DEF Done, Idle
  <2>2. /\ UNCHANGED <<now, rec, created, faults, forgotten>>
        /\ scan' = [scan EXCEPT ![s] = Done(s)] /\ scan[s].step = "failing"
    BY <1>3 DEF Fail
  <2>6. run' = IF run[k].row THEN [run EXCEPT ![k] = [run[k] EXCEPT !.error = TRUE]] ELSE run
    BY <1>3, Zenon DEF Fail
  <2>3. k \in Periods
    BY <2>2 DEF RecurrenceInv, AtMonth
  <2>4. run' \in [Periods -> Run] /\ \A j \in Periods : /\ run'[j].row = run[j].row
                                                        /\ run'[j].task = run[j].task
                                                        /\ ~run[j].row => run'[j] = run[j]
    <3>1. CASE run[k].row
      <4>1. run' = [run EXCEPT ![k] = [run[k] EXCEPT !.error = TRUE]]
        BY <2>6, <3>1, Zenon
      <4> DEFINE r == [run[k] EXCEPT !.error = TRUE]
      <4>2. run[k] \in Run
        BY <2>3, Types
      <4> HIDE DEF k, Run
      <4>3. r \in Run /\ r.row = run[k].row /\ r.task = run[k].task /\ run' = [run EXCEPT ![k] = r]
        BY <4>1, <4>2, RunFields, Zenon
      <4> HIDE DEF r
      <4>4. QED
        BY <2>3, <3>1, <4>3, RowChanged
    <3>2. CASE ~run[k].row
      BY <2>6, <3>2, Types
    <3>3. QED
      BY <3>1, <3>2
  <2>5. QED
    BY <2>1, <2>2, <2>4, Types, OneScanStep DEF Carrying, Working
<1>4. CASE Crash(s)
  <2>1. Idle \in [step : Steps, key : Periods \cup {None}, at : Periods \cup {None}, todo : SUBSET Scheduled] /\ Idle.step = "idle"
    BY DEF Idle
  <2>2. /\ UNCHANGED <<now, rec, created, run>> /\ faults' \in 0..MaxFaults
        /\ scan' = [scan EXCEPT ![s] = Idle]
        /\ forgotten' = IF scan[s].step \in {"created", "recording"} THEN forgotten \cup {scan[s].at}
                        ELSE forgotten
    BY <1>4, Types DEF Crash
  <2>3. forgotten' \subseteq Periods /\ forgotten \subseteq forgotten'
    BY <2>2, Types DEF RecurrenceInv, AtMonth
  <2>4. \A k \in Periods \ forgotten' : ~Carrying(s, k)
    BY <2>2 DEF Carrying
  <2>5. QED
    BY <2>1, <2>2, <2>3, <2>4, Types, OneScanStep DEF Working
<1>5. QED
  BY <1>1, <1>2, <1>3, <1>4

LEMMA CompleteStep ==
  ASSUME RecurrenceInv, NEW s \in Scanners, Complete(s)
  PROVE  RecurrenceInv'
<1> DEFINE k == scan[s].at
<1>1. /\ scan[s].step = "created" /\ UNCHANGED <<now, rec, created, faults>>
      /\ \/ /\ scan' = [scan EXCEPT ![s] = [scan[s] EXCEPT !.step = "recording"]]
            /\ \/ UNCHANGED run
               \/ run[k].row /\ run' = [run EXCEPT ![k].error = TRUE]
            /\ UNCHANGED forgotten
         \/ /\ scan' = [scan EXCEPT ![s] = [scan[s] EXCEPT !.step = "failing"]]
            /\ forgotten' = forgotten \cup {k} /\ UNCHANGED run
  BY DEF Complete
<1>2. k \in Periods /\ scan[s] \in [step : Steps, key : Periods \cup {None}, at : Periods \cup {None}, todo : SUBSET Scheduled]
  BY <1>1, Types DEF RecurrenceInv, AtMonth
<1>3. /\ run' \in [Periods -> Run]
      /\ \A j \in Periods : /\ run'[j].row = run[j].row
                            /\ run'[j].task = run[j].task
                            /\ ~run[j].row => run'[j] = run[j]
  <2>1. CASE UNCHANGED run
    BY <2>1, Types
  <2>2. CASE run[k].row /\ run' = [run EXCEPT ![k].error = TRUE]
    <3>1. run' = [run EXCEPT ![k] = [run[k] EXCEPT !.error = TRUE]]
      BY <2>2, Zenon
    <3> DEFINE r == [run[k] EXCEPT !.error = TRUE]
    <3>2. run[k] \in Run
      BY <1>2, Types
    <3> HIDE DEF k, Run
    <3>3. r \in Run /\ r.row = run[k].row /\ r.task = run[k].task /\ run' = [run EXCEPT ![k] = r]
      BY <3>1, <3>2, RunFields, Zenon
    <3> HIDE DEF r
    <3>4. QED
      BY <1>2, <2>2, <3>3, RowChanged
  <2>3. QED
    BY <1>1, <2>1, <2>2
<1>4. CASE scan' = [scan EXCEPT ![s] = [scan[s] EXCEPT !.step = "recording"]] /\ UNCHANGED forgotten
  <2> DEFINE to == [scan[s] EXCEPT !.step = "recording"]
  <2>1. /\ to \in [step : Steps, key : Periods \cup {None}, at : Periods \cup {None}, todo : SUBSET Scheduled]
        /\ to.step = "recording" /\ to.at = scan[s].at
    BY <1>2
  <2>2. scan' = [scan EXCEPT ![s] = to]
    BY <1>4
  <2>3. faults' \in 0..MaxFaults /\ forgotten \subseteq forgotten' /\ forgotten' \subseteq Periods
    BY <1>1, <1>4, Types
  <2>4. \A j \in Periods : Carrying(s, j) /\ ~(to.at = j /\ to.step \in {"created", "recording"}) => run'[j].task
    BY <2>1 DEF Carrying
  <2> HIDE DEF to, Run, Steps, k
  <2>5. QED
    BY <1>1, <1>3, <2>1, <2>2, <2>3, <2>4, OneScanStep, ZenonT(30)
<1>5. CASE scan' = [scan EXCEPT ![s] = [scan[s] EXCEPT !.step = "failing"]] /\ forgotten' = forgotten \cup {k}
  <2> DEFINE to == [scan[s] EXCEPT !.step = "failing"]
  <2>1. /\ to \in [step : Steps, key : Periods \cup {None}, at : Periods \cup {None}, todo : SUBSET Scheduled]
        /\ to.step = "failing" /\ to.at = scan[s].at
    BY <1>2
  <2>2. scan' = [scan EXCEPT ![s] = to]
    BY <1>5
  <2>3. faults' \in 0..MaxFaults /\ forgotten \subseteq forgotten' /\ forgotten' \subseteq Periods
    BY <1>1, <1>2, <1>5, Types
  <2>4. \A j \in Periods \ forgotten' : ~Carrying(s, j)
    BY <1>5 DEF Carrying
  <2> HIDE DEF to, Run, Steps, k
  <2>5. QED
    BY <1>1, <1>3, <2>1, <2>2, <2>3, <2>4, OneScanStep, ZenonT(30)
<1>6. QED
  BY <1>1, <1>4, <1>5

LEMMA RecordStep ==
  ASSUME RecurrenceInv, NEW s \in Scanners, Record(s)
  PROVE  RecurrenceInv'
<1> DEFINE k == scan[s].at
           to == Done(s)
<1>1. /\ scan[s].step = "recording" /\ UNCHANGED <<now, rec, created, faults, forgotten>>
      /\ scan' = [scan EXCEPT ![s] = to]
  BY DEF Record
<1>2. run' = IF run[k].row THEN [run EXCEPT ![k] = [run[k] EXCEPT !.task = TRUE]] ELSE run
  BY Zenon DEF Record
<1>3. k \in Periods /\ to \in [step : Steps, key : Periods \cup {None}, at : Periods \cup {None}, todo : SUBSET Scheduled]
      /\ to.step = "claiming" /\ to.at = None
  BY <1>1, Types DEF RecurrenceInv, AtMonth, Done, Idle
<1>4. /\ run' \in [Periods -> Run]
      /\ \A j \in Periods : /\ run'[j].row = run[j].row
                            /\ run[j].task => run'[j].task
                            /\ ~run[j].row => run'[j] = run[j]
                            /\ run'[j].task => run[j].task \/ j = k
      /\ run[k].row => run'[k].task
  <2>1. CASE ~run[k].row
    BY <1>2, <2>1, Types
  <2>2. CASE run[k].row
    <3> DEFINE r == [run[k] EXCEPT !.task = TRUE]
    <3>1. run \in [Periods -> Run] /\ run[k] \in Run
      BY <1>3, Types
    <3>2. run' = [run EXCEPT ![k] = r]
      BY <1>2, <2>2, Zenon
    <3> HIDE DEF Run, k
    <3>3. r \in Run /\ r.row = run[k].row /\ r.task
      BY <3>1, RunFields, Zenon
    <3> HIDE DEF r
    <3>4. run' \in [Periods -> Run] /\ run'[k] = r /\ \A j \in Periods \ {k} : run'[j] = run[j]
      BY <1>3, <3>1, <3>2, <3>3, RunUpdate
    <3>5. QED
      BY <2>2, <3>3, <3>4
  <2>3. QED
    BY <2>1, <2>2
<1>5. \A j \in Periods \ forgotten : Carrying(s, j) => run'[j].task
  <2> SUFFICES ASSUME NEW j \in Periods \ forgotten, Carrying(s, j)
               PROVE  run'[j].task
    OBVIOUS
  <2>1. j = k /\ Working(s, j)
    BY DEF Carrying, Working
  <2>2. run[j].row
    BY <2>1 DEF RecurrenceInv, WorkHasRow
  <2>3. QED
    BY <2>1, <2>2, <1>4
<1>6. Working(s, scan[s].at)
  BY <1>1 DEF Working
<1>7. \A j \in Periods : /\ run'[j].row = run[j].row
                         /\ run[j].task => run'[j].task
                         /\ ~run[j].row => run'[j] = run[j]
                         /\ run'[j].task => run[j].task \/ scan[s].at = j
  BY <1>4
<1> HIDE DEF Run
<1>8. QED
  BY <1>1, <1>3, <1>4, <1>5, <1>6, <1>7, DoneScanStep

LEMMA ClaimStep ==
  ASSUME RecurrenceInv, NEW s \in Scanners, ClaimNext(s)
  PROVE  RecurrenceInv'
<1>1. PICK k \in scan[s].todo :
        /\ run' = IF Free(k) THEN [run EXCEPT ![k] = Claim] ELSE run
        /\ scan' = [scan EXCEPT ![s] =
                      IF Free(k) THEN [Idle EXCEPT !.step = "generating", !.at = k, !.todo = scan[s].todo \ {k}]
                      ELSE [Idle EXCEPT !.step = "claiming", !.todo = scan[s].todo \ {k}]]
  BY DEF ClaimNext
<1>2. scan[s].step = "claiming" /\ UNCHANGED <<now, rec, faults, created, forgotten>>
  BY DEF ClaimNext
<1>3. scan[s] \in [step : Steps, key : Periods \cup {None}, at : Periods \cup {None}, todo : SUBSET Scheduled] /\ k \in Periods
  BY Types
<1>4. CASE ~Free(k)
  <2> DEFINE to == [Idle EXCEPT !.step = "claiming", !.todo = scan[s].todo \ {k}]
  <2>1. to \in [step : Steps, key : Periods \cup {None}, at : Periods \cup {None}, todo : SUBSET Scheduled] /\ to.step = "claiming"
    BY <1>3 DEF Idle
  <2>2. scan' = [scan EXCEPT ![s] = to] /\ run' = run
    BY <1>1, <1>4
  <2> HIDE DEF to
  <2>3. QED
    BY <1>2, <2>1, <2>2, Types, OneScanStep DEF Carrying, Working
<1>5. CASE Free(k)
  <2>1. ~run[k].row /\ ~run[k].task
    BY <1>3, <1>5, Types DEF Free
  <2>2. Claim \in Run /\ Claim.row /\ ~Claim.task
    BY DEF Claim, NoRun
  <2>3. run' \in [Periods -> Run] /\ run'[k] = Claim /\ \A j \in Periods \ {k} : run'[j] = run[j]
    BY <1>1, <1>3, <1>5, <2>2, Types
  <2>4. /\ \A t \in Scanners \ {s} : scan'[t] = scan[t]
        /\ scan' \in [Scanners -> [step : Steps, key : Periods \cup {None}, at : Periods \cup {None}, todo : SUBSET Scheduled]]
        /\ scan'[s].step = "generating" /\ scan'[s].at = k
    BY <1>1, <1>3, <1>5, Types DEF Idle
  <2>5. TypeOK'
    BY <1>2, <2>2, <2>3, <2>4, Types DEF TypeOK
  <2>6. k \in forgotten \/ /\ \A t \in Scanners : ~Working(t, k)
                           /\ created[k] = 0
    BY <1>3, <2>1 DEF RecurrenceInv, WorkHasRow, Accounted, Working, Carrying
  <2>7. \A t \in Scanners, j \in Periods : Working(t, j)' <=> Working(t, j) \/ (t = s /\ j = k)
    BY <1>2, <2>4 DEF Working
  <2>8. \A t \in Scanners, j \in Periods : Carrying(t, j)' <=> Carrying(t, j)
    BY <1>2, <2>4 DEF Carrying
  <2>9. AtMonth'
    BY <1>3, <2>4 DEF RecurrenceInv, AtMonth
  <2>10. WorkHasRow'
    BY <1>2, <2>2, <2>3, <2>6, <2>7 DEF RecurrenceInv, WorkHasRow
  <2>11. OneWorker'
    BY <1>2, <2>6, <2>7 DEF RecurrenceInv, OneWorker
  <2>12. NoneYet'
    BY <1>2, <2>4, <2>6 DEF RecurrenceInv, NoneYet
  <2>13. Accounted'
    <3> SUFFICES ASSUME NEW j \in Periods \ forgotten, created[j] # 0
                 PROVE  created[j] = 1 /\ (run'[j].task \/ \E t \in Scanners : Carrying(t, j)')
      BY <1>2 DEF Accounted
    <3>1. j # k
      BY <2>6
    <3>2. QED
      BY <3>1, <2>3, <2>8 DEF RecurrenceInv, Accounted
  <2>14. QED
    BY <2>5, <2>9, <2>10, <2>11, <2>12, <2>13 DEF RecurrenceInv
<1>6. QED
  BY <1>4, <1>5

LEMMA GenerateStep ==
  ASSUME RecurrenceInv, NEW s \in Scanners, Generate(s)
  PROVE  RecurrenceInv'
<1> DEFINE k == scan[s].at
<1>1. /\ scan[s].step = "generating" /\ UNCHANGED <<now, rec, run, faults, forgotten>>
      /\ \/ /\ created' = [created EXCEPT ![k] = IF created[k] = 0 THEN 1 ELSE 2]
            /\ scan' = [scan EXCEPT ![s] = [scan[s] EXCEPT !.step = "created"]]
         \/ /\ scan' = [scan EXCEPT ![s] = [scan[s] EXCEPT !.step = "failing"]]
            /\ UNCHANGED created
  BY DEF Generate
<1>2. k \in Periods /\ scan[s] \in [step : Steps, key : Periods \cup {None}, at : Periods \cup {None}, todo : SUBSET Scheduled]
  BY <1>1, Types DEF RecurrenceInv, AtMonth
<1>3. CASE /\ scan' = [scan EXCEPT ![s] = [scan[s] EXCEPT !.step = "failing"]]
           /\ UNCHANGED created
  <2> DEFINE to == [scan[s] EXCEPT !.step = "failing"]
  <2>1. /\ to \in [step : Steps, key : Periods \cup {None}, at : Periods \cup {None}, todo : SUBSET Scheduled]
        /\ to.step = "failing" /\ to.at = scan[s].at
    BY <1>2
  <2>2. scan' = [scan EXCEPT ![s] = to]
    BY <1>3
  <2>3. faults' \in 0..MaxFaults /\ forgotten \subseteq forgotten' /\ forgotten' \subseteq Periods
        /\ run' \in [Periods -> Run]
    BY <1>1, Types
  <2>4. \A j \in Periods : ~Carrying(s, j)
    BY <1>1 DEF Carrying
  <2>5. \A j \in Periods : run'[j] = run[j]
    BY <1>1
  <2> HIDE DEF to, Run, Steps, k
  <2>6. QED
    BY <1>1, <1>3, <2>1, <2>2, <2>3, <2>4, <2>5, OneScanStep, ZenonT(30)
<1>4. CASE /\ created' = [created EXCEPT ![k] = IF created[k] = 0 THEN 1 ELSE 2]
           /\ scan' = [scan EXCEPT ![s] = [scan[s] EXCEPT !.step = "created"]]
  <2>1. /\ scan'[s].step = "created" /\ scan'[s].at = k
        /\ \A t \in Scanners \ {s} : scan'[t] = scan[t]
        /\ scan' \in [Scanners -> [step : Steps, key : Periods \cup {None}, at : Periods \cup {None}, todo : SUBSET Scheduled]]
    BY <1>2, <1>4, Types
  <2>2. /\ created' \in [Periods -> 0..2]
        /\ \A j \in Periods \ {k} : created'[j] = created[j]
        /\ created'[k] = IF created[k] = 0 THEN 1 ELSE 2
    BY <1>2, <1>4, Types
  <2>3. TypeOK'
    BY <1>1, <2>1, <2>2, Types DEF TypeOK
  <2>4. \A t \in Scanners, j \in Periods : /\ Working(t, j)' <=> Working(t, j)
                                           /\ Carrying(t, j)' <=> Carrying(t, j) \/ (t = s /\ j = k)
    BY <1>1, <2>1 DEF Working, Carrying
  <2>5. AtMonth' /\ WorkHasRow' /\ OneWorker'
    BY <1>1, <1>2, <2>1, <2>4 DEF RecurrenceInv, AtMonth, WorkHasRow, OneWorker
  <2>6. k \in forgotten \/ /\ created[k] = 0
                           /\ \A t \in Scanners \ {s} : ~Working(t, k)
    BY <1>1, <1>2 DEF RecurrenceInv, NoneYet, OneWorker, Working
  <2>7. NoneYet'
    <3> SUFFICES ASSUME NEW j \in Periods \ forgotten, NEW t \in Scanners,
                        scan'[t].at = j, scan'[t].step = "generating"
                 PROVE  created'[j] = 0
      BY <1>1 DEF NoneYet
    <3>1. t # s /\ scan'[t] = scan[t]
      BY <2>1
    <3>2. j # k
      BY <2>6, <3>1 DEF Working
    <3>3. QED
      BY <2>2, <3>1, <3>2 DEF RecurrenceInv, NoneYet
  <2>8. Accounted'
    <3> SUFFICES ASSUME NEW j \in Periods \ forgotten, created'[j] # 0
                 PROVE  created'[j] = 1 /\ (run[j].task \/ \E t \in Scanners : Carrying(t, j)')
      BY <1>1 DEF Accounted
    <3>1. CASE j = k
      BY <3>1, <2>2, <2>4, <2>6
    <3>2. CASE j # k
      BY <3>2, <2>2, <2>4 DEF RecurrenceInv, Accounted
    <3>3. QED
      BY <3>1, <3>2
  <2>9. QED
    BY <2>3, <2>5, <2>7, <2>8 DEF RecurrenceInv
<1>5. QED
  BY <1>1, <1>3, <1>4

\* Steps outside the scans that change one row at most.
LEMMA OutsideStep ==
  ASSUME RecurrenceInv, UNCHANGED <<created, scan>>,
         now' \in Periods, rec' \in [active : BOOLEAN, catchUp : 0..MaxCatchUp],
         faults' \in 0..MaxFaults,
         forgotten \subseteq forgotten', forgotten' \subseteq Periods,
         run' \in [Periods -> Run],
         \A k \in Periods : ~run'[k].row => run'[k] = NoRun,
         \A k \in Periods \ forgotten' : run'[k].row = run[k].row /\ run'[k].task = run[k].task
  PROVE  RecurrenceInv'
<1>1. TypeOK'
  BY Types DEF TypeOK
<1>2. AtMonth' /\ NoneYet'
  BY DEF RecurrenceInv, AtMonth, NoneYet
<1>3. WorkHasRow' /\ OneWorker'
  BY DEF RecurrenceInv, WorkHasRow, OneWorker, Working
<1>4. Accounted'
  BY DEF RecurrenceInv, Accounted, Carrying
<1>5. QED
  BY <1>1, <1>2, <1>3, <1>4 DEF RecurrenceInv

LEMMA OutsideSteps ==
  ASSUME RecurrenceInv,
         \/ NextMonth \/ UNCHANGED vars
         \/ \E k \in Periods : DeleteTask(k) \/ Age(k) \/ SlowScan(k)
  PROVE  RecurrenceInv'
<1>1. CASE NextMonth
  BY <1>1, Types, OutsideStep DEF NextMonth, Periods
<1>2. CASE UNCHANGED vars
  BY <1>2, Types, OutsideStep DEF vars
<1>3. ASSUME NEW k \in Periods, DeleteTask(k)
      PROVE  RecurrenceInv'
  <2> DEFINE r == [run[k] EXCEPT !.task = FALSE]
  <2>1. run \in [Periods -> Run] /\ run[k] \in Run /\ run[k].task /\ run[k].row
    BY <1>3, Types DEF DeleteTask
  <2>2. run' = [run EXCEPT ![k] = r]
    BY <1>3, Zenon DEF DeleteTask
  <2>3. UNCHANGED <<now, rec, faults, created, scan>> /\ forgotten' = forgotten \cup {k}
    BY <1>3 DEF DeleteTask
  <2> HIDE DEF Run
  <2>4. r \in Run /\ r.row = run[k].row
    BY <2>1, RunFields, Zenon
  <2> HIDE DEF r
  <2>5. run' \in [Periods -> Run] /\ run'[k] = r /\ \A j \in Periods \ {k} : run'[j] = run[j]
    BY <2>1, <2>2, <2>4, RunUpdate
  <2>6. QED
    BY <2>1, <2>3, <2>4, <2>5, Types, OutsideStep
<1>4. ASSUME NEW k \in Periods, Age(k) \/ SlowScan(k)
      PROVE  RecurrenceInv'
  <2> DEFINE r == [run[k] EXCEPT !.stale = TRUE]
  <2>1. run[k] \in Run /\ run[k].row
    BY <1>4, Types DEF Age, SlowScan
  <2>2. run' = [run EXCEPT ![k] = r]
    BY <1>4, Zenon DEF Age, SlowScan
  <2>3. UNCHANGED <<now, rec, created, scan, forgotten>> /\ faults' \in 0..MaxFaults
    BY <1>4, Types DEF Age, SlowScan
  <2> HIDE DEF Run
  <2>4. r \in Run /\ r.row = run[k].row /\ r.task = run[k].task
    BY <2>1, RunFields, Zenon
  <2> HIDE DEF r
  <2>5. run' \in [Periods -> Run] /\ \A j \in Periods : /\ run'[j].row = run[j].row
                                                        /\ run'[j].task = run[j].task
                                                        /\ ~run[j].row => run'[j] = run[j]
    BY <2>1, <2>2, <2>4, RowChanged
  <2>6. QED
    BY <2>3, <2>5, Types, OutsideStep
<1>5. QED
  BY <1>1, <1>2, <1>3, <1>4

LEMMA DeleteSteps ==
  ASSUME RecurrenceInv,
         \/ \E s \in Scanners : Clean(s)
         \/ \E active \in BOOLEAN, retry \in BOOLEAN, catchUp \in 0..MaxCatchUp :
               UpdateRecurrence(active, catchUp, retry)
  PROVE  RecurrenceInv'
<1>1. ASSUME NEW s \in Scanners, Clean(s)
      PROVE  RecurrenceInv'
  <2>1. /\ DeleteRuns({k \in Periods : StaleClaim(k)}) /\ UNCHANGED <<now, rec, faults, created>>
        /\ scan' = [scan EXCEPT ![s] = [Idle EXCEPT !.step = "cleaned", !.key = now]] /\ scan[s].step = "idle"
    BY <1>1 DEF Clean
  <2>2. \A k \in {j \in Periods : StaleClaim(j)} : ~run[k].task
    BY DEF StaleClaim
  <2>3. /\ scan' \in [Scanners -> [step : Steps, key : Periods \cup {None}, at : Periods \cup {None}, todo : SUBSET Scheduled]]
        /\ \A t \in Scanners : \/ scan'[t].step = scan[t].step /\ scan'[t].at = scan[t].at
                               \/ /\ scan'[t].step \in {"idle", "cleaned", "claiming"}
                                  /\ scan[t].step \in {"idle", "cleaned", "claiming"}
    BY <2>1, Types DEF Idle
  <2>4. /\ {k \in Periods : StaleClaim(k)} \in SUBSET Periods /\ UNCHANGED created
        /\ now' \in Periods /\ rec' \in [active : BOOLEAN, catchUp : 0..MaxCatchUp]
        /\ faults' \in 0..MaxFaults
    BY <2>1, Types
  <2>5. DeleteRuns({k \in Periods : StaleClaim(k)})
    BY <2>1
  <2> HIDE DEF Steps
  <2>6. QED
    BY <2>2, <2>3, <2>4, <2>5, CleanStep, ZenonT(40)
<1>2. ASSUME NEW active \in BOOLEAN, NEW retry \in BOOLEAN, NEW catchUp \in 0..MaxCatchUp,
             UpdateRecurrence(active, catchUp, retry)
      PROVE  RecurrenceInv'
  <2> DEFINE ks == IF retry THEN {k \in DuePeriods(now, catchUp) : Failed(k)} ELSE {}
  <2>1. DeleteRuns(ks) /\ UNCHANGED <<now, faults, created, scan>>
        /\ rec' = [active |-> active, catchUp |-> catchUp]
    BY <1>2 DEF UpdateRecurrence
  <2>2. ks \in SUBSET Periods /\ \A k \in ks : ~run[k].task
    BY DEF Failed, DuePeriods
  <2> HIDE DEF ks
  <2>3. rec' \in [active : BOOLEAN, catchUp : 0..MaxCatchUp]
    BY <2>1
  <2>4. QED
    BY <2>1, <2>2, <2>3, Types, CleanStep
<1>3. QED
  BY <1>1, <1>2

LEMMA NextHolds ==
  ASSUME RecurrenceInv, [Next]_vars
  PROVE  RecurrenceInv'
<1>1. CASE \E s \in Scanners : Step(s) \/ Crash(s)
  BY <1>1, DeleteSteps, QuietScanSteps, ClaimStep, GenerateStep, CompleteStep, RecordStep DEF Step
<1>2. CASE \/ \E active \in BOOLEAN, catchUp \in 0..MaxCatchUp : UpdateRecurrence(active, catchUp, FALSE)
           \/ UpdateRecurrence(rec.active, rec.catchUp, TRUE)
  <2>1. rec.active \in BOOLEAN /\ rec.catchUp \in 0..MaxCatchUp
    BY Types
  <2>2. QED
    BY <1>2, <2>1, DeleteSteps
<1>3. CASE NextMonth \/ UNCHANGED vars \/ \E k \in Periods : DeleteTask(k) \/ Age(k) \/ SlowScan(k)
  BY <1>3, OutsideSteps
<1>4. QED
  BY <1>1, <1>2, <1>3 DEF Next

\* The invariant holds in every behaviour of the scans of a schedule
\* (runTaskRecurrences, updateRecurrence, deleteTask).
THEOREM RecurrenceIsInvariant == Spec => []RecurrenceInv
<1>1. Init => RecurrenceInv
  BY InitHolds
<1>2. RecurrenceInv /\ [Next]_vars => RecurrenceInv'
  BY NextHolds
<1>3. QED
  BY <1>1, <1>2, PTL DEF Spec

\* The rows of the months and the scans keep their types.
THEOREM RecurrenceTypeCorrect == Spec => []TypeOK
<1>1. RecurrenceInv => TypeOK
  BY DEF RecurrenceInv
<1>2. QED
  BY <1>1, RecurrenceIsInvariant, PTL

\* A month gets one task, for any number of scans beside each other and of
\* faults, unless its task or its claim was lost or its task deleted.
THEOREM OneTask == Spec => []OneTaskPerPeriod
<1>1. RecurrenceInv => OneTaskPerPeriod
  <2> SUFFICES ASSUME RecurrenceInv, NEW k \in Periods, created[k] > 1, k \notin forgotten
               PROVE  FALSE
    BY DEF OneTaskPerPeriod
  <2>1. created[k] \in 0..2
    BY Types
  <2>2. created[k] = 1
    BY <2>1 DEF RecurrenceInv, Accounted
  <2>3. QED
    BY <2>2
<1>2. QED
  BY <1>1, RecurrenceIsInvariant, PTL

\* A task that nobody lost is recorded in the row of its month, or about to be.
THEOREM TaskInItsRow == Spec => []TaskIsRecorded
<1>1. RecurrenceInv => TaskIsRecorded
  BY DEF RecurrenceInv, Accounted, TaskIsRecorded, Carrying, Working
<1>2. QED
  BY <1>1, RecurrenceIsInvariant, PTL

\* A failed month waits for a person: no step of a scan takes its row away
\* (retryFailed of updateRecurrence does, and leaves the scans alone).
THEOREM FailuresWait == Spec => FailureWaits
<1>1. RecurrenceInv /\ [Next]_vars => \A k \in Periods : Failed(k) /\ ~run'[k].row => scan' = scan
  <2> SUFFICES ASSUME RecurrenceInv, [Next]_vars, NEW k \in Periods, Failed(k), ~run'[k].row,
                      scan' # scan
               PROVE  FALSE
    OBVIOUS
  <2>1. run[k].row /\ ~run[k].task /\ run[k].error /\ run \in [Periods -> Run]
    BY Types DEF Failed
  <2>2. PICK s \in Scanners : Clean(s) \/ ClaimNext(s) \/ Complete(s) \/ Record(s) \/ Fail(s)
    <3>1. \/ \E s \in Scanners : Step(s) \/ Crash(s)
          \/ UNCHANGED scan
      BY DEF Next, vars, UpdateRecurrence, DeleteTask, Age, SlowScan, NextMonth
    <3>2. UNCHANGED run => FALSE
      BY <2>1
    <3>3. QED
      BY <3>1, <3>2 DEF Step, ReadDue, EndScan, Generate, Crash
  <2>3. CASE Clean(s)
    <3>1. run' = [j \in Periods |-> IF StaleClaim(j) THEN NoRun ELSE run[j]]
      BY <2>3 DEF Clean, DeleteRuns
    <3>2. ~StaleClaim(k)
      BY <2>1 DEF StaleClaim
    <3>3. QED
      BY <2>1, <3>1, <3>2
  <2>4. CASE ClaimNext(s)
    <3>1. PICK j \in scan[s].todo : run' = IF Free(j) THEN [run EXCEPT ![j] = Claim] ELSE run
      BY <2>4 DEF ClaimNext
    <3>2. Free(j) => j # k
      BY <2>1 DEF Free
    <3>3. run'[k] = run[k]
      BY <2>1, <3>1, <3>2
    <3>4. QED
      BY <2>1, <3>3
  <2>5. CASE Complete(s) \/ Fail(s)
    <3> DEFINE j == scan[s].at
               r == [run[j] EXCEPT !.error = TRUE]
    <3>1. run' = run \/ run' = [run EXCEPT ![j] = r]
      BY <2>5, Zenon DEF Complete, Fail
    <3>2. j \in Periods /\ run[j] \in Run
      BY <2>1, <2>5, Types DEF RecurrenceInv, AtMonth, Complete, Fail
    <3> HIDE DEF Run, j
    <3>3. r.row = run[j].row
      BY <3>2, RunFields, Zenon
    <3> HIDE DEF r
    <3>4. QED
      BY <2>1, <3>1, <3>2, <3>3
  <2>6. CASE Record(s)
    <3> DEFINE j == scan[s].at
               r == [run[j] EXCEPT !.task = TRUE]
    <3>1. run' = run \/ run' = [run EXCEPT ![j] = r]
      BY <2>6, Zenon DEF Record
    <3>2. j \in Periods /\ run[j] \in Run
      BY <2>1, <2>6, Types DEF RecurrenceInv, AtMonth, Record
    <3> HIDE DEF Run, j
    <3>3. r.row = run[j].row
      BY <3>2, RunFields, Zenon
    <3> HIDE DEF r
    <3>4. QED
      BY <2>1, <3>1, <3>2, <3>3
  <2>7. QED
    BY <2>2, <2>3, <2>4, <2>5, <2>6
<1>2. QED
  BY <1>1, RecurrenceIsInvariant, PTL DEF Spec, FailureWaits
=============================================================================
