----------------------------- MODULE FileStorage -----------------------------
(***************************************************************************)
(* The stored copies of one content: an upload writes the bytes, then the  *)
(* row that owns them (storeUploadedFile); records of the business refer   *)
(* to the row, by a foreign key or by its id in a text; the deletion of a  *)
(* dossier asks, through the outbox, for the deletion of its files         *)
(* (purgeFileObject, three steps that may be run again or side by side);   *)
(* the scan worker goes through the pending rows.  The disk is not part of *)
(* any transaction.  The transactions of a purge lock the row; a reference *)
(* with a foreign key waits for that lock, a text does not.                *)
(***************************************************************************)
EXTENDS Integers, Sequences

CONSTANTS
  Files,       \* file_objects rows, each created by one upload
  Canon,       \* the storage key that is the hash of the content
  Purges,      \* runs of the purge handler that can be in progress together
  Unscannable, \* files on which the scanner always fails
  Batch,       \* files taken by one pass of the scan worker
  MaxRefs,     \* bound: references to one file with a foreign key
  Named,       \* bound: files whose id may stand in a text
  None

Keys == Files \cup {Canon}    \* an own key stands for the hash with a new suffix
Final == {"CLEAN", "REFUSED"}    \* REFUSED is INFECTED or FAILED: never served

ASSUME FileAssumption ==
  /\ Canon \notin Files /\ None \notin Keys
  /\ Unscannable \subseteq Files /\ Named \subseteq Files
  /\ Batch \in Nat \ {0} /\ MaxRefs \in Nat \ {0}

VARIABLES
  file,       \* upload: where its upload is; row, key, archived, scan: its row
  disk,       \* the keys that hold bytes
  refs,       \* references to each file with a foreign key
  mentioned,  \* the files whose id stands in a text or URL
  asked,      \* files whose deletion was asked
  purge,      \* the runs of the handler: step, file and the key they staged
  order,      \* the rows in the order of their createdAt
  pass,       \* what is left of the pass of the scan worker
  verdict,    \* the scanner's answer for the head of the pass, not yet recorded
  purged,     \* history: 1 when its bytes were deleted, 2 when a purge was run again
  missed      \* history: mentioned when a purge had counted, or had deleted the row

scans == <<order, pass, verdict>>
texts == <<mentioned, missed>>
vars == <<file, disk, refs, asked, purge, scans, purged, texts>>

Init ==
  /\ file = [f \in Files |-> [upload |-> "none", row |-> FALSE, key |-> Canon,
                              archived |-> FALSE, scan |-> "PENDING"]]
  /\ disk = {}
  /\ refs = [f \in Files |-> 0]
  /\ asked = {}
  /\ purge = [p \in Purges |-> [step |-> "idle", file |-> None]]
  /\ order = <<>> /\ pass = <<>> /\ verdict = None
  /\ purged = [f \in Files |-> 0]
  /\ mentioned = {} /\ missed = {}

-----------------------------------------------------------------------------
(* storeUploadedFile                                                       *)

\* Mutant: without the flag wx an upload writes over the bytes of another.
Overwrite(f) == Canon

\* The flag wx: the canonical key if it is free, or a new one.
FreeKey(f) == IF Canon \in disk THEN f ELSE Canon

WriteBytes(f) ==
  /\ file[f].upload = "none"
  /\ file' = [file EXCEPT ![f].upload = "written", ![f].key = FreeKey(f)]
  /\ disk' = disk \cup {FreeKey(f)}
  /\ UNCHANGED <<refs, asked, purge, scans, purged, texts>>

KeyIsTaken(f) == \E g \in Files \ {f} : file[g].row /\ file[g].key = file[f].key

\* The row; its unique storageKey refuses it while another row has the key, and
\* any other failure of the insert is the same.
CreateRow(f) ==
  /\ file[f].upload = "written"
  /\ \/ /\ ~KeyIsTaken(f)
        /\ file' = [file EXCEPT ![f].upload = "created", ![f].row = TRUE]
        /\ order' = Append(order, f)
     \/ /\ file' = [file EXCEPT ![f].upload = "failed"]
        /\ UNCHANGED order
  /\ UNCHANGED <<disk, refs, asked, purge, pass, verdict, purged, texts>>

\* Mutant: the bytes of a failed upload stay.
KeepBytes(f) ==
  /\ file[f].upload = "failed"
  /\ file' = [file EXCEPT ![f].upload = "ended"]
  /\ UNCHANGED <<disk, refs, asked, purge, scans, purged, texts>>

RemoveBytes(f) ==
  /\ file[f].upload = "failed"
  /\ disk' = disk \ {file[f].key}
  /\ file' = [file EXCEPT ![f].upload = "ended"]
  /\ UNCHANGED <<refs, asked, purge, scans, purged, texts>>

\* Mutant: the update does not ask that the status is still PENDING.
RecordAnyway(f, status) ==
  IF file[f].row THEN [file EXCEPT ![f].scan = status] ELSE file

\* recordFileScanResult: an update conditional on PENDING.
Record(f, status) ==
  IF file[f].row /\ file[f].scan = "PENDING" THEN [file EXCEPT ![f].scan = status] ELSE file

\* The upload scans the bytes it holds; or the scanner cannot be reached, or the
\* server dies, and the file waits for the worker.
ScanInline(f) ==
  /\ file[f].upload = "created"
  /\ \/ /\ f \notin Unscannable
        /\ \E status \in Final : file' = [Record(f, status) EXCEPT ![f].upload = "ended"]
     \/ file' = [file EXCEPT ![f].upload = "ended"]
  /\ UNCHANGED <<disk, refs, asked, purge, scans, purged, texts>>

\* The server dies before the row or before the removal, the bytes were written
\* only in part, or their removal fails, which nobody is told: they stay.
CrashUpload(f) ==
  /\ file[f].upload \in {"written", "failed"}
  /\ file' = [file EXCEPT ![f].upload = "crashed"]
  /\ UNCHANGED <<disk, refs, asked, purge, scans, purged, texts>>

-----------------------------------------------------------------------------
(* The records that refer to a file.                                       *)

\* A transaction of a purge has counted and not yet ended: it locks the row.
Locked(f) == \E p \in Purges : purge[p] = [step |-> "counted", file |-> f]

\* A deliverable or an attachment names the file by its id.  What was read of
\* the file before, if anything was, may be old; the foreign key wants the row
\* and waits for its lock.
Attach(f) ==
  /\ file[f].row /\ ~Locked(f) /\ refs[f] < MaxRefs
  /\ refs' = [refs EXCEPT ![f] = @ + 1]
  /\ UNCHANGED <<file, disk, asked, purge, scans, purged, texts>>

\* A description, a comment, a note or the URL of an attachment contains the id:
\* it commits whatever becomes of the row.
Mention(f) ==
  /\ f \in Named /\ (file[f].row \/ purged[f] # 0)
  /\ mentioned' = mentioned \cup {f}
  /\ missed' = IF f \notin mentioned /\ (Locked(f) \/ ~file[f].row) THEN missed \cup {f} ELSE missed
  /\ UNCHANGED <<file, disk, refs, asked, purge, scans, purged>>

\* The last text that contains the id goes or is changed.
Unmention(f) ==
  /\ f \in mentioned
  /\ mentioned' = mentioned \ {f} /\ missed' = missed \ {f}
  /\ UNCHANGED <<file, disk, refs, asked, purge, scans, purged>>

\* purgeDossier, or the deletion of a conversation: the reference and, in the
\* same transaction, the event that asks for the deletion of the file.
DetachAndAsk(f) ==
  /\ refs[f] > 0
  /\ refs' = [refs EXCEPT ![f] = @ - 1]
  /\ asked' = asked \cup {f}
  /\ UNCHANGED <<file, disk, purge, scans, purged, texts>>

-----------------------------------------------------------------------------
(* purgeFileObject: the outbox delivers its event at least once.           *)

Idle == [step |-> "idle", file |-> None]

\* Mutant: the texts are forgotten.
KeysCounted(f) == refs[f] = 0

\* countFileObjectReferences, under the lock of the row.
Unreferenced(f) == refs[f] = 0 /\ f \notin mentioned

\* Step 1, on a file without references: it is archived and disappears.  A text
\* that commits between the count and the update is as good as one after it.
Stage(p, f) ==
  /\ purge[p] = Idle /\ f \in asked /\ file[f].row /\ ~Locked(f)
  /\ Unreferenced(f)
  /\ file' = [file EXCEPT ![f].archived = TRUE]
  /\ purge' = [purge EXCEPT ![p] = [step |-> "staged", file |-> f]]
  /\ UNCHANGED <<disk, refs, asked, scans, purged, texts>>

\* Step 1, on a file with references: if an earlier run archived it, it comes back.
Skip(p, f) ==
  /\ purge[p] = Idle /\ f \in asked /\ file[f].row /\ ~Locked(f)
  /\ ~Unreferenced(f) /\ file[f].archived
  /\ file' = [file EXCEPT ![f].archived = FALSE]
  /\ purged' = [purged EXCEPT ![f] = 2]
  /\ UNCHANGED <<disk, refs, asked, purge, scans, texts>>

\* Step 2, outside any transaction.
Delete(p) ==
  LET f == purge[p].file
  IN  /\ purge[p].step = "staged"
      /\ disk' = disk \ {file[f].key}
      /\ purge' = [purge EXCEPT ![p].step = "deleted"]
      /\ purged' = [purged EXCEPT ![f] = IF @ = 0 THEN 1 ELSE 2]
      /\ UNCHANGED <<file, refs, asked, scans, texts>>

\* Step 3: nothing is left to do if the row is gone or something refers to it by
\* now.
CountAgain(p) ==
  LET f == purge[p].file
  IN  /\ purge[p].step = "deleted" /\ ~Locked(f)
      /\ purge' = [purge EXCEPT ![p] = IF file[f].row /\ Unreferenced(f)
                                       THEN [step |-> "counted", file |-> f] ELSE Idle]
      /\ UNCHANGED <<file, disk, refs, asked, scans, purged, texts>>

\* Otherwise the row goes, in the same transaction.
DeleteRow(p) ==
  /\ purge[p].step = "counted"
  /\ file' = [file EXCEPT ![purge[p].file].row = FALSE]
  /\ purge' = [purge EXCEPT ![p] = Idle]
  /\ UNCHANGED <<disk, refs, asked, scans, purged, texts>>

\* The handler dies, its removal of the file throws or a transaction is rolled
\* back: it is run again.
CrashPurge(p) ==
  /\ purge[p] # Idle
  /\ purge' = [purge EXCEPT ![p] = Idle]
  /\ UNCHANGED <<file, disk, refs, asked, scans, purged, texts>>

-----------------------------------------------------------------------------
(* scanCycle and scanPendingFileObject                                     *)

Waiting(f) == file[f].row /\ file[f].scan = "PENDING" /\ ~file[f].archived

\* Mutant: a pass takes one file.
OldestOne(s) == IF s = <<>> THEN <<>> ELSE <<Head(s)>>

\* take: BATCH_SIZE
Oldest(s) == SubSeq(s, 1, IF Len(s) < Batch THEN Len(s) ELSE Batch)

\* A pass: the oldest files that wait.
StartPass ==
  /\ pass = <<>> /\ \E f \in Files : Waiting(f)
  /\ pass' = Oldest(SelectSeq(order, Waiting))
  /\ UNCHANGED <<file, disk, refs, asked, purge, order, verdict, purged, texts>>

\* The bytes of the next file are read: they are missing, or the scanner answers.
ReadNext(f) ==
  /\ pass # <<>> /\ verdict = None /\ f = Head(pass)
  /\ file[f].row /\ file[f].scan = "PENDING"
  /\ \/ file[f].key \notin disk /\ verdict' = "REFUSED"
     \/ /\ file[f].key \in disk /\ f \notin Unscannable
        /\ verdict' \in Final
  /\ UNCHANGED <<file, disk, refs, asked, purge, order, pass, purged, texts>>

RecordVerdict(f) ==
  /\ pass # <<>> /\ f = Head(pass) /\ verdict # None
  /\ file' = Record(f, verdict)
  /\ pass' = Tail(pass) /\ verdict' = None
  /\ UNCHANGED <<disk, refs, asked, purge, order, purged, texts>>

\* The scanner fails, the file was purged or somebody else has scanned it, the
\* answer cannot be recorded: the pass goes on with the next.  A worker that dies
\* passes by the rest.
PassBy ==
  /\ pass # <<>>
  /\ pass' = Tail(pass) /\ verdict' = None
  /\ UNCHANGED <<file, disk, refs, asked, purge, order, purged, texts>>

-----------------------------------------------------------------------------
Upload(f) == WriteBytes(f) \/ CreateRow(f) \/ RemoveBytes(f) \/ ScanInline(f) \/ CrashUpload(f)
Refer(f) == Attach(f) \/ Mention(f) \/ Unmention(f) \/ DetachAndAsk(f)
Purge(p) == \/ \E f \in Files : Stage(p, f) \/ Skip(p, f)
            \/ Delete(p) \/ CountAgain(p) \/ DeleteRow(p) \/ CrashPurge(p)
Scan == StartPass \/ PassBy \/ \E f \in Files : ReadNext(f) \/ RecordVerdict(f)

Next == \/ \E f \in Files : Upload(f) \/ Refer(f)
        \/ \E p \in Purges : Purge(p)
        \/ Scan

Spec == Init /\ [][Next]_vars

\* The timer starts a pass again and again, a pass goes on, and a file that can
\* be scanned is scanned when it is tried again and again.
Fairness ==
  /\ WF_vars(StartPass) /\ WF_vars(PassBy)
  /\ \A f \in Files : SF_vars(ReadNext(f)) /\ SF_vars(RecordVerdict(f))

FairSpec == Spec /\ Fairness

-----------------------------------------------------------------------------
(* Properties.                                                             *)

Row == [upload : {"none", "written", "created", "failed", "ended", "crashed"},
        row : BOOLEAN, key : Keys, archived : BOOLEAN, scan : Final \cup {"PENDING"}]

\* The rows, the bytes and the runs keep their types.
TypeOK ==
  /\ file \in [Files -> Row]
  /\ disk \subseteq Keys
  /\ refs \in [Files -> 0..MaxRefs]
  /\ asked \subseteq Files
  /\ purge \in [Purges -> {Idle} \cup [step : {"staged", "deleted", "counted"}, file : Files]]
  /\ verdict \in Final \cup {None}
  /\ purged \in [Files -> 0..2]
  /\ mentioned \subseteq Files /\ missed \subseteq mentioned

\* A purge under the key of the file that was run again: it brought a file back,
\* or it deleted the bytes a second time, under what had been stored there since.
RanAgain(f) == \E g \in Files : file[g].key = file[f].key /\ purged[g] = 2

\* A file that readers can see has its bytes, whatever uploads of the same content
\* fail, processes die and references come while its purge or another one runs;
\* only a purge that was run again can break it.
VisibleHasBytes ==
  \A f \in Files : file[f].row /\ ~file[f].archived /\ ~RanAgain(f) => file[f].key \in disk

\* No bytes are left behind: they belong to a row, or to an upload that is under
\* way, died or could not remove them.
BytesHaveOwner ==
  \A k \in disk : \E f \in Files :
     file[f].key = k /\ (file[f].row \/ file[f].upload \in {"written", "failed", "crashed"})

\* What a record refers to keeps its row, whether the reference came before the
\* purge, while it deleted the bytes or between two runs: one with a foreign key
\* always, a text unless it came when the last count was over.
ReferencedStays ==
  \A f \in Files : refs[f] > 0 \/ f \in mentioned \ missed => file[f].row

\* What the code does not keep (FileMentioned.cfg): "greater than 0 must not be
\* deleted", which countFileObjectReferences says of texts as well.
MentionedStays == \A f \in mentioned : file[f].row

\* The first final result of a scan stands: the upload's own scan and the worker
\* never overwrite each other, and CLEAN is never given after a refusal.
FirstResultStands ==
  [][\A f \in Files : file[f].scan \in Final => file'[f].scan = file[f].scan]_vars

\* Every file that can be scanned is, although each pass takes the oldest only,
\* as long as fewer files than a pass takes cannot be.
EveryFileIsScanned ==
  \A f \in Files \ Unscannable : Waiting(f) ~> ~Waiting(f)
=============================================================================
