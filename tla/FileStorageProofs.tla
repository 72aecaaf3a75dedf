-------------------------- MODULE FileStorageProofs --------------------------
(***************************************************************************)
(* Proofs about FileStorage, for any number of files of one content, of    *)
(* purges side by side and of references.  The heart of the invariant is   *)
(* who holds a storage key: an upload between its bytes and its row, or a  *)
(* row whose bytes no purge has deleted.  As long as no purge under a key  *)
(* was run again, one file at most holds it, and its bytes are on the disk.*)
(***************************************************************************)
EXTENDS FileStorage, TLAPS

Uploading(f) == file[f].upload \in {"written", "failed"}
Stored(f) == file[f].row /\ purged[f] = 0
Holds(f) == Uploading(f) \/ Stored(f)
Owns(f) == file[f].row \/ file[f].upload \in {"written", "failed", "crashed"}

\* A file without an upload has left no trace.
Fresh == \A f \in Files : file[f].upload \in {"none", "written", "failed", "crashed"} =>
             /\ ~file[f].row /\ refs[f] = 0 /\ purged[f] = 0 /\ f \notin asked \cup mentioned
             /\ \A p \in Purges : purge[p].file # f

\* A key other than the shared one is of one file.
KeyOf == \A f \in Files : file[f].key \in {Canon, f}

\* A row that is not archived was not purged, or is excepted.
Archived == \A f \in Files : file[f].row /\ ~file[f].archived => purged[f] \in {0, 2}

\* The run that will be the first to delete the bytes has hidden the row.
RunsHaveRow ==
  \A p \in Purges : purge[p] # Idle =>
     /\ purge[p].step = "staged" /\ purged[purge[p].file] = 0 =>
          file[purge[p].file].row /\ file[purge[p].file].archived
     /\ purge[p].step \in {"deleted", "counted"} => purged[purge[p].file] # 0

OneHolder ==
  \A f, g \in Files :
     f # g /\ file[f].key = file[g].key /\ ~RanAgain(f) => ~(Holds(f) /\ Holds(g))

HolderHasBytes == \A f \in Files : Holds(f) /\ ~RanAgain(f) => file[f].key \in disk

\* Two rows never share a key, so a purge of one never deletes the other's row's
\* bytes: the unique storageKey.
OneRow == \A f, g \in Files : f # g /\ file[f].row /\ file[g].row => file[f].key # file[g].key

\* Bytes that are there after the second step of a purge are of somebody else.
ReleasedBytes ==
  \A p \in Purges : purge[p].step \in {"deleted", "counted"} /\ file[purge[p].file].key \in disk =>
     \E g \in Files \ {purge[p].file} :
        file[g].key = file[purge[p].file].key /\ Owns(g)

\* While a transaction of a purge has counted, no other has, and what came since
\* is a text that it missed: new references wait for the lock of the row.
CountedHolds ==
  \A p \in Purges : purge[p].step = "counted" =>
     /\ file[purge[p].file].row /\ refs[purge[p].file] = 0
     /\ purge[p].file \notin mentioned \ missed
     /\ \A q \in Purges \ {p} : purge[q] # purge[p]

FileInv ==
  /\ TypeOK
  /\ Fresh /\ KeyOf /\ Archived /\ RunsHaveRow
  /\ OneHolder /\ HolderHasBytes
  /\ OneRow /\ ReleasedBytes
  /\ BytesHaveOwner /\ ReferencedStays /\ CountedHolds

USE FileAssumption DEF Final, Keys, Row, Idle

-----------------------------------------------------------------------------
LEMMA InitHolds ==
  ASSUME Init
  PROVE  FileInv
<1>1. TypeOK
  BY DEF Init, TypeOK
<1>2. Fresh /\ KeyOf /\ Archived
  BY DEF Init, Fresh, KeyOf, Archived
<1>3. RunsHaveRow /\ OneHolder /\ HolderHasBytes
  BY DEF Init, RunsHaveRow, OneHolder, HolderHasBytes, Holds, Uploading, Stored
<1>4. OneRow /\ ReleasedBytes /\ BytesHaveOwner /\ ReferencedStays /\ CountedHolds
  BY DEF Init, OneRow, ReleasedBytes, BytesHaveOwner, ReferencedStays, CountedHolds
<1>5. QED
  BY <1>1, <1>2, <1>3, <1>4 DEF FileInv

\* What changes nothing but the result of a scan and the end of an upload whose
\* row exists changes nothing of the invariant.
LEMMA QuietStep ==
  ASSUME FileInv,
         UNCHANGED <<disk, refs, asked, purge, purged, mentioned, missed>>,
         file' \in [Files -> Row], verdict' \in Final \cup {None},
         \A f \in Files : /\ file'[f].row = file[f].row
                          /\ file'[f].key = file[f].key
                          /\ file'[f].archived = file[f].archived
                          /\ \/ file'[f].upload = file[f].upload
                             \/ file[f].upload = "created" /\ file'[f].upload = "ended"
  PROVE  FileInv'
<1>1. TypeOK'
  BY DEF FileInv, TypeOK
<1>2. Fresh' /\ KeyOf' /\ Archived' /\ RunsHaveRow'
  BY DEF FileInv, TypeOK, Fresh, KeyOf, Archived, RunsHaveRow
<1>3. \A f \in Files : (Holds(f)' <=> Holds(f)) /\ (Owns(f)' <=> Owns(f))
  BY DEF Holds, Uploading, Stored, Owns
<1>4. \A f \in Files : RanAgain(f)' <=> RanAgain(f)
  BY DEF RanAgain
<1>5. OneHolder' /\ HolderHasBytes'
  BY <1>3, <1>4 DEF FileInv, OneHolder, HolderHasBytes
<1>6. OneRow' /\ ReferencedStays' /\ CountedHolds'
  BY DEF FileInv, OneRow, ReferencedStays, CountedHolds, TypeOK
<1>7. ReleasedBytes'
  BY <1>3 DEF FileInv, TypeOK, ReleasedBytes
<1>8. BytesHaveOwner'
  BY <1>3 DEF FileInv, BytesHaveOwner, Owns
<1>9. QED
  BY <1>1, <1>2, <1>5, <1>6, <1>7, <1>8 DEF FileInv

LEMMA RowUpdate ==
  ASSUME NEW r \in Row
  PROVE  /\ [r EXCEPT !.upload = "created", !.row = TRUE] \in Row
         /\ [r EXCEPT !.upload = "failed"] \in Row
         /\ \A k \in Keys : [r EXCEPT !.upload = "written", !.key = k] \in Row
         /\ \A b \in BOOLEAN : [r EXCEPT !.archived = b] \in Row /\ [r EXCEPT !.row = b] \in Row
<1>1. r.row \in BOOLEAN /\ r.archived \in BOOLEAN /\ r.key \in Keys /\ r.scan \in Final \cup {"PENDING"}
  OBVIOUS
<1>2. [r EXCEPT !.upload = "created", !.row = TRUE] \in Row
  BY <1>1
<1>3. [r EXCEPT !.upload = "failed"] \in Row
  BY <1>1
<1>4. \A b \in BOOLEAN : [r EXCEPT !.archived = b] \in Row
  BY <1>1
<1>5. \A b \in BOOLEAN : [r EXCEPT !.row = b] \in Row
  BY <1>1
<1>6. \A k \in Keys : [r EXCEPT !.upload = "written", !.key = k] \in Row
  BY <1>1
<1>7. QED
  BY <1>2, <1>3, <1>4, <1>5, <1>6

LEMMA WriteStep ==
  ASSUME FileInv, NEW f \in Files, WriteBytes(f)
  PROVE  FileInv'
<1> DEFINE k == FreeKey(f)
<1>0. /\ k \in {Canon, f} /\ (k = Canon => Canon \notin disk)
      /\ file[f].upload = "none"
      /\ disk' = disk \cup {k}
      /\ UNCHANGED <<refs, asked, purge, verdict, purged, mentioned, missed>>
      /\ file' \in [Files -> Row]
      /\ file'[f].upload = "written" /\ file'[f].key = k /\ file'[f].row = file[f].row
      /\ \A g \in Files \ {f} : file'[g] = file[g]
  <2>1. k \in {Canon, f} /\ (k = Canon => Canon \notin disk)
    BY DEF FreeKey
  <2>2. /\ file[f].upload = "none" /\ disk' = disk \cup {k}
        /\ UNCHANGED <<refs, asked, purge, verdict, purged, mentioned, missed>>
        /\ file' = [file EXCEPT ![f] = [file[f] EXCEPT !.upload = "written", !.key = k]]
    BY DEF WriteBytes, scans, texts
  <2>3. file \in [Files -> Row]
    BY DEF FileInv, TypeOK
  <2> HIDE DEF k
  <2>4. [file[f] EXCEPT !.upload = "written", !.key = k] \in Row
    <3>1. file[f] \in Row
      BY <2>3
    <3>2. k \in Keys
      BY <2>1 DEF Keys
    <3> HIDE DEF Row, Keys
    <3>3. QED
      BY <3>1, <3>2, RowUpdate, Zenon
  <2>5. file' \in [Files -> Row] /\ file'[f] = [file[f] EXCEPT !.upload = "written", !.key = k]
    BY <2>2, <2>3, <2>4
  <2>6. \A g \in Files \ {f} : file'[g] = file[g]
    BY <2>2, <2>3
  <2>7. QED
    BY <2>1, <2>2, <2>3, <2>5, <2>6
<1> HIDE DEF k
<1>1. TypeOK' /\ Fresh' /\ KeyOf'
  BY <1>0 DEF FileInv, TypeOK, Fresh, KeyOf
<1>2. ~file[f].row /\ purged[f] = 0 /\ \A p \in Purges : purge[p].file # f
  BY <1>0 DEF FileInv, Fresh
<1>3. Archived' /\ RunsHaveRow'
  BY <1>0, <1>2 DEF FileInv, TypeOK, Archived, RunsHaveRow
<1>4. \A g \in Files \ {f} : RanAgain(g) => RanAgain(g)'
  BY <1>0, <1>2 DEF RanAgain
<1>5. \A g \in Files \ {f} : (Holds(g)' <=> Holds(g)) /\ (Owns(g)' <=> Owns(g))
  BY <1>0 DEF Holds, Uploading, Stored, Owns
<1>6. \A g \in Files \ {f} : file[g].key = k /\ ~RanAgain(f)' => ~Holds(g)
  <2> SUFFICES ASSUME NEW g \in Files \ {f}, file[g].key = k, ~RanAgain(f)', Holds(g)
               PROVE  FALSE
    OBVIOUS
  <2>1. k = Canon /\ Canon \notin disk
    BY <1>0 DEF FileInv, KeyOf
  <2>2. RanAgain(g)
    BY <2>1 DEF FileInv, HolderHasBytes
  <2>3. RanAgain(f)'
    BY <2>2, <1>0, <1>2 DEF RanAgain
  <2>4. QED
    BY <2>3
<1>7. OneHolder'
  <2> SUFFICES ASSUME NEW g \in Files, NEW h \in Files, g # h,
                      (file[g].key)' = (file[h].key)', ~RanAgain(g)'
               PROVE  ~(Holds(g)' /\ Holds(h)')
    BY DEF OneHolder
  <2>1. ~RanAgain(h)'
    BY DEF RanAgain
  <2>2. CASE g = f
    BY <2>2, <1>0, <1>5, <1>6
  <2>3. CASE h = f
    BY <2>1, <2>3, <1>0, <1>5, <1>6
  <2>4. CASE g # f /\ h # f
    BY <2>4, <1>0, <1>4, <1>5 DEF FileInv, OneHolder
  <2>5. QED
    BY <2>2, <2>3, <2>4
<1>8. HolderHasBytes'
  BY <1>0, <1>4, <1>5 DEF FileInv, HolderHasBytes
<1>9. OneRow' /\ ReferencedStays' /\ CountedHolds'
  BY <1>0, <1>2 DEF FileInv, OneRow, ReferencedStays, CountedHolds, TypeOK
<1>10. ReleasedBytes'
  <2> SUFFICES ASSUME NEW p \in Purges, purge[p].step \in {"deleted", "counted"},
                      file[purge[p].file].key \in disk \cup {k}
               PROVE  \E g \in Files \ {purge[p].file} :
                         file'[g].key = file[purge[p].file].key /\ Owns(g)'
    BY <1>0, <1>2 DEF FileInv, TypeOK, ReleasedBytes
  <2>1. CASE file[purge[p].file].key = k
    BY <2>1, <1>0, <1>2 DEF Owns
  <2>2. CASE file[purge[p].file].key \in disk
    <3>1. PICK g \in Files \ {purge[p].file} : file[g].key = file[purge[p].file].key /\ Owns(g)
      BY <2>2 DEF FileInv, ReleasedBytes
    <3>2. g # f
      BY <3>1, <1>0, <1>2 DEF Owns
    <3>3. QED
      BY <3>1, <3>2, <1>0, <1>5
  <2>3. QED
    BY <2>1, <2>2
<1>11. BytesHaveOwner'
  BY <1>0, <1>2 DEF FileInv, BytesHaveOwner
<1>12. QED
  BY <1>1, <1>3, <1>7, <1>8, <1>9, <1>10, <1>11 DEF FileInv

LEMMA FileUpdate ==
  ASSUME file \in [Files -> Row], NEW f \in Files, NEW r \in Row, file' = [file EXCEPT ![f] = r]
  PROVE  file' \in [Files -> Row] /\ file'[f] = r /\ \A g \in Files \ {f} : file'[g] = file[g]
OBVIOUS

\* The fields of an updated row.
LEMMA RowFields ==
  ASSUME NEW r \in Row
  PROVE  /\ [r EXCEPT !.upload = "created", !.row = TRUE].row
         /\ [r EXCEPT !.upload = "created", !.row = TRUE].upload = "created"
         /\ [r EXCEPT !.upload = "created", !.row = TRUE].key = r.key
         /\ \A b \in BOOLEAN : /\ [r EXCEPT !.archived = b].archived = b
                               /\ [r EXCEPT !.archived = b].upload = r.upload
                               /\ [r EXCEPT !.archived = b].key = r.key
                               /\ [r EXCEPT !.archived = b].row = r.row
         /\ \A b \in BOOLEAN : /\ [r EXCEPT !.row = b].row = b
                               /\ [r EXCEPT !.row = b].upload = r.upload
                               /\ [r EXCEPT !.row = b].key = r.key
                               /\ [r EXCEPT !.row = b].archived = r.archived
<1>1. [r EXCEPT !.upload = "created", !.row = TRUE].row
  OBVIOUS
<1>2. /\ [r EXCEPT !.upload = "created", !.row = TRUE].upload = "created"
      /\ [r EXCEPT !.upload = "created", !.row = TRUE].key = r.key
  OBVIOUS
<1>3. \A b \in BOOLEAN : /\ [r EXCEPT !.archived = b].upload = r.upload
                         /\ [r EXCEPT !.archived = b].key = r.key
  OBVIOUS
<1>4. \A b \in BOOLEAN : [r EXCEPT !.archived = b].archived = b
  OBVIOUS
<1>5. \A b \in BOOLEAN : [r EXCEPT !.archived = b].row = r.row
  OBVIOUS
<1>6. \A b \in BOOLEAN : /\ [r EXCEPT !.row = b].upload = r.upload
                         /\ [r EXCEPT !.row = b].key = r.key
  OBVIOUS
<1>7. \A b \in BOOLEAN : [r EXCEPT !.row = b].row = b
  OBVIOUS
<1>8. \A b \in BOOLEAN : [r EXCEPT !.row = b].archived = r.archived
  OBVIOUS
<1>9. QED
  BY <1>1, <1>2, <1>3, <1>4, <1>5, <1>6, <1>7, <1>8

LEMMA CreateStep ==
  ASSUME FileInv, NEW f \in Files, CreateRow(f)
  PROVE  FileInv'
<1>0. /\ file[f].upload = "written"
      /\ UNCHANGED <<disk, refs, asked, purge, verdict, purged, mentioned, missed>>
      /\ file' \in [Files -> Row]
      /\ file'[f].key = file[f].key
      /\ \/ ~KeyIsTaken(f) /\ file'[f].row /\ file'[f].upload = "created"
         \/ file'[f].row = file[f].row /\ file'[f].upload = "failed"
      /\ \A g \in Files \ {f} : file'[g] = file[g]
  <2>1. /\ file[f].upload = "written"
        /\ UNCHANGED <<disk, refs, asked, purge, verdict, purged, mentioned, missed>>
        /\ \/ /\ ~KeyIsTaken(f)
              /\ file' = [file EXCEPT ![f] = [file[f] EXCEPT !.upload = "created", !.row = TRUE]]
           \/ file' = [file EXCEPT ![f] = [file[f] EXCEPT !.upload = "failed"]]
    BY DEF CreateRow, texts
  <2>2. file \in [Files -> Row]
    BY DEF FileInv, TypeOK
  <2>3. CASE /\ ~KeyIsTaken(f)
             /\ file' = [file EXCEPT ![f] = [file[f] EXCEPT !.upload = "created", !.row = TRUE]]
    <3>5. file[f] \in Row
      BY <2>2
    <3> HIDE DEF Row
    <3>1. [file[f] EXCEPT !.upload = "created", !.row = TRUE] \in Row
      BY <3>5, RowUpdate
    <3>2. /\ file' \in [Files -> Row] /\ \A g \in Files \ {f} : file'[g] = file[g]
          /\ file'[f] = [file[f] EXCEPT !.upload = "created", !.row = TRUE]
      BY <2>2, <2>3, <3>1, FileUpdate
    <3>3. file'[f].row /\ file'[f].upload = "created" /\ file'[f].key = file[f].key
      BY <3>2, <3>5, RowFields
    <3>4. QED
      BY <2>1, <2>3, <3>2, <3>3
  <2>4. CASE file' = [file EXCEPT ![f] = [file[f] EXCEPT !.upload = "failed"]]
    BY <2>1, <2>2, <2>4
  <2>5. QED
    BY <2>1, <2>3, <2>4
<1>1. TypeOK'
  BY <1>0 DEF FileInv, TypeOK
<1>2. ~file[f].row /\ refs[f] = 0 /\ purged[f] = 0 /\ \A p \in Purges : purge[p].file # f
  BY <1>0 DEF FileInv, Fresh
<1>3. Fresh' /\ KeyOf' /\ Archived' /\ RunsHaveRow'
  BY <1>0, <1>2 DEF FileInv, TypeOK, Fresh, KeyOf, Archived, RunsHaveRow
<1>4. \A g \in Files : RanAgain(g)' <=> RanAgain(g)
  BY <1>0 DEF RanAgain
<1>5. Holds(f)' /\ Holds(f) /\ Owns(f)' /\ Owns(f)
  BY <1>0, <1>2 DEF Holds, Uploading, Stored, Owns
<1>6. \A g \in Files : (Holds(g)' <=> Holds(g)) /\ (Owns(g)' <=> Owns(g))
  BY <1>0, <1>5 DEF Holds, Uploading, Stored, Owns
<1>7. \A g \in Files : file'[g].key = file[g].key
  BY <1>0
<1>8. OneHolder' /\ HolderHasBytes'
  BY <1>0, <1>4, <1>6, <1>7 DEF FileInv, OneHolder, HolderHasBytes
<1>9. OneRow'
  BY <1>0, <1>2 DEF FileInv, OneRow, KeyIsTaken
<1>10. ReleasedBytes'
  <2>1. \A p \in Purges : purge[p].step \in {"deleted", "counted"} => purge[p].file \in Files
    BY DEF FileInv, TypeOK
  <2>2. QED
    BY <1>0, <1>6, <1>7, <2>1 DEF FileInv, ReleasedBytes
<1>13. ReferencedStays' /\ CountedHolds'
  BY <1>0, <1>2 DEF FileInv, ReferencedStays, CountedHolds, TypeOK
<1>11. BytesHaveOwner'
  BY <1>0, <1>6, <1>7 DEF FileInv, BytesHaveOwner, Owns
<1>14. QED
  BY <1>1, <1>3, <1>8, <1>9, <1>10, <1>11, <1>13 DEF FileInv

LEMMA RemoveStep ==
  ASSUME FileInv, NEW f \in Files, RemoveBytes(f)
  PROVE  FileInv'
<1>0. /\ file[f].upload = "failed"
      /\ UNCHANGED <<refs, asked, purge, verdict, purged, mentioned, missed>>
      /\ disk' = disk \ {file[f].key}
      /\ file' \in [Files -> Row]
      /\ file'[f].upload = "ended" /\ file'[f].row = file[f].row /\ file'[f].key = file[f].key
      /\ \A g \in Files \ {f} : file'[g] = file[g]
  BY DEF FileInv, TypeOK, RemoveBytes, scans, texts
<1>1. TypeOK'
  BY <1>0 DEF FileInv, TypeOK
<1>2. ~file[f].row /\ refs[f] = 0 /\ purged[f] = 0 /\ \A p \in Purges : purge[p].file # f
  BY <1>0 DEF FileInv, Fresh
<1>3. Fresh' /\ KeyOf' /\ Archived' /\ RunsHaveRow'
  BY <1>0, <1>2 DEF FileInv, TypeOK, Fresh, KeyOf, Archived, RunsHaveRow
<1>4. \A g \in Files : (RanAgain(g)' <=> RanAgain(g)) /\ file'[g].key = file[g].key
  BY <1>0 DEF RanAgain
<1>5. Holds(f) /\ ~Holds(f)' /\ ~Owns(f)'
  BY <1>0, <1>2 DEF Holds, Uploading, Stored, Owns
<1>6. \A g \in Files \ {f} : (Holds(g)' <=> Holds(g)) /\ (Owns(g)' <=> Owns(g))
  BY <1>0 DEF Holds, Uploading, Stored, Owns
<1>7. OneHolder'
  BY <1>4, <1>5, <1>6 DEF FileInv, OneHolder
<1>8. HolderHasBytes'
  BY <1>0, <1>4, <1>5, <1>6 DEF FileInv, OneHolder, HolderHasBytes
<1>9. OneRow' /\ ReferencedStays' /\ CountedHolds'
  BY <1>0, <1>2 DEF FileInv, OneRow, ReferencedStays, CountedHolds, TypeOK
<1>10. ReleasedBytes'
  BY <1>0, <1>2, <1>4, <1>6 DEF FileInv, TypeOK, ReleasedBytes
<1>11. BytesHaveOwner'
  BY <1>0, <1>4, <1>6 DEF FileInv, BytesHaveOwner, Owns
<1>12. QED
  BY <1>1, <1>3, <1>7, <1>8, <1>9, <1>10, <1>11 DEF FileInv

LEMMA CrashStep ==
  ASSUME FileInv, NEW f \in Files, CrashUpload(f)
  PROVE  FileInv'
<1>0. /\ file[f].upload \in {"written", "failed"}
      /\ UNCHANGED <<disk, refs, asked, purge, verdict, purged, mentioned, missed>>
      /\ file' \in [Files -> Row]
      /\ file'[f].upload = "crashed" /\ file'[f].row = file[f].row /\ file'[f].key = file[f].key
      /\ \A g \in Files \ {f} : file'[g] = file[g]
  BY DEF FileInv, TypeOK, CrashUpload, scans, texts
<1>1. TypeOK'
  BY <1>0 DEF FileInv, TypeOK
<1>2. ~file[f].row /\ refs[f] = 0 /\ purged[f] = 0 /\ \A p \in Purges : purge[p].file # f
  BY <1>0 DEF FileInv, Fresh
<1>3. Fresh' /\ KeyOf' /\ Archived' /\ RunsHaveRow'
  <2>1. Fresh'
    BY <1>0, <1>2 DEF FileInv, Fresh
  <2>2. KeyOf' /\ Archived'
    BY <1>0, <1>2 DEF FileInv, KeyOf, Archived
  <2>3. RunsHaveRow'
    BY <1>0, <1>2 DEF FileInv, TypeOK, RunsHaveRow
  <2>4. QED
    BY <2>1, <2>2, <2>3
<1>4. \A g \in Files : (RanAgain(g)' <=> RanAgain(g)) /\ file'[g].key = file[g].key
  BY <1>0 DEF RanAgain
<1>5. \A g \in Files : (Holds(g)' => Holds(g)) /\ (Owns(g)' <=> Owns(g))
  BY <1>0, <1>2 DEF Holds, Uploading, Stored, Owns
<1>6. OneHolder' /\ HolderHasBytes'
  BY <1>0, <1>4, <1>5 DEF FileInv, OneHolder, HolderHasBytes
<1>7. OneRow' /\ ReferencedStays'
  BY <1>0, <1>2 DEF FileInv, OneRow, ReferencedStays
<1>11. CountedHolds'
  <2>1. \A p \in Purges : purge[p].step = "counted" => purge[p].file \in Files \ {f}
    BY <1>2 DEF FileInv, TypeOK
  <2>2. QED
    BY <1>0, <2>1 DEF FileInv, CountedHolds
<1>8. ReleasedBytes'
  BY <1>0, <1>4, <1>5 DEF FileInv, TypeOK, ReleasedBytes
<1>9. BytesHaveOwner'
  BY <1>0, <1>4, <1>5 DEF FileInv, BytesHaveOwner, Owns
<1>10. QED
  BY <1>1, <1>3, <1>6, <1>7, <1>8, <1>9, <1>11 DEF FileInv

-----------------------------------------------------------------------------
LEMMA ReferenceStep ==
  ASSUME FileInv, NEW f \in Files, Refer(f)
  PROVE  FileInv'
<1>0. /\ UNCHANGED <<file, disk, purge, verdict, purged>>
      /\ refs' \in [Files -> 0..MaxRefs] /\ \A g \in Files \ {f} : refs'[g] = refs[g]
      /\ asked' \subseteq asked \cup {f} /\ asked' \subseteq Files
      /\ mentioned' \subseteq mentioned \cup {f} /\ missed' \subseteq mentioned'
      /\ mentioned' \ missed' \subseteq (mentioned \ missed) \cup {f}
      /\ refs'[f] <= refs[f] \/ (file[f].row /\ ~Locked(f))
      /\ f \in mentioned' \ missed' => f \in mentioned \ missed \/ (file[f].row /\ ~Locked(f))
      /\ file[f].row \/ purged[f] # 0 \/ refs[f] # 0 \/ f \in mentioned
  <2>1. /\ refs \in [Files -> 0..MaxRefs] /\ asked \subseteq Files
        /\ mentioned \subseteq Files /\ missed \subseteq mentioned
    BY DEF FileInv, TypeOK
  <2>2. CASE Attach(f)
    BY <2>1, <2>2 DEF Attach, scans, texts
  <2>3. CASE Mention(f)
    <3>1. /\ UNCHANGED <<file, disk, purge, verdict, purged, refs, asked>>
          /\ mentioned' = mentioned \cup {f}
          /\ \/ missed' = missed \cup {f}
             \/ missed' = missed /\ (f \in mentioned \/ (file[f].row /\ ~Locked(f)))
          /\ file[f].row \/ purged[f] # 0
      BY <2>3 DEF Mention, scans
    <3>2. missed \subseteq missed'
      BY <3>1
    <3>3. f \in mentioned' \ missed' => f \in mentioned \ missed \/ (file[f].row /\ ~Locked(f))
      BY <3>1, <3>2
    <3>4. refs'[f] <= refs[f]
      BY <2>1, <3>1
    <3> HIDE DEF Row
    <3>5. QED
      BY <2>1, <3>1, <3>2, <3>3, <3>4
  <2>4. CASE Unmention(f)
    <3>1. /\ UNCHANGED <<file, disk, purge, verdict, purged, refs, asked>>
          /\ mentioned' = mentioned \ {f} /\ missed' = missed \ {f} /\ f \in mentioned
      BY <2>4 DEF Unmention, scans
    <3>2. refs'[f] <= refs[f]
      BY <2>1, <3>1
    <3> HIDE DEF Row
    <3>3. QED
      BY <2>1, <3>1, <3>2
  <2>5. CASE DetachAndAsk(f)
    <3>1. /\ UNCHANGED <<file, disk, purge, verdict, purged, mentioned, missed>>
          /\ refs' = [refs EXCEPT ![f] = refs[f] - 1] /\ asked' = asked \cup {f} /\ refs[f] > 0
      BY <2>5 DEF DetachAndAsk, scans, texts
    <3>2. /\ refs' \in [Files -> 0..MaxRefs] /\ refs'[f] <= refs[f]
          /\ \A g \in Files \ {f} : refs'[g] = refs[g]
      BY <2>1, <3>1
    <3> HIDE DEF Row
    <3>3. QED
      BY <2>1, <3>1, <3>2
  <2>6. QED
    BY <2>2, <2>3, <2>4, <2>5 DEF Refer
<1>1. file[f].upload \notin {"none", "written", "failed", "crashed"}
  BY <1>0 DEF FileInv, Fresh
<1>2. TypeOK'
  BY <1>0 DEF FileInv, TypeOK
<1>3. Fresh' /\ KeyOf' /\ Archived' /\ RunsHaveRow'
  BY <1>0, <1>1 DEF FileInv, TypeOK, Fresh, KeyOf, Archived, RunsHaveRow
<1>4. OneHolder' /\ HolderHasBytes'
  BY <1>0 DEF FileInv, OneHolder, HolderHasBytes, RanAgain, Holds, Uploading, Stored
<1>5. OneRow' /\ ReleasedBytes' /\ BytesHaveOwner'
  BY <1>0 DEF FileInv, OneRow, ReleasedBytes, BytesHaveOwner, Owns
<1>6. refs \in [Files -> 0..MaxRefs] /\ refs' \in [Files -> 0..MaxRefs]
  BY <1>0 DEF FileInv, TypeOK
<1>7. ReferencedStays'
  <2> SUFFICES ASSUME NEW g \in Files, refs'[g] > 0 \/ g \in mentioned' \ missed'
               PROVE  file[g].row
    BY <1>0 DEF ReferencedStays
  <2>1. file[g].row \/ refs[g] > 0 \/ g \in mentioned \ missed
    BY <1>0, <1>6
  <2>2. QED
    BY <2>1 DEF FileInv, ReferencedStays
<1>8. CountedHolds'
  <2> SUFFICES ASSUME NEW p \in Purges, NEW g \in Files,
                      purge[p] = [step |-> "counted", file |-> g]
               PROVE  refs'[g] = 0 /\ g \notin mentioned' \ missed'
    BY <1>0 DEF FileInv, TypeOK, CountedHolds
  <2>1. refs[g] = 0 /\ g \notin mentioned \ missed
    BY DEF FileInv, CountedHolds
  <2>2. g = f => Locked(f)
    BY DEF Locked
  <2>3. QED
    BY <2>1, <2>2, <1>0, <1>6
<1>9. QED
  BY <1>2, <1>3, <1>4, <1>5, <1>7, <1>8 DEF FileInv

LEMMA StageStep ==
  ASSUME FileInv, NEW p \in Purges, NEW f \in Files, Stage(p, f)
  PROVE  FileInv'
<1>0. /\ f \in asked /\ file[f].row
      /\ UNCHANGED <<disk, refs, asked, verdict, purged, mentioned, missed>>
      /\ file' \in [Files -> Row]
      /\ file'[f].upload = file[f].upload /\ file'[f].row = file[f].row /\ file'[f].key = file[f].key
      /\ file'[f].archived = TRUE
      /\ \A g \in Files \ {f} : file'[g] = file[g]
      /\ purge' = [purge EXCEPT ![p] = [step |-> "staged", file |-> f]]
  <2>1. /\ f \in asked /\ file[f].row
        /\ UNCHANGED <<disk, refs, asked, verdict, purged, mentioned, missed>>
        /\ purge' = [purge EXCEPT ![p] = [step |-> "staged", file |-> f]]
        /\ file' = [file EXCEPT ![f] = [file[f] EXCEPT !.archived = TRUE]]
    <3>1. file' = [file EXCEPT ![f] = [file[f] EXCEPT !.archived = TRUE]]
      BY Zenon DEF Stage
    <3>2. QED
      BY <3>1 DEF Stage, scans, texts
  <2>2. file \in [Files -> Row] /\ [file[f] EXCEPT !.archived = TRUE] \in Row
    <3>1. file \in [Files -> Row] /\ file[f] \in Row
      BY DEF FileInv, TypeOK
    <3> HIDE DEF Row
    <3>2. QED
      BY <3>1, RowUpdate
  <2>3. /\ file' \in [Files -> Row] /\ \A g \in Files \ {f} : file'[g] = file[g]
        /\ file'[f] = [file[f] EXCEPT !.archived = TRUE]
    BY <2>1, <2>2, FileUpdate
  <2>4. /\ file'[f].upload = file[f].upload /\ file'[f].row = file[f].row
        /\ file'[f].key = file[f].key /\ file'[f].archived = TRUE
    <3>1. file[f] \in Row
      BY <2>2
    <3>2. QED
      BY <2>3, <3>1, RowFields
  <2>5. QED
    BY <2>1, <2>3, <2>4
<1>1. TypeOK'
  BY <1>0 DEF FileInv, TypeOK
<1>2. file[f].upload \notin {"none", "written", "failed", "crashed"}
  BY <1>0 DEF FileInv, Fresh
<1>10. Fresh' /\ KeyOf'
  <2>1. Fresh'
    BY <1>0, <1>2 DEF FileInv, TypeOK, Fresh
  <2>2. KeyOf'
    BY <1>0, <1>2 DEF FileInv, KeyOf
  <2>3. QED
    BY <2>1, <2>2
<1>3. Archived'
  BY <1>0 DEF FileInv, Archived
<1>4. RunsHaveRow'
  <2>1. \A g \in Files : file'[g].row = file[g].row
    BY <1>0
  <2>2. \A q \in Purges : purge'[q] = IF q = p THEN [step |-> "staged", file |-> f] ELSE purge[q]
    BY <1>0 DEF FileInv, TypeOK
  <2>3. \A q \in Purges : purge[q] # Idle =>
           /\ purge[q].step = "staged" /\ purged[purge[q].file] = 0 =>
                file[purge[q].file].row /\ file[purge[q].file].archived
           /\ purge[q].step \in {"deleted", "counted"} => purged[purge[q].file] # 0
    BY DEF FileInv, RunsHaveRow
  <2>4. \A g \in Files : file[g].archived => file'[g].archived
    BY <1>0
  <2>5. QED
    BY <1>0, <2>1, <2>2, <2>3, <2>4 DEF FileInv, TypeOK, RunsHaveRow
<1>11. \A g \in Files : /\ file'[g].key = file[g].key
                        /\ file'[g].row = file[g].row
                        /\ file'[g].upload = file[g].upload
  BY <1>0
<1>5. \A g \in Files : /\ RanAgain(g)' <=> RanAgain(g)
                       /\ Holds(g)' <=> Holds(g)
                       /\ Owns(g)' <=> Owns(g)
                       /\ file'[g].key = file[g].key
  <2>1. \A g \in Files : RanAgain(g)' <=> RanAgain(g)
    BY <1>0, <1>11 DEF RanAgain
  <2>2. \A g \in Files : (Holds(g)' <=> Holds(g)) /\ (Owns(g)' <=> Owns(g))
    BY <1>0, <1>11 DEF Holds, Uploading, Stored, Owns
  <2>3. QED
    BY <2>1, <2>2, <1>11
<1>6. OneHolder' /\ HolderHasBytes'
  BY <1>0, <1>5 DEF FileInv, OneHolder, HolderHasBytes
<1>12. OneRow' /\ ReferencedStays' /\ CountedHolds'
  BY <1>0, <1>11 DEF FileInv, OneRow, ReferencedStays, CountedHolds, TypeOK
<1>7. ReleasedBytes'
  <2>1. \A q \in Purges : purge'[q].step \in {"deleted", "counted"} =>
           purge[q].step \in {"deleted", "counted"} /\ purge'[q].file = purge[q].file /\ purge[q].file \in Files
    BY <1>0 DEF FileInv, TypeOK
  <2>2. QED
    BY <1>0, <1>5, <2>1 DEF FileInv, ReleasedBytes
<1>8. BytesHaveOwner'
  BY <1>0, <1>5 DEF FileInv, BytesHaveOwner, Owns
<1>9. QED
  BY <1>1, <1>3, <1>4, <1>6, <1>7, <1>8, <1>10, <1>12 DEF FileInv

LEMMA SkipStep ==
  ASSUME FileInv, NEW p \in Purges, NEW f \in Files, Skip(p, f)
  PROVE  FileInv'
<1>0. /\ file[f].row
      /\ UNCHANGED <<disk, refs, asked, purge, verdict, mentioned, missed>>
      /\ file' \in [Files -> Row]
      /\ file'[f].upload = file[f].upload /\ file'[f].row = file[f].row /\ file'[f].key = file[f].key
      /\ \A g \in Files \ {f} : file'[g] = file[g]
      /\ purged' = [purged EXCEPT ![f] = 2]
  <2>1. /\ file[f].row
        /\ UNCHANGED <<disk, refs, asked, purge, verdict, mentioned, missed>>
        /\ purged' = [purged EXCEPT ![f] = 2]
        /\ file' = [file EXCEPT ![f] = [file[f] EXCEPT !.archived = FALSE]]
    <3>1. file' = [file EXCEPT ![f] = [file[f] EXCEPT !.archived = FALSE]]
      BY Zenon DEF Skip
    <3>2. QED
      BY <3>1 DEF Skip, scans, texts
  <2>2. file \in [Files -> Row] /\ [file[f] EXCEPT !.archived = FALSE] \in Row
    <3>1. file \in [Files -> Row] /\ file[f] \in Row
      BY DEF FileInv, TypeOK
    <3> HIDE DEF Row
    <3>2. QED
      BY <3>1, RowUpdate
  <2>3. /\ file' \in [Files -> Row] /\ \A g \in Files \ {f} : file'[g] = file[g]
        /\ file'[f] = [file[f] EXCEPT !.archived = FALSE]
    BY <2>1, <2>2, FileUpdate
  <2>4. /\ file'[f].upload = file[f].upload /\ file'[f].row = file[f].row
        /\ file'[f].key = file[f].key
    <3>1. file[f] \in Row
      BY <2>2
    <3>2. QED
      BY <2>3, <3>1, RowFields
  <2>5. QED
    BY <2>1, <2>3, <2>4
<1>1. TypeOK'
  BY <1>0 DEF FileInv, TypeOK
<1>2. file[f].upload \notin {"none", "written", "failed", "crashed"}
  BY <1>0 DEF FileInv, Fresh
<1>3. purged \in [Files -> 0..2]
  BY DEF FileInv, TypeOK
<1>4. Fresh' /\ KeyOf' /\ Archived'
  BY <1>0, <1>2, <1>3 DEF FileInv, Fresh, KeyOf, Archived
<1>5. RunsHaveRow'
  BY <1>0, <1>3 DEF FileInv, TypeOK, RunsHaveRow
<1>11. \A g \in Files : /\ file'[g].key = file[g].key
                        /\ file'[g].row = file[g].row
                        /\ file'[g].upload = file[g].upload
                        /\ purged'[g] \in {purged[g], 2}
  BY <1>0, <1>3
<1>6. \A g \in Files : /\ RanAgain(g) => RanAgain(g)'
                       /\ Holds(g)' => Holds(g)
                       /\ Owns(g)' <=> Owns(g)
                       /\ file'[g].key = file[g].key
  <2>1. \A g \in Files : RanAgain(g) => RanAgain(g)'
    BY <1>11 DEF RanAgain
  <2>2. \A g \in Files : (Holds(g)' => Holds(g)) /\ (Owns(g)' <=> Owns(g))
    BY <1>11 DEF Holds, Uploading, Stored, Owns
  <2>3. QED
    BY <2>1, <2>2, <1>11
<1>7. OneHolder' /\ HolderHasBytes'
  BY <1>0, <1>6 DEF FileInv, OneHolder, HolderHasBytes
<1>12. OneRow' /\ ReferencedStays' /\ CountedHolds'
  BY <1>0, <1>11 DEF FileInv, OneRow, ReferencedStays, CountedHolds, TypeOK
<1>8. ReleasedBytes'
  <2>1. \A q \in Purges : purge[q].step \in {"deleted", "counted"} => purge[q].file \in Files
    BY DEF FileInv, TypeOK
  <2>2. QED
    BY <1>0, <1>6, <2>1 DEF FileInv, ReleasedBytes
<1>9. BytesHaveOwner'
  BY <1>0, <1>6 DEF FileInv, BytesHaveOwner, Owns
<1>10. QED
  BY <1>1, <1>4, <1>5, <1>7, <1>8, <1>9, <1>12 DEF FileInv

LEMMA DeleteStep ==
  ASSUME FileInv, NEW p \in Purges, Delete(p)
  PROVE  FileInv'
<1>1. PICK f \in Files : purge[p] = [step |-> "staged", file |-> f]
  BY DEF FileInv, TypeOK, Delete
<1>0. /\ UNCHANGED <<file, refs, asked, verdict, mentioned, missed>>
      /\ disk' = disk \ {file[f].key}
      /\ purge' = [purge EXCEPT ![p] = [step |-> "deleted", file |-> f]]
      /\ purged' = [purged EXCEPT ![f] = IF purged[f] = 0 THEN 1 ELSE 2]
  <2>1. purge[p].file = f
    BY <1>1
  <2>2. /\ UNCHANGED <<file, refs, asked, verdict, mentioned, missed>>
        /\ disk' = disk \ {file[purge[p].file].key}
        /\ purge' = [purge EXCEPT ![p] = [purge[p] EXCEPT !.step = "deleted"]]
        /\ purged' = [purged EXCEPT ![purge[p].file] = IF purged[purge[p].file] = 0 THEN 1 ELSE 2]
    BY DEF Delete, scans, texts
  <2>3. [purge[p] EXCEPT !.step = "deleted"] = [step |-> "deleted", file |-> f]
    BY <1>1
  <2>4. QED
    BY <2>1, <2>2, <2>3
<1>10. purged \in [Files -> 0..2]
  BY DEF FileInv, TypeOK
<1>2. TypeOK'
  BY <1>0, <1>10 DEF FileInv, TypeOK
<1>3. file[f].upload \notin {"none", "written", "failed", "crashed"}
  BY <1>1 DEF FileInv, Fresh
<1>4. Fresh' /\ KeyOf'
  BY <1>0, <1>1, <1>3 DEF FileInv, TypeOK, Fresh, KeyOf
<1>5. RunsHaveRow'
  BY <1>0, <1>1 DEF FileInv, TypeOK, RunsHaveRow
<1>11. /\ purged[f] = 0 => file[f].row
       /\ purged[f] # 0 => purged'[f] = 2
       /\ purged'[f] # 0
       /\ \A g \in Files \ {f} : purged'[g] = purged[g]
       /\ \A g \in Files : purged[g] = 2 => purged'[g] = 2
  BY <1>0, <1>1, <1>10 DEF FileInv, RunsHaveRow
<1>6. Archived'
  <2> SUFFICES ASSUME NEW g \in Files, file[g].row, ~file[g].archived
               PROVE  purged'[g] \in {0, 2}
    BY <1>0 DEF Archived
  <2>1. CASE g = f
    <3>1. purged[f] # 0
      BY <2>1, <1>1 DEF FileInv, RunsHaveRow
    <3>2. QED
      BY <2>1, <3>1, <1>11
  <2>2. CASE g # f
    BY <2>2, <1>11 DEF FileInv, Archived
  <2>3. QED
    BY <2>1, <2>2
<1>7. OneRow' /\ ReferencedStays' /\ CountedHolds'
  BY <1>0 DEF FileInv, OneRow, ReferencedStays, CountedHolds, TypeOK
<1>12. \A g \in Files : (RanAgain(g) => RanAgain(g)') /\ (Holds(g)' => Holds(g)) /\ (Owns(g)' <=> Owns(g))
  BY <1>0, <1>10, <1>11 DEF RanAgain, Holds, Uploading, Stored, Owns
<1>13. OneHolder'
  BY <1>0, <1>12 DEF FileInv, OneHolder
<1>14. HolderHasBytes'
  <2> SUFFICES ASSUME NEW g \in Files, Holds(g)', ~RanAgain(g)'
               PROVE  file[g].key \in disk'
    BY <1>0 DEF HolderHasBytes
  <2>1. Holds(g) /\ ~RanAgain(g) /\ file[g].key \in disk
    BY <1>12 DEF FileInv, HolderHasBytes
  <2>2. ASSUME file[g].key = file[f].key PROVE FALSE
    <3>1. purged[f] = 0 /\ file[f].row
      BY <2>2, <1>0, <1>11 DEF RanAgain
    <3>2. Holds(f)
      BY <3>1 DEF Holds, Stored
    <3>3. g = f
      BY <2>1, <2>2, <3>2 DEF FileInv, OneHolder
    <3>4. ~Uploading(f) /\ ~Stored(f)'
      BY <1>0, <1>3, <1>11 DEF Uploading, Stored
    <3>5. QED
      BY <3>3, <3>4, <1>0 DEF Holds, Uploading
  <2>3. QED
    BY <2>1, <2>2, <1>0
<1>15. ReleasedBytes'
  <2> SUFFICES ASSUME NEW q \in Purges, purge'[q].step \in {"deleted", "counted"},
                      file[purge'[q].file].key \in disk'
               PROVE  \E g \in Files \ {purge'[q].file} :
                         file[g].key = file[purge'[q].file].key /\ Owns(g)'
    BY <1>0 DEF ReleasedBytes
  <2>1. q # p
    BY <1>0, <1>1 DEF FileInv, TypeOK
  <2>2. purge'[q] = purge[q] /\ file[purge[q].file].key \in disk
    BY <2>1, <1>0 DEF FileInv, TypeOK
  <2>3. QED
    BY <2>2, <1>12 DEF FileInv, ReleasedBytes
<1>16. BytesHaveOwner'
  BY <1>0, <1>12 DEF FileInv, BytesHaveOwner, Owns
<1>17. QED
  BY <1>2, <1>4, <1>5, <1>6, <1>7, <1>13, <1>14, <1>15, <1>16 DEF FileInv

LEMMA CountAgainStep ==
  ASSUME FileInv, NEW p \in Purges, CountAgain(p)
  PROVE  FileInv'
<1>1. PICK f \in Files : purge[p] = [step |-> "deleted", file |-> f]
  BY DEF FileInv, TypeOK, CountAgain
<1>0. /\ UNCHANGED <<file, disk, refs, asked, verdict, purged, mentioned, missed>>
      /\ purge \in [Purges -> {Idle} \cup [step : {"staged", "deleted", "counted"}, file : Files]]
      /\ ~Locked(f)
      /\ \A q \in Purges \ {p} : purge'[q] = purge[q]
      /\ \/ purge'[p] = Idle
         \/ /\ purge'[p] = [step |-> "counted", file |-> f]
            /\ file[f].row /\ refs[f] = 0 /\ f \notin mentioned
  BY <1>1 DEF FileInv, TypeOK, CountAgain, Unreferenced, scans, texts
<1>2. purge' \in [Purges -> {Idle} \cup [step : {"staged", "deleted", "counted"}, file : Files]]
  BY <1>0, <1>1 DEF CountAgain
<1>3. TypeOK'
  BY <1>0, <1>2 DEF FileInv, TypeOK
<1>4. \A q \in Purges : \/ purge'[q] = Idle
                        \/ purge'[q] = purge[q]
                        \/ /\ purge[q] = [step |-> "deleted", file |-> f]
                           /\ purge'[q] = [step |-> "counted", file |-> f]
  BY <1>0, <1>1
<1>5. Fresh' /\ KeyOf' /\ Archived'
  <2>1. file[f].upload \notin {"none", "written", "failed", "crashed"}
    BY <1>1 DEF FileInv, Fresh
  <2>2. QED
    BY <1>0, <1>4, <2>1 DEF FileInv, TypeOK, Fresh, KeyOf, Archived
<1>6. RunsHaveRow'
  BY <1>0, <1>4 DEF FileInv, RunsHaveRow
<1>7. OneHolder' /\ HolderHasBytes'
  BY <1>0 DEF FileInv, OneHolder, HolderHasBytes, RanAgain, Holds, Uploading, Stored
<1>8. OneRow' /\ BytesHaveOwner' /\ ReferencedStays'
  BY <1>0 DEF FileInv, OneRow, BytesHaveOwner, ReferencedStays
<1>9. ReleasedBytes'
  BY <1>0, <1>4 DEF FileInv, ReleasedBytes, Owns
<1>10. CountedHolds'
  <2> SUFFICES ASSUME NEW q \in Purges, purge'[q].step = "counted"
               PROVE  /\ file[purge'[q].file].row /\ refs[purge'[q].file] = 0
                      /\ purge'[q].file \notin mentioned \ missed
                      /\ \A r \in Purges \ {q} : purge'[r] # purge'[q]
    BY <1>0 DEF CountedHolds
  <2>1. CASE q = p
    <3>1. purge'[p] = [step |-> "counted", file |-> f] /\ file[f].row /\ refs[f] = 0 /\ f \notin mentioned
      BY <2>1, <1>0
    <3>2. \A r \in Purges \ {p} : purge'[r] # [step |-> "counted", file |-> f]
      BY <1>0 DEF Locked
    <3>3. QED
      BY <2>1, <3>1, <3>2
  <2>2. CASE q # p
    <3>1. purge'[q] = purge[q]
      BY <2>2, <1>0
    <3>2. /\ file[purge[q].file].row /\ refs[purge[q].file] = 0
          /\ purge[q].file \notin mentioned \ missed
          /\ \A r \in Purges \ {q} : purge[r] # purge[q]
      BY <3>1 DEF FileInv, CountedHolds
    <3>3. purge[q] # [step |-> "counted", file |-> f]
      BY <1>0 DEF Locked
    <3>4. purge'[p] # purge[q]
      BY <3>1, <3>3, <1>0
    <3>5. QED
      BY <3>1, <3>2, <3>4, <1>0
  <2>3. QED
    BY <2>1, <2>2
<1>11. QED
  BY <1>3, <1>5, <1>6, <1>7, <1>8, <1>9, <1>10 DEF FileInv

LEMMA DeleteRowStep ==
  ASSUME FileInv, NEW p \in Purges, DeleteRow(p)
  PROVE  FileInv'
<1>1. PICK f \in Files : purge[p] = [step |-> "counted", file |-> f]
  BY DEF FileInv, TypeOK, DeleteRow
<1>0. /\ UNCHANGED <<disk, refs, asked, verdict, purged, mentioned, missed>>
      /\ file' \in [Files -> Row]
      /\ \A g \in Files : /\ file'[g].key = file[g].key
                          /\ file'[g].upload = file[g].upload
                          /\ file'[g].row => file[g].row /\ file'[g].archived = file[g].archived
                          /\ g # f => file'[g] = file[g]
      /\ purge' = [purge EXCEPT ![p] = Idle]
  <2>1. file \in [Files -> Row] /\ file[f] \in Row /\ purge[p].file = f
    BY <1>1 DEF FileInv, TypeOK
  <2>2. /\ UNCHANGED <<disk, refs, asked, verdict, purged, mentioned, missed>>
        /\ purge' = [purge EXCEPT ![p] = Idle]
        /\ file' = [file EXCEPT ![f] = [file[f] EXCEPT !.row = FALSE]]
    <3>1. file' = [file EXCEPT ![f].row = FALSE]
      BY <2>1 DEF DeleteRow
    <3>2. [file EXCEPT ![f].row = FALSE] = [file EXCEPT ![f] = [file[f] EXCEPT !.row = FALSE]]
      BY Zenon
    <3>3. QED
      BY <3>1, <3>2 DEF DeleteRow, scans, texts
  <2>3. [file[f] EXCEPT !.row = FALSE] \in Row
    BY <2>1, RowUpdate, Zenon
  <2>4. /\ file' \in [Files -> Row] /\ \A g \in Files \ {f} : file'[g] = file[g]
        /\ file'[f] = [file[f] EXCEPT !.row = FALSE]
    BY <2>1, <2>2, <2>3, FileUpdate
  <2>5. file'[f].key = file[f].key /\ file'[f].upload = file[f].upload /\ file'[f].row = FALSE
    BY <2>1, <2>4, RowFields
  <2>6. QED
    BY <2>2, <2>4, <2>5
<1>2. TypeOK'
  BY <1>0 DEF FileInv, TypeOK
<1>3. Fresh' /\ KeyOf'
  BY <1>0, <1>1 DEF FileInv, TypeOK, Fresh, KeyOf
<1>4. Archived'
  BY <1>0 DEF FileInv, Archived
<1>5. purged[f] # 0
  BY <1>1 DEF FileInv, RunsHaveRow
<1>6. RunsHaveRow'
  <2> SUFFICES ASSUME NEW q \in Purges, purge'[q] # Idle
               PROVE  /\ purge'[q].step = "staged" /\ purged[purge'[q].file] = 0 =>
                            file'[purge'[q].file].row /\ file'[purge'[q].file].archived
                      /\ purge'[q].step \in {"deleted", "counted"} => purged[purge'[q].file] # 0
    BY <1>0 DEF RunsHaveRow
  <2>1. q # p /\ purge'[q] = purge[q] /\ purge[q].file \in Files
    BY <1>0 DEF FileInv, TypeOK
  <2>2. QED
    BY <2>1, <1>0, <1>5 DEF FileInv, RunsHaveRow
<1>7. \A g \in Files : (RanAgain(g) <=> RanAgain(g)') /\ (Holds(g)' => Holds(g)) /\ (Owns(g)' => Owns(g))
  BY <1>0 DEF RanAgain, Holds, Uploading, Stored, Owns
<1>8. OneHolder' /\ HolderHasBytes'
  BY <1>0, <1>7 DEF FileInv, OneHolder, HolderHasBytes
<1>15. refs[f] = 0 /\ f \notin mentioned \ missed /\ \A q \in Purges \ {p} : purge[q] # purge[p]
  BY <1>1 DEF FileInv, CountedHolds
<1>9. OneRow' /\ ReferencedStays'
  BY <1>0, <1>15 DEF FileInv, OneRow, ReferencedStays
<1>16. CountedHolds'
  <2> SUFFICES ASSUME NEW q \in Purges, purge'[q].step = "counted"
               PROVE  /\ file'[purge'[q].file].row /\ refs[purge'[q].file] = 0
                      /\ purge'[q].file \notin mentioned \ missed
                      /\ \A r \in Purges \ {q} : purge'[r] # purge'[q]
    BY <1>0 DEF CountedHolds
  <2>1. q # p /\ purge'[q] = purge[q] /\ \A r \in Purges \ {p} : purge'[r] = purge[r]
    BY <1>0 DEF FileInv, TypeOK
  <2>2. PICK h \in Files : purge[q] = [step |-> "counted", file |-> h]
    BY <2>1 DEF FileInv, TypeOK
  <2>3. h # f /\ file'[h] = file[h]
    BY <1>0, <1>1, <1>15, <2>1, <2>2
  <2>4. /\ file[h].row /\ refs[h] = 0 /\ h \notin mentioned \ missed
        /\ \A r \in Purges \ {q} : purge[r] # purge[q]
    BY <2>2 DEF FileInv, CountedHolds
  <2>5. purge'[p] # purge'[q]
    BY <1>0, <2>1, <2>2 DEF FileInv, TypeOK
  <2>6. QED
    BY <2>1, <2>2, <2>3, <2>4, <2>5
<1>10. \A g \in Files \ {f} : Owns(g)' <=> Owns(g)
  BY <1>0 DEF Owns
<1>11. file[f].upload \notin {"none", "written", "failed", "crashed"}
  BY <1>1 DEF FileInv, Fresh
<1>12. ReleasedBytes'
  <2> SUFFICES ASSUME NEW q \in Purges, purge'[q].step \in {"deleted", "counted"},
                      file[purge'[q].file].key \in disk
               PROVE  \E g \in Files \ {purge'[q].file} :
                         file[g].key = file[purge'[q].file].key /\ Owns(g)'
    BY <1>0, <1>2 DEF ReleasedBytes, TypeOK
  <2>1. q # p /\ purge'[q] = purge[q] /\ purge[q].file \in Files
    BY <1>0 DEF FileInv, TypeOK
  <2> DEFINE h == purge[q].file
  <2>2. PICK g \in Files \ {h} : file[g].key = file[h].key /\ Owns(g)
    BY <2>1 DEF FileInv, ReleasedBytes
  <2>3. CASE g # f
    BY <2>1, <2>2, <2>3, <1>10
  <2>4. CASE g = f
    <3>1. PICK x \in Files \ {f} : file[x].key = file[f].key /\ Owns(x)
      BY <2>1, <2>2, <2>4, <1>1 DEF FileInv, ReleasedBytes
    <3>2. file[f].row
      BY <2>2, <2>4, <1>11 DEF Owns
    <3>3. ~file[x].row
      BY <3>1, <3>2 DEF FileInv, OneRow
    <3>4. file[x].upload \in {"written", "failed", "crashed"}
      BY <3>1, <3>3 DEF Owns
    <3>5. x # h
      BY <3>4, <2>1 DEF FileInv, Fresh
    <3>6. QED
      BY <3>1, <3>5, <2>1, <2>2, <2>4, <1>10
  <2>5. QED
    BY <2>3, <2>4
<1>13. BytesHaveOwner'
  <2> SUFFICES ASSUME NEW k \in disk
               PROVE  \E g \in Files : file[g].key = k /\ Owns(g)'
    BY <1>0 DEF BytesHaveOwner, Owns
  <2>1. PICK g \in Files : file[g].key = k /\ Owns(g)
    BY DEF FileInv, BytesHaveOwner, Owns
  <2>2. CASE g # f
    BY <2>1, <2>2, <1>10
  <2>3. CASE g = f
    <3>1. PICK x \in Files \ {f} : file[x].key = file[f].key /\ Owns(x)
      BY <2>1, <2>3, <1>1 DEF FileInv, ReleasedBytes
    <3>2. QED
      BY <3>1, <2>1, <2>3, <1>10
  <2>4. QED
    BY <2>2, <2>3
<1>14. QED
  BY <1>2, <1>3, <1>4, <1>6, <1>8, <1>9, <1>12, <1>13, <1>16 DEF FileInv

LEMMA CrashPurgeStep ==
  ASSUME FileInv, NEW p \in Purges, CrashPurge(p)
  PROVE  FileInv'
<1>0. UNCHANGED <<file, disk, refs, asked, verdict, purged, mentioned, missed>> /\ purge' = [purge EXCEPT ![p] = Idle]
  BY DEF CrashPurge, scans, texts
<1>1. \A q \in Purges : purge'[q] = Idle \/ purge'[q] = purge[q]
  BY <1>0 DEF FileInv, TypeOK
<1>2. TypeOK'
  BY <1>0 DEF FileInv, TypeOK
<1>3. Fresh' /\ KeyOf' /\ Archived' /\ RunsHaveRow'
  BY <1>0, <1>1 DEF FileInv, TypeOK, Fresh, KeyOf, Archived, RunsHaveRow
<1>4. OneHolder' /\ HolderHasBytes'
  BY <1>0 DEF FileInv, OneHolder, HolderHasBytes, RanAgain, Holds, Uploading, Stored
<1>5. OneRow' /\ BytesHaveOwner' /\ ReferencedStays' /\ CountedHolds'
  BY <1>0 DEF FileInv, OneRow, BytesHaveOwner, ReferencedStays, CountedHolds, TypeOK
<1>6. ReleasedBytes'
  BY <1>0, <1>1 DEF FileInv, ReleasedBytes, Owns
<1>7. QED
  BY <1>2, <1>3, <1>4, <1>5, <1>6 DEF FileInv
-----------------------------------------------------------------------------
\* What a scan may write: the status of one row, and the end of an upload.
LEMMA ScanStep ==
  ASSUME FileInv,
         \/ \E f \in Files : ScanInline(f) \/ ReadNext(f) \/ RecordVerdict(f)
         \/ StartPass \/ PassBy
         \/ UNCHANGED vars
  PROVE  /\ FileInv'
         /\ \A f \in Files : /\ file[f].scan \in Final => file'[f].scan = file[f].scan
<1>1. file \in [Files -> Row] /\ verdict \in Final \cup {None}
  BY DEF FileInv, TypeOK
<1>2. CASE StartPass \/ PassBy \/ UNCHANGED vars
  <2>1. UNCHANGED <<file, disk, refs, asked, purge, purged, mentioned, missed>> /\ verdict' \in Final \cup {None}
    BY <1>1, <1>2 DEF StartPass, PassBy, vars, scans, texts
  <2>2. QED
    BY <2>1, <1>1, QuietStep
<1>3. ASSUME NEW f \in Files, ReadNext(f)
      PROVE  UNCHANGED <<file, disk, refs, asked, purge, purged, mentioned, missed>> /\ verdict' \in Final \cup {None}
  BY <1>3 DEF ReadNext, texts
<1>4. CASE \E f \in Files : ReadNext(f)
  BY <1>4, <1>3, <1>1, QuietStep
<1>5. ASSUME NEW f \in Files, NEW status \in Final
      PROVE  /\ Record(f, status) \in [Files -> Row]
             /\ \A g \in Files : /\ Record(f, status)[g].row = file[g].row
                                 /\ Record(f, status)[g].key = file[g].key
                                 /\ Record(f, status)[g].archived = file[g].archived
                                 /\ Record(f, status)[g].upload = file[g].upload
                                 /\ file[g].scan \in Final => Record(f, status)[g].scan = file[g].scan
  BY <1>1 DEF Record
<1>6. ASSUME NEW f \in Files, ScanInline(f)
      PROVE  /\ FileInv'
             /\ \A g \in Files : file[g].scan \in Final => file'[g].scan = file[g].scan
  <2>1. PICK new \in [Files -> Row] :
           /\ file' = [new EXCEPT ![f].upload = "ended"]
           /\ \A g \in Files : /\ new[g].row = file[g].row
                               /\ new[g].key = file[g].key
                               /\ new[g].archived = file[g].archived
                               /\ new[g].upload = file[g].upload
                               /\ file[g].scan \in Final => new[g].scan = file[g].scan
    <3>1. CASE file' = [file EXCEPT ![f].upload = "ended"]
      BY <1>1, <3>1
    <3>2. CASE \E status \in Final : file' = [Record(f, status) EXCEPT ![f].upload = "ended"]
      <4>1. PICK status \in Final : file' = [Record(f, status) EXCEPT ![f].upload = "ended"]
        BY <3>2
      <4> DEFINE new == Record(f, status)
      <4>2. /\ new \in [Files -> Row]
            /\ \A g \in Files : /\ new[g].row = file[g].row
                                /\ new[g].key = file[g].key
                                /\ new[g].archived = file[g].archived
                                /\ new[g].upload = file[g].upload
                                /\ file[g].scan \in Final => new[g].scan = file[g].scan
        BY <1>5
      <4>3. file' = [new EXCEPT ![f].upload = "ended"]
        BY <4>1
      <4> HIDE DEF new
      <4>4. QED
        BY <4>2, <4>3
    <3>3. QED
      BY <1>6, <3>1, <3>2 DEF ScanInline
  <2>2. file[f].upload = "created" /\ UNCHANGED <<disk, refs, asked, purge, purged, verdict, mentioned, missed>>
    BY <1>6 DEF ScanInline, scans, texts
  <2>3. file' \in [Files -> Row]
    BY <2>1
  <2>4. \A g \in Files : /\ file'[g].row = new[g].row
                         /\ file'[g].key = new[g].key
                         /\ file'[g].archived = new[g].archived
                         /\ file'[g].scan = new[g].scan
                         /\ file'[g].upload = IF g = f THEN "ended" ELSE new[g].upload
    BY <2>1
  <2>5. QED
    BY <1>1, <2>1, <2>2, <2>3, <2>4, QuietStep
<1>7. ASSUME NEW f \in Files, RecordVerdict(f)
      PROVE  /\ FileInv'
             /\ \A g \in Files : file[g].scan \in Final => file'[g].scan = file[g].scan
  <2>1. /\ verdict \in Final /\ file' = Record(f, verdict) /\ verdict' = None
        /\ UNCHANGED <<disk, refs, asked, purge, purged, mentioned, missed>>
    BY <1>1, <1>7 DEF RecordVerdict, texts
  <2>2. QED
    BY <2>1, <1>5, QuietStep
<1>8. QED
  BY <1>2, <1>4, <1>6, <1>7, <1>3, <1>1

LEMMA NextHolds ==
  ASSUME FileInv, [Next]_vars
  PROVE  FileInv'
<1>1. CASE UNCHANGED vars
  BY <1>1, ScanStep
<1>2. CASE \E f \in Files : Upload(f)
  BY <1>2, WriteStep, CreateStep, RemoveStep, CrashStep, ScanStep DEF Upload
<1>3. CASE \E f \in Files : Refer(f)
  BY <1>3, ReferenceStep
<1>4. CASE \E p \in Purges : Purge(p)
  BY <1>4, StageStep, SkipStep, DeleteStep, CountAgainStep, DeleteRowStep, CrashPurgeStep DEF Purge
<1>5. CASE Scan
  BY <1>5, ScanStep DEF Scan
<1>6. QED
  BY <1>1, <1>2, <1>3, <1>4, <1>5 DEF Next

\* The invariant holds in every behaviour of the upload, the purge and the scan
\* of files (storeUploadedFile, purgeFileObject, scanCycle).
THEOREM FilesAreInvariant == Spec => []FileInv
<1>1. Init => FileInv
  BY InitHolds
<1>2. FileInv /\ [Next]_vars => FileInv'
  BY NextHolds
<1>3. QED
  BY <1>1, <1>2, PTL DEF Spec

\* The rows, the bytes, the references and the runs keep their types.
THEOREM FileTypeCorrect == Spec => []TypeOK
<1>1. FileInv => TypeOK
  BY DEF FileInv
<1>2. QED
  BY <1>1, FilesAreInvariant, PTL

\* What readers can see is on the disk, for any number of uploads of the same
\* content, of references and of purges side by side, but for purges run again.
THEOREM VisibleFilesHaveBytes == Spec => []VisibleHasBytes
<1>1. FileInv => VisibleHasBytes
  <2> SUFFICES ASSUME FileInv, NEW f \in Files, file[f].row, ~file[f].archived, ~RanAgain(f)
               PROVE  file[f].key \in disk
    BY DEF VisibleHasBytes
  <2>1. purged[f] # 2
    BY DEF RanAgain
  <2>2. Holds(f)
    BY <2>1 DEF FileInv, Archived, Holds, Stored
  <2>3. QED
    BY <2>2 DEF FileInv, HolderHasBytes
<1>2. QED
  BY <1>1, FilesAreInvariant, PTL

\* No upload and no purge leaves bytes that nobody owns.
THEOREM NoBytesAreLost == Spec => []BytesHaveOwner
<1>1. FileInv => BytesHaveOwner
  BY DEF FileInv
<1>2. QED
  BY <1>1, FilesAreInvariant, PTL

\* The purge never removes the row that a business record refers to: with a
\* foreign key whenever the reference came, in a text unless it committed after
\* the last count, for any number of files and of runs side by side.
THEOREM ReferencedRowsStay == Spec => []ReferencedStays
<1>1. FileInv => ReferencedStays
  BY DEF FileInv
<1>2. QED
  BY <1>1, FilesAreInvariant, PTL

\* The upload's own scan and the worker's never overwrite each other's result.
THEOREM ScanResultStands == Spec => FirstResultStands
<1> DEFINE Kept == \A f \in Files : file[f].scan \in Final => file'[f].scan = file[f].scan
<1>1. ASSUME FileInv, [Next]_vars
      PROVE  Kept
  <2>1. file \in [Files -> Row]
    BY <1>1 DEF FileInv, TypeOK
  <2>2. ASSUME NEW f \in Files, WriteBytes(f) \/ CreateRow(f) \/ RemoveBytes(f) \/ CrashUpload(f)
        PROVE  Kept
    BY <2>1, <2>2 DEF WriteBytes, CreateRow, RemoveBytes, CrashUpload
  <2>3. ASSUME NEW f \in Files, Refer(f)
        PROVE  Kept
    BY <2>3 DEF Refer, Attach, Mention, Unmention, DetachAndAsk
  <2>4. ASSUME NEW p \in Purges, Purge(p)
        PROVE  Kept
    <3>1. ASSUME NEW f \in Files, Stage(p, f) \/ Skip(p, f)
          PROVE  Kept
      BY <2>1, <3>1 DEF Stage, Skip
    <3>2. CASE Delete(p) \/ CountAgain(p) \/ CrashPurge(p)
      BY <3>2 DEF Delete, CountAgain, CrashPurge
    <3>3. CASE DeleteRow(p)
      BY <2>1, <3>3 DEF DeleteRow
    <3>4. QED
      BY <2>4, <3>1, <3>2, <3>3 DEF Purge
  <2>5. CASE \E f \in Files : ScanInline(f)
    BY <2>5, <1>1, ScanStep
  <2>6. CASE Scan \/ UNCHANGED vars
    BY <2>6, <1>1, ScanStep DEF Scan
  <2>7. QED
    BY <1>1, <2>2, <2>3, <2>4, <2>5, <2>6 DEF Next, Upload
<1>2. Spec => [][Kept]_vars
  BY <1>1, FilesAreInvariant, PTL DEF Spec
<1>3. QED
  BY <1>2 DEF FirstResultStands
=============================================================================
