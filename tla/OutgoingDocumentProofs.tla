----------------------- MODULE OutgoingDocumentProofs -----------------------
(***************************************************************************)
(* DocumentInv is an invariant of OutgoingDocument for every set of        *)
(* documents, users, units and requests in progress, and with it the       *)
(* properties that survive every interleaving.                             *)
(*                                                                         *)
(* Almost every transaction changes one workflow row; RowIsSound says what *)
(* the new row must satisfy, and OneRow that this is enough.               *)
(***************************************************************************)
EXTENDS OutgoingDocument, FiniteSetTheorems, TLAPS

USE DEF MayReview, IsNotSigner, Unsigned, ReadyToIssue, StillInReview, StillSigned,
        StillAwaitsReceipt

\* What DocumentInv asks of the row of document d, in the next state.
RowIsSound(d) ==
  /\ wf'[d] \in Row
  /\ wf'[d].status # "NONE"
  /\ wf'[d].status \in {"DRAFT", "CONTENT_REVIEW"} => ~wf'[d].approved
  /\ wf'[d].approved => wf'[d].reviewer \in Leaders \ {wf'[d].drafter}
  /\ wf'[d].number # 0 => wf'[d].signer # None
  /\ wf'[d].status = "RECALLED" => \A n \in Units : rows'[d][n] # "received"

RowInv ==
  /\ wf \in [Docs -> Row]
  /\ UndraftedIsBlank /\ RecalledIsUnreceived /\ PendingIsUndecided
  /\ ReviewedByAnother /\ NumberedIsSigned

RequestInv == req \in [Slots -> Request \cup {None}] /\ RequestsAreChecked

\* A step that writes one row, and leaves the recipients of the others alone.
LEMMA OneRow ==
  ASSUME RowInv, NEW d \in Docs,
         wf' = [wf EXCEPT ![d] = wf'[d]], RowIsSound(d),
         \A e \in Docs : e # d => rows'[e] = rows[e]
  PROVE  RowInv'
<1>1. wf' \in [Docs -> Row]
  BY DEF RowInv, RowIsSound
<1>2. \A e \in Docs : e # d => wf'[e] = wf[e]
  BY DEF RowInv
<1>3. UndraftedIsBlank' /\ PendingIsUndecided' /\ ReviewedByAnother' /\ NumberedIsSigned'
  BY <1>1, <1>2 DEF RowInv, RowIsSound, UndraftedIsBlank, PendingIsUndecided,
     ReviewedByAnother, NumberedIsSigned
<1>4. RecalledIsUnreceived'
  BY <1>1, <1>2 DEF RowInv, RowIsSound, RecalledIsUnreceived
<1>. QED
  BY <1>1, <1>3, <1>4 DEF RowInv

\* A step that only ends requests, and leaves every drafted document drafted by
\* the same user, keeps what the other requests have checked.
LEMMA RequestsEnd ==
  ASSUME RequestInv, req' \in [Slots -> Request \cup {None}],
         \A t \in Slots : req'[t] \in {req[t], None},
         \A e \in Docs : wf[e].status # "NONE" =>
            wf'[e].status # "NONE" /\ wf'[e].drafter = wf[e].drafter
  PROVE  RequestInv'
<1>1. ASSUME NEW t \in Slots, req'[t] # None
      PROVE  req'[t] = req[t] /\ req[t] \in Request
  BY <1>1 DEF RequestInv
<1>2. ASSUME NEW t \in Slots, req'[t] # None
      PROVE  /\ wf'[req'[t].doc].status # "NONE"
             /\ wf'[req'[t].doc].drafter = wf[req[t].doc].drafter
  BY <1>1, <1>2 DEF RequestInv, RequestsAreChecked, Request
<1>3. RequestsAreChecked'
  BY <1>1, <1>2 DEF RequestInv, RequestsAreChecked
<1>. QED
  BY <1>3 DEF RequestInv

\* The same for a transaction that answers its own request.
LEMMA RequestEnds ==
  ASSUME RequestInv, NEW s \in Slots, Answer(s),
         \A e \in Docs : wf[e].status # "NONE" =>
            wf'[e].status # "NONE" /\ wf'[e].drafter = wf[e].drafter
  PROVE  RequestInv'
<1>1. /\ req' \in [Slots -> Request \cup {None}]
      /\ \A t \in Slots : req'[t] \in {req[t], None}
  BY DEF RequestInv, Answer
<1>. QED
  BY <1>1, RequestsEnd

-----------------------------------------------------------------------------
SignatureInv ==
  sigs \in [Docs -> SUBSET SignatureRecord] /\ SignaturesAreFinite /\ InitialedOnce

RegisterInv ==
  /\ reg \in [Docs -> Nat] /\ lastNumber \in Nat /\ used \subseteq Nat
  /\ RegisterIsAhead

AdminInv ==
  admin \in [Docs -> {"DANG_XU_LY", "CHO_PHE_DUYET", "DA_HOAN_THANH", "LUU_THEO_DOI"}]

RowsInv == rows \in [Docs -> [Units -> {"none", "sent", "received"}]]

\* DocumentInv, sorted by the variables its parts speak of.
LEMMA Sorted ==
  DocumentInv <=> RowInv /\ RequestInv /\ SignatureInv /\ RegisterInv /\ AdminInv /\ RowsInv
BY DEF DocumentInv, TypeOK, RowInv, RequestInv, SignatureInv, RegisterInv, AdminInv, RowsInv

\* The same of the next state.
LEMMA SortedNext ==
  RowInv' /\ RequestInv' /\ SignatureInv' /\ RegisterInv' /\ AdminInv' /\ RowsInv' => DocumentInv'
BY DEF DocumentInv, TypeOK, RowInv, RequestInv, SignatureInv, RegisterInv, AdminInv, RowsInv

\* Whatever the workflow's status, it maps to an administrative status.
LEMMA AdminKept ==
  ASSUME AdminInv, NEW d \in Docs, NEW st, SyncAdmin(d, st)
  PROVE  AdminInv'
BY DEF AdminInv, SyncAdmin, AdminStatus

\* A step keeps the parts whose variables it leaves alone.
LEMMA UnchangedParts ==
  /\ SignatureInv /\ UNCHANGED sigs => SignatureInv'
  /\ RegisterInv /\ UNCHANGED <<reg, lastNumber, used>> => RegisterInv'
  /\ RowsInv /\ UNCHANGED rows => RowsInv'
  /\ AdminInv /\ UNCHANGED admin => AdminInv'
BY DEF SignatureInv, RegisterInv, RowsInv, AdminInv, SignaturesAreFinite, InitialedOnce,
   RegisterIsAhead

\* An initial is only added where the user has none on that version.
NoOtherInitial(d, v, kind, u) ==
  kind = "INITIAL" => ~Initialed(u, d, v)

\* A new signature record has its type, and an initial that finds no other of
\* its user and version is the first.
LEMMA NewSignature ==
  ASSUME SignatureInv, NEW d \in Docs, NEW v \in Versions, NEW kind \in Kind,
         NEW u \in Users \cup {None},
         sigs' = [sigs EXCEPT ![d] = @ \cup {Signature(d, v, kind, u)}],
         NoOtherInitial(d, v, kind, u)
  PROVE  SignatureInv'
<1>. DEFINE same == {g \in SignaturesOf(d, v) : g.kind = kind /\ g.by = u}
<1>1. IsFiniteSet(same)
  <2>1. same \in SUBSET sigs[d]
    BY DEF SignaturesOf
  <2>2. IsFiniteSet(sigs[d])
    BY DEF SignatureInv, SignaturesAreFinite
  <2>. QED
    BY <2>1, <2>2, FS_Subset
<1>2. Cardinality(same) \in Nat
  BY <1>1, FS_CardinalityType
<1>3. Signature(d, v, kind, u) = [version |-> v, kind |-> kind, by |-> u, valid |-> TRUE,
                                  serial |-> Cardinality(same) + 1]
  BY DEF Signature
<1>4. Signature(d, v, kind, u) \in SignatureRecord
  BY <1>2, <1>3 DEF SignatureRecord
<1>5. sigs' \in [Docs -> SUBSET SignatureRecord]
  BY <1>4 DEF SignatureInv
<1>6. SignaturesAreFinite'
  <2>1. IsFiniteSet(sigs[d] \cup {Signature(d, v, kind, u)})
    BY FS_AddElement DEF SignatureInv, SignaturesAreFinite
  <2>. QED
    BY <2>1 DEF SignatureInv, SignaturesAreFinite
<1>7. InitialedOnce'
  <2>1. kind = "INITIAL" => Cardinality(same) = 0
    BY FS_EmptySet DEF NoOtherInitial, Initialed
  <2>2. kind = "INITIAL" => Signature(d, v, kind, u).serial = 1
    <3>. HIDE DEF same
    <3>. QED
      BY <1>2, <1>3, <2>1
  <2>3. Signature(d, v, kind, u).kind = kind
    BY <1>3
  <2>4. sigs \in [Docs -> SUBSET SignatureRecord] /\ InitialedOnce
    BY DEF SignatureInv
  <2>5. ASSUME NEW e \in Docs, NEW g \in sigs'[e], g.kind = "INITIAL"
        PROVE  g.serial = 1
    <3>1. g \in sigs[e] \/ (e = d /\ g = Signature(d, v, kind, u))
      BY <2>4, <2>5
    <3>. QED
      BY <2>2, <2>3, <2>4, <2>5, <3>1 DEF InitialedOnce
  <2>. QED
    BY <2>5 DEF InitialedOnce
<1>. QED
  BY <1>5, <1>6, <1>7 DEF SignatureInv

\* The records of G, those in R revoked.
Marked(G, R) == {IF g \in R THEN [g EXCEPT !.valid = FALSE] ELSE g : g \in G}

\* Revoking signatures changes neither how many there are nor their serials.
LEMMA RevokedSignatures ==
  ASSUME SignatureInv, NEW d \in Docs, NEW R,
         sigs' = [sigs EXCEPT ![d] = Marked(sigs[d], R)]
  PROVE  SignatureInv'
<1>. DEFINE f == [g \in sigs[d] |-> IF g \in R THEN [g EXCEPT !.valid = FALSE] ELSE g]
            T == Marked(sigs[d], R)
<1>1. sigs[d] \in SUBSET SignatureRecord /\ IsFiniteSet(sigs[d])
  BY DEF SignatureInv, SignaturesAreFinite
<1>2. IsFiniteSet(T)
  <2>1. f \in Surjection(sigs[d], T)
    BY DEF Surjection, Marked
  <2>. QED
    BY <1>1, <2>1, FS_Surjection
<1>3. ASSUME NEW h \in T
      PROVE  h \in SignatureRecord /\ (h.kind = "INITIAL" => h.serial = 1)
  <2>1. PICK g \in sigs[d] : h = IF g \in R THEN [g EXCEPT !.valid = FALSE] ELSE g
    BY <1>3 DEF Marked
  <2>2. g \in SignatureRecord /\ (g.kind = "INITIAL" => g.serial = 1)
    BY <1>1 DEF SignatureInv, InitialedOnce
  <2>. QED
    BY <2>1, <2>2 DEF SignatureRecord
<1>4. sigs' = [sigs EXCEPT ![d] = T]
  BY DEF SignatureInv
<1>5. sigs' \in [Docs -> SUBSET SignatureRecord]
  BY <1>3, <1>4 DEF SignatureInv
<1>. HIDE DEF T
<1>6. SignaturesAreFinite'
  BY <1>2, <1>4 DEF SignatureInv, SignaturesAreFinite
<1>7. InitialedOnce'
  BY <1>3, <1>4 DEF SignatureInv, InitialedOnce
<1>. QED
  BY <1>5, <1>6, <1>7 DEF SignatureInv

-----------------------------------------------------------------------------
\* A transaction that writes one workflow row and Document.status, keeps the
\* drafter and ends its request.
LEMMA RowTransaction ==
  ASSUME DocumentInv, NEW s \in Slots, NEW d \in Docs, NEW st,
         wf' = [wf EXCEPT ![d] = wf'[d]], RowIsSound(d), wf'[d].drafter = wf[d].drafter,
         SyncAdmin(d, st), Answer(s), RowOnly
  PROVE  DocumentInv'
<1>1. RowInv'
  BY Sorted, OneRow DEF RowOnly
<1>2. RequestInv'
  <2>1. \A e \in Docs : wf[e].status # "NONE" =>
            wf'[e].status # "NONE" /\ wf'[e].drafter = wf[e].drafter
    BY Sorted DEF RowIsSound, RowInv
  <2>. QED
    BY <2>1, Sorted, RequestEnds
<1>3. AdminInv'
  BY Sorted, AdminKept
<1>4. SignatureInv' /\ RegisterInv' /\ RowsInv'
  BY Sorted, UnchangedParts DEF RowOnly
<1>. QED
  BY <1>1, <1>2, <1>3, <1>4, SortedNext

\* What a running request knows about the row of its document.
LEMMA RequestKnows ==
  ASSUME DocumentInv, NEW s \in Slots, req[s] # None
  PROVE  /\ req[s] \in Request /\ req[s].doc \in Docs
         /\ wf[req[s].doc] \in Row /\ wf[req[s].doc].status # "NONE"
         /\ req[s].cmd \in Personal => req[s].user \in Users
         /\ req[s].cmd = "approve" => req[s].user \in Leaders \ {wf[req[s].doc].drafter}
         /\ req[s].cmd = "receive" => req[s].about \in Units
         /\ req[s].cmd \in {"issue", "issue-checked"} => req[s].about \in Docs \cup {None}
         /\ req[s].cmd \in {"revise", "reset"} => req[s].version < MaxVersion
BY DEF DocumentInv, TypeOK, RequestsAreChecked, Request

\* What DocumentInv says of one row, in this state.
LEMMA RowKnows ==
  ASSUME DocumentInv, NEW d \in Docs
  PROVE  /\ wf \in [Docs -> Row] /\ wf[d] \in Row
         /\ wf[d].status = "NONE" => ~wf[d].approved /\ wf[d].number = 0
         /\ wf[d].status \in {"DRAFT", "CONTENT_REVIEW"} => ~wf[d].approved
         /\ wf[d].approved => wf[d].reviewer \in Leaders \ {wf[d].drafter}
         /\ wf[d].number # 0 => wf[d].signer # None
         /\ wf[d].status = "RECALLED" => \A n \in Units : rows[d][n] # "received"
BY DEF DocumentInv, TypeOK, UndraftedIsBlank, PendingIsUndecided, ReviewedByAnother,
   NumberedIsSigned, RecalledIsUnreceived

\* The transactions of the review and of the format check.
LEMMA ReviewSteps ==
  ASSUME DocumentInv, NEW s \in Slots,
         \/ SubmitContentReview(s) \/ WithdrawContentReview(s)
         \/ ApproveContent(s) \/ RejectContent(s)
         \/ SubmitFormatCheck(s) \/ ApproveFormat(s)
  PROVE  DocumentInv'
<1>. DEFINE d == req[s].doc
<1>1. req[s] # None
  BY DEF SubmitContentReview, WithdrawContentReview, ApproveContent, RejectContent,
     SubmitFormatCheck, ApproveFormat, Running
<1>2. /\ d \in Docs /\ wf \in [Docs -> Row] /\ wf[d] \in Row /\ wf[d].status # "NONE"
  BY <1>1, RequestKnows, RowKnows
<1>3. CASE SubmitContentReview(s)
  <2>1. PICK reviewer \in ReviewersOf(d) :
          wf' = [wf EXCEPT ![d].status = "CONTENT_REVIEW", ![d].reviewer = reviewer]
    BY <1>3 DEF SubmitContentReview
  <2>2. wf' = [wf EXCEPT ![d] = wf'[d]] /\
        wf'[d] = [wf[d] EXCEPT !.status = "CONTENT_REVIEW", !.reviewer = reviewer]
    <3>. HIDE DEF d
    <3>. QED
      BY <1>2, <2>1
  <2>3. reviewer \in Users \cup {None} /\ ~wf[d].approved
    BY <1>2, <1>3, RowKnows, OutgoingAssumption DEF ReviewersOf, SubmitContentReview
  <2>4. wf'[d] \in Row
    BY <1>2, <2>2, <2>3 DEF Row, Status
  <2>5. /\ wf'[d].status = "CONTENT_REVIEW" /\ wf'[d].approved = wf[d].approved
        /\ wf'[d].drafter = wf[d].drafter
        /\ wf'[d].number = wf[d].number /\ wf'[d].signer = wf[d].signer
    BY <1>2, <2>2 DEF Row
  <2>6. RowIsSound(d)
    BY <1>2, <2>3, <2>4, <2>5, RowKnows DEF RowIsSound
  <2>. QED
    BY <1>2, <1>3, <2>2, <2>5, <2>6, RowTransaction DEF SubmitContentReview
<1>4. CASE WithdrawContentReview(s)
  <2>1. wf' = [wf EXCEPT ![d] = wf'[d]] /\ wf'[d] = [wf[d] EXCEPT !.status = "DRAFT", !.reviewer = None]
    BY <1>2, <1>4 DEF WithdrawContentReview
  <2>2. ~wf[d].approved
    BY <1>2, <1>4, RowKnows DEF WithdrawContentReview
  <2>3. RowIsSound(d) /\ wf'[d].drafter = wf[d].drafter
    <3>1. wf'[d] \in Row
      BY <1>2, <2>1 DEF Row, Status
    <3>2. /\ wf'[d].status = "DRAFT" /\ wf'[d].approved = wf[d].approved
          /\ wf'[d].drafter = wf[d].drafter
          /\ wf'[d].number = wf[d].number /\ wf'[d].signer = wf[d].signer
      BY <1>2, <2>1 DEF Row
    <3>. QED
      BY <1>2, <2>2, <3>1, <3>2, RowKnows DEF RowIsSound
  <2>. QED
    BY <1>2, <1>4, <2>1, <2>3, RowTransaction DEF WithdrawContentReview
<1>5. CASE ApproveContent(s)
  <2>1. req[s].user \in Leaders \ {wf[d].drafter}
    BY <1>1, <1>5, RequestKnows DEF ApproveContent, Running
  <2>2. wf' = [wf EXCEPT ![d] = wf'[d]] /\
        wf'[d] = [wf[d] EXCEPT !.status = "FORMAT_CHECK", !.approved = TRUE,
                               !.reviewer = req[s].user]
    BY <1>2, <1>5 DEF ApproveContent
  <2>3. wf'[d] \in Row
    BY <1>2, <2>1, <2>2, OutgoingAssumption DEF Row, Status
  <2>4. /\ wf'[d].status = "FORMAT_CHECK" /\ wf'[d].reviewer = req[s].user
        /\ wf'[d].drafter = wf[d].drafter
        /\ wf'[d].number = wf[d].number /\ wf'[d].signer = wf[d].signer
    BY <1>2, <2>2 DEF Row
  <2>5. RowIsSound(d)
    BY <1>2, <2>1, <2>3, <2>4, RowKnows DEF RowIsSound
  <2>. QED
    BY <1>2, <1>5, <2>2, <2>4, <2>5, RowTransaction DEF ApproveContent
<1>6. CASE RejectContent(s)
  <2>1. wf' = [wf EXCEPT ![d] = wf'[d]] /\ wf'[d] = [wf[d] EXCEPT !.status = "DRAFT"]
    BY <1>2, <1>6 DEF RejectContent
  <2>2. ~wf[d].approved
    BY <1>2, <1>6, RowKnows DEF RejectContent
  <2>3. RowIsSound(d) /\ wf'[d].drafter = wf[d].drafter
    <3>1. wf'[d] \in Row
      BY <1>2, <2>1 DEF Row, Status
    <3>2. /\ wf'[d].status = "DRAFT" /\ wf'[d].approved = wf[d].approved
          /\ wf'[d].drafter = wf[d].drafter
          /\ wf'[d].number = wf[d].number /\ wf'[d].signer = wf[d].signer
      BY <1>2, <2>1 DEF Row
    <3>. QED
      BY <1>2, <2>2, <3>1, <3>2, RowKnows DEF RowIsSound
  <2>. QED
    BY <1>2, <1>6, <2>1, <2>3, RowTransaction DEF RejectContent
<1>7. CASE SubmitFormatCheck(s)
  <2>1. PICK reviewer \in Users \cup {None} :
          wf' = [wf EXCEPT ![d].status = "FORMAT_CHECK",
                           ![d].formatReviewer = IF reviewer = None THEN @ ELSE reviewer]
    BY <1>7 DEF SubmitFormatCheck
  <2>. DEFINE checker == IF reviewer = None THEN wf[d].formatReviewer ELSE reviewer
  <2>2. wf' = [wf EXCEPT ![d] = wf'[d]] /\
        wf'[d] = [wf[d] EXCEPT !.status = "FORMAT_CHECK", !.formatReviewer = checker]
    <3>. HIDE DEF d
    <3>. QED
      BY <1>2, <2>1
  <2>3. checker \in Users \cup {None}
    BY <1>2 DEF Row
  <2>. HIDE DEF checker
  <2>4. wf'[d] \in Row
    BY <1>2, <2>2, <2>3 DEF Row, Status
  <2>5. /\ wf'[d].status = "FORMAT_CHECK" /\ wf'[d].approved = wf[d].approved
        /\ wf'[d].drafter = wf[d].drafter /\ wf'[d].reviewer = wf[d].reviewer
        /\ wf'[d].number = wf[d].number /\ wf'[d].signer = wf[d].signer
    BY <1>2, <2>2 DEF Row
  <2>6. RowIsSound(d)
    BY <1>2, <2>4, <2>5, RowKnows DEF RowIsSound
  <2>. QED
    BY <1>2, <1>7, <2>2, <2>5, <2>6, RowTransaction DEF SubmitFormatCheck
<1>8. CASE ApproveFormat(s)
  <2>1. req[s].user \in Users
    BY <1>1, <1>8, RequestKnows DEF ApproveFormat, Running, Personal
  <2>2. wf' = [wf EXCEPT ![d] = wf'[d]] /\
        wf'[d] = [wf[d] EXCEPT !.status = "AUTHORIZED_SIGN", !.formatReviewer = req[s].user]
    BY <1>2, <1>8 DEF ApproveFormat
  <2>3. wf'[d] \in Row
    BY <1>2, <2>1, <2>2 DEF Row, Status
  <2>4. /\ wf'[d].status = "AUTHORIZED_SIGN" /\ wf'[d].approved = wf[d].approved
        /\ wf'[d].drafter = wf[d].drafter /\ wf'[d].reviewer = wf[d].reviewer
        /\ wf'[d].number = wf[d].number /\ wf'[d].signer = wf[d].signer
    BY <1>2, <2>2 DEF Row
  <2>5. RowIsSound(d)
    BY <1>2, <2>3, <2>4, RowKnows DEF RowIsSound
  <2>. QED
    BY <1>2, <1>8, <2>2, <2>4, <2>5, RowTransaction DEF ApproveFormat
<1>. QED
  BY <1>3, <1>4, <1>5, <1>6, <1>7, <1>8

\* Delivery and filing, which update by id, and the recall, which looks at the
\* receipts again under the lock of the row it claimed.
LEMMA IssuedSteps ==
  ASSUME DocumentInv, NEW s \in Slots,
         DeliverDocument(s) \/ FileOutgoingDocument(s) \/ RecallOutgoing(s)
  PROVE  DocumentInv'
<1>. DEFINE d == req[s].doc
<1>1. req[s] # None
  BY DEF DeliverDocument, FileOutgoingDocument, RecallOutgoing, Running
<1>2. /\ d \in Docs /\ wf \in [Docs -> Row] /\ wf[d] \in Row /\ wf[d].status # "NONE"
  BY <1>1, RequestKnows, RowKnows
<1>3. CASE DeliverDocument(s)
  <2>1. wf' = [wf EXCEPT ![d] = wf'[d]] /\ wf'[d] = [wf[d] EXCEPT !.status = "DELIVERED"]
    BY <1>2, <1>3 DEF DeliverDocument
  <2>2. RowIsSound(d) /\ wf'[d].drafter = wf[d].drafter
    BY <1>2, <2>1, RowKnows DEF RowIsSound, Row, Status, Issued
  <2>. QED
    BY <1>2, <1>3, <2>1, <2>2, RowTransaction DEF DeliverDocument
<1>4. CASE FileOutgoingDocument(s)
  <2>1. wf' = [wf EXCEPT ![d] = wf'[d]] /\ wf'[d] = [wf[d] EXCEPT !.status = "FILED"]
    BY <1>2, <1>4 DEF FileOutgoingDocument
  <2>2. RowIsSound(d) /\ wf'[d].drafter = wf[d].drafter
    BY <1>2, <2>1, RowKnows DEF RowIsSound, Row, Status
  <2>. QED
    BY <1>2, <1>4, <2>1, <2>2, RowTransaction DEF FileOutgoingDocument
<1>5. CASE RecallOutgoing(s)
  <2>1. wf' = [wf EXCEPT ![d] = wf'[d]] /\ wf'[d] = [wf[d] EXCEPT !.status = "RECALLED"]
    BY <1>2, <1>5 DEF RecallOutgoing
  <2>2. \A n \in Units : rows'[d][n] # "received"
    BY <1>5 DEF RecallOutgoing, RowOnly
  <2>3. RowIsSound(d) /\ wf'[d].drafter = wf[d].drafter
    BY <1>2, <2>1, <2>2, RowKnows DEF RowIsSound, Row, Status
  <2>. QED
    BY <1>2, <1>5, <2>1, <2>3, RowTransaction DEF RecallOutgoing
<1>. QED
  BY <1>3, <1>4, <1>5

\* The three transactions that add a signature record.
LEMMA SignatureSteps ==
  ASSUME DocumentInv, NEW s \in Slots,
         InitialSign(s) \/ SignDocument(s) \/ OrganizationSign(s)
  PROVE  DocumentInv'
<1>. DEFINE d == req[s].doc
<1>1. req[s] # None /\ req[s].cmd \in Personal
  BY DEF InitialSign, SignDocument, OrganizationSign, Running, Personal
<1>2. /\ d \in Docs /\ wf \in [Docs -> Row] /\ wf[d] \in Row /\ wf[d].status # "NONE"
      /\ req[s].version \in Versions /\ req[s].user \in Users
  BY <1>1, RequestKnows, RowKnows DEF Request
<1>3. SignatureInv'
  <2>1. CASE InitialSign(s)
    <3>1. /\ sigs' = [sigs EXCEPT ![d] =
                        @ \cup {Signature(d, req[s].version, "INITIAL", req[s].user)}]
          /\ NoOtherInitial(d, req[s].version, "INITIAL", req[s].user)
      BY <2>1 DEF InitialSign, NoOtherInitial
    <3>2. SignatureInv /\ "INITIAL" \in Kind
      BY Sorted DEF Kind
    <3>. HIDE DEF d
    <3>. QED
      BY <1>2, <3>1, <3>2, NewSignature
  <2>2. CASE SignDocument(s)
    BY <1>2, <2>2, Sorted, NewSignature DEF SignDocument, Kind, NoOtherInitial
  <2>3. CASE OrganizationSign(s)
    BY <1>2, <2>3, Sorted, NewSignature DEF OrganizationSign, Kind, NoOtherInitial
  <2>. QED
    BY <2>1, <2>2, <2>3
<1>4. RegisterInv' /\ RowsInv' /\ UNCHANGED rows /\ Answer(s)
  BY Sorted, UnchangedParts DEF InitialSign, SignDocument, OrganizationSign
<1>5. AdminInv'
  BY <1>2, Sorted, AdminKept, UnchangedParts DEF InitialSign, SignDocument, OrganizationSign
<1>6. CASE InitialSign(s)
  <2>1. UNCHANGED wf
    BY <1>6 DEF InitialSign
  <2>2. RowInv'
    BY <1>4, <2>1, Sorted DEF RowInv, UndraftedIsBlank, RecalledIsUnreceived,
       PendingIsUndecided, ReviewedByAnother, NumberedIsSigned
  <2>3. RequestInv'
    BY <1>4, <2>1, Sorted, RequestEnds
  <2>. QED
    BY <1>3, <1>4, <1>5, <2>2, <2>3, SortedNext
<1>7. ASSUME wf' = [wf EXCEPT ![d] = wf'[d]], RowIsSound(d), wf'[d].drafter = wf[d].drafter
      PROVE  DocumentInv'
  <2>1. RowInv'
    BY <1>2, <1>4, <1>7, Sorted, OneRow
  <2>2. \A e \in Docs : wf[e].status # "NONE" =>
           wf'[e].status # "NONE" /\ wf'[e].drafter = wf[e].drafter
    BY <1>2, <1>7 DEF RowIsSound
  <2>3. RequestInv'
    BY <1>4, <2>2, Sorted, RequestEnds
  <2>. QED
    BY <1>3, <1>4, <1>5, <2>1, <2>3, SortedNext
<1>8. CASE SignDocument(s)
  <2>1. wf' = [wf EXCEPT ![d] = wf'[d]] /\ wf'[d] = [wf[d] EXCEPT !.signer = req[s].user]
    BY <1>2, <1>8 DEF SignDocument
  <2>2. UNCHANGED rows /\ req[s].user # None
    BY <1>2, <1>4, OutgoingAssumption
  <2>3. wf'[d] \in Row
    BY <1>2, <2>1 DEF Row
  <2>4. /\ wf'[d].status = wf[d].status /\ wf'[d].approved = wf[d].approved
        /\ wf'[d].drafter = wf[d].drafter /\ wf'[d].reviewer = wf[d].reviewer
        /\ wf'[d].signer = req[s].user
    BY <1>2, <2>1 DEF Row
  <2>5. RowIsSound(d)
    BY <1>2, <2>2, <2>3, <2>4, RowKnows DEF RowIsSound
  <2>. QED
    BY <1>7, <2>1, <2>4, <2>5
<1>9. CASE OrganizationSign(s)
  <2>1. /\ wf' = [wf EXCEPT ![d] = wf'[d]]
        /\ wf'[d] = [wf[d] EXCEPT !.status = "ORGANIZATION_SIGNED", !.orgSigner = req[s].user]
    BY <1>2, <1>9 DEF OrganizationSign
  <2>2. wf'[d] \in Row
    BY <1>2, <2>1 DEF Row, Status
  <2>3. /\ wf'[d].status = "ORGANIZATION_SIGNED" /\ wf'[d].approved = wf[d].approved
        /\ wf'[d].drafter = wf[d].drafter /\ wf'[d].reviewer = wf[d].reviewer
        /\ wf'[d].number = wf[d].number /\ wf'[d].signer = wf[d].signer
    BY <1>2, <2>1 DEF Row
  <2>4. RowIsSound(d)
    BY <1>2, <2>2, <2>3, RowKnows DEF RowIsSound
  <2>. QED
    BY <1>7, <2>1, <2>3, <2>4
<1>. QED
  BY <1>6, <1>8, <1>9

\* Unreceived and issued, the document takes a receipt; the row itself stays.
LEMMA ReceiptStep ==
  ASSUME DocumentInv, NEW s \in Slots, ConfirmReceipt(s)
  PROVE  DocumentInv'
<1>. DEFINE d == req[s].doc
            n == req[s].about
<1>1. req[s] # None /\ d \in Docs /\ n \in Units
  BY RequestKnows DEF ConfirmReceipt, Running
<1>2. /\ rows' = [rows EXCEPT ![d][n] = "received"] /\ wf[d].status \in Issued
      /\ UNCHANGED <<wf, admin, reg, lastNumber, sigs, used>> /\ Answer(s)
  BY DEF ConfirmReceipt
<1>3. RowsInv'
  BY <1>1, <1>2, Sorted DEF RowsInv
<1>4. \A e \in Docs : e # d => rows'[e] = rows[e]
  BY <1>1, <1>2, Sorted DEF RowsInv
<1>5. RowInv'
  BY <1>2, <1>4, Sorted DEF RowInv, UndraftedIsBlank, RecalledIsUnreceived,
     PendingIsUndecided, ReviewedByAnother, NumberedIsSigned, Issued
<1>6. RequestInv'
  BY <1>2, Sorted, RequestEnds
<1>7. SignatureInv' /\ RegisterInv' /\ AdminInv'
  BY <1>2, Sorted, UnchangedParts
<1>. QED
  BY <1>3, <1>5, <1>6, <1>7, SortedNext

\* The number given is larger than the sequence and than every number that a
\* document carries.
LEMMA NumberStep ==
  ASSUME DocumentInv, NEW s \in Slots, AssignOutgoingNumber(s)
  PROVE  /\ DocumentInv'
         /\ \A e \in Docs : wf'[e].number # wf[e].number => wf'[e].number \notin used
         /\ Register!Give
<1>. DEFINE d == req[s].doc
<1>1. /\ req[s] # None /\ d \in Docs /\ req[s].user \in Users
      /\ wf \in [Docs -> Row] /\ wf[d] \in Row /\ wf[d].status # "NONE"
  BY RequestKnows, RowKnows DEF AssignOutgoingNumber, Running, Personal
<1>2. PICK largest \in {0} \cup {reg[e] : e \in Docs} :
        /\ LargestNumber(largest)
        /\ wf' = [wf EXCEPT ![d].status = "NUMBERED", ![d].numberer = req[s].user,
                            ![d].number = NextNumber(largest)]
        /\ lastNumber' = NextNumber(largest)
        /\ reg' = [reg EXCEPT ![d] = NextNumber(largest)]
        /\ used' = used \cup {NextNumber(largest)}
  BY DEF AssignOutgoingNumber
<1>. DEFINE n == NextNumber(largest)
<1>3. n \in Nat /\ n > lastNumber /\ n > largest
  BY <1>2, Sorted DEF NextNumber, RegisterInv
<1>. HIDE DEF n, d
<1>16. Register!Give
  BY <1>2, <1>3 DEF Register!Give, n
<1>4. n \notin used
  BY <1>3, Sorted DEF RegisterInv, RegisterIsAhead
<1>5. RegisterInv'
  <2>1. reg' \in [Docs -> Nat] /\ lastNumber' \in Nat /\ used' \subseteq Nat
    BY <1>2, <1>3, Sorted DEF RegisterInv, n
  <2>2. \A e \in Docs : reg'[e] <= lastNumber'
    BY <1>1, <1>2, <1>3, Sorted DEF RegisterInv, RegisterIsAhead, n
  <2>3. \A k \in used' : k <= lastNumber'
    BY <1>2, <1>3, Sorted DEF RegisterInv, RegisterIsAhead, n
  <2>. QED
    BY <2>1, <2>2, <2>3 DEF RegisterInv, RegisterIsAhead
<1>6. /\ wf' = [wf EXCEPT ![d] = wf'[d]]
      /\ wf'[d] = [wf[d] EXCEPT !.status = "NUMBERED", !.numberer = req[s].user, !.number = n]
  BY <1>1, <1>2 DEF n
<1>7. wf'[d] \in Row
  BY <1>1, <1>3, <1>6 DEF Row, Status
<1>8. /\ wf'[d].status = "NUMBERED" /\ wf'[d].approved = wf[d].approved
      /\ wf'[d].drafter = wf[d].drafter /\ wf'[d].reviewer = wf[d].reviewer
      /\ wf'[d].number = n /\ wf'[d].signer = wf[d].signer
  BY <1>1, <1>6 DEF Row
<1>9. UNCHANGED <<sigs, rows>> /\ Answer(s) /\ SyncAdmin(d, "NUMBERED") /\ wf[d].signer # None
  BY DEF AssignOutgoingNumber, d
<1>10. RowIsSound(d)
  BY <1>1, <1>7, <1>8, <1>9, RowKnows DEF RowIsSound
<1>11. RowInv'
  BY <1>1, <1>6, <1>9, <1>10, Sorted, OneRow
<1>12. \A e \in Docs : e # d => wf'[e] = wf[e]
  BY <1>1, <1>6
<1>13. RequestInv'
  BY <1>1, <1>8, <1>9, <1>12, Sorted, RequestEnds
<1>14. SignatureInv' /\ RowsInv' /\ AdminInv'
  BY <1>1, <1>9, Sorted, UnchangedParts, AdminKept
<1>15. DocumentInv'
  BY <1>5, <1>11, <1>13, <1>14, SortedNext
<1>. QED
  BY <1>4, <1>8, <1>12, <1>15, <1>16

\* A step that leaves everything but the requests alone.
LEMMA RequestStep ==
  ASSUME DocumentInv, RequestInv', UNCHANGED <<wf, admin, reg, lastNumber, sigs, rows, used>>
  PROVE  DocumentInv'
<1>1. RowInv'
  BY Sorted DEF RowInv, UndraftedIsBlank, RecalledIsUnreceived, PendingIsUndecided,
     ReviewedByAnother, NumberedIsSigned
<1>2. SignatureInv' /\ RegisterInv' /\ AdminInv' /\ RowsInv'
  BY Sorted, UnchangedParts
<1>. QED
  BY <1>1, <1>2, SortedNext

\* What a command has checked on its first read is what RequestsAreChecked says.
LEMMA ReceiveStep ==
  ASSUME DocumentInv, NEW s \in Slots, NEW cmd \in Commands, NEW u \in Users, NEW d \in Docs,
         Receive(s, cmd, u, d)
  PROVE  DocumentInv'
<1>1. PICK about \in About(cmd) :
        /\ Accepts(cmd, u, d, about)
        /\ req' = [req EXCEPT ![s] =
                     [cmd |-> cmd, user |-> IF cmd \in Personal THEN u ELSE None,
                      doc |-> d, version |-> IF cmd \in Versioned THEN wf[d].version ELSE 1,
                      about |-> about, revoked |-> {}]]
  BY DEF Receive
<1>. DEFINE user == IF cmd \in Personal THEN u ELSE None
            version == IF cmd \in Versioned THEN wf[d].version ELSE 1
            new == [cmd |-> cmd, user |-> user, doc |-> d, version |-> version,
                    about |-> about, revoked |-> {}]
<1>2. /\ wf[d] \in Row /\ wf[d].status # "NONE" /\ cmd \in Cmd \ {"issue-checked", "reset"}
      /\ UNCHANGED <<wf, admin, reg, lastNumber, sigs, rows, used>>
  BY RowKnows, OutgoingAssumption DEF Receive
<1>3. /\ about \in Units \cup Docs \cup {None}
      /\ cmd = "receive" => about \in Units
      /\ cmd = "issue" => about \in Docs \cup {None}
  BY <1>1 DEF About
<1>4. user \in Users \cup {None} /\ (cmd \in Personal => user \in Users)
  OBVIOUS
<1>5. version \in Versions
  BY <1>2, OutgoingAssumption DEF Row, Versions
<1>6. cmd = "approve" => user \in Leaders \ {wf[d].drafter}
  BY <1>1 DEF Accepts, Personal
<1>7. cmd = "revise" => version < MaxVersion
  BY <1>1 DEF Accepts, Versioned
<1>. HIDE DEF user, version
<1>8. new \in Request
  BY <1>2, <1>3, <1>4, <1>5 DEF Request
<1>9. req' = [req EXCEPT ![s] = new]
  BY <1>1 DEF user, version
<1>10. req' \in [Slots -> Request \cup {None}]
  BY <1>8, <1>9, Sorted DEF RequestInv
<1>11. RequestsAreChecked'
  <2>. SUFFICES ASSUME NEW t \in Slots, req'[t] # None
                PROVE  /\ wf[req'[t].doc].status # "NONE"
                       /\ req'[t].cmd \in Personal => req'[t].user \in Users
                       /\ req'[t].cmd = "approve" =>
                            req'[t].user \in Leaders \ {wf[req'[t].doc].drafter}
                       /\ req'[t].cmd = "receive" => req'[t].about \in Units
                       /\ req'[t].cmd \in {"issue", "issue-checked"} =>
                            req'[t].about \in Docs \cup {None}
                       /\ req'[t].cmd \in {"revise", "reset"} => req'[t].version < MaxVersion
    BY <1>2 DEF RequestsAreChecked
  <2>1. CASE t = s
    <3>1. req'[t] = new
      BY <1>9, <2>1, Sorted DEF RequestInv
    <3>. QED
      BY <1>2, <1>3, <1>4, <1>6, <1>7, <3>1
  <2>2. CASE t # s
    <3>1. req'[t] = req[t]
      BY <1>9, <2>2, Sorted DEF RequestInv
    <3>. QED
      BY <3>1, RequestKnows
  <2>. QED
    BY <2>1, <2>2
<1>. QED
  BY <1>2, <1>10, <1>11, RequestStep DEF RequestInv

\* The read-only first statements: the check of a replacement, and the set of
\* signatures a revision is about to revoke.
LEMMA FirstStatements ==
  ASSUME DocumentInv, NEW s \in Slots, CheckReplacement(s) \/ RevokeSignatures(s)
  PROVE  DocumentInv'
<1>. DEFINE d == req[s].doc
<1>1. req[s] # None /\ UNCHANGED <<wf, admin, reg, lastNumber, sigs, rows, used>>
  BY DEF CheckReplacement, RevokeSignatures, Running
<1>2. req[s] \in Request /\ sigs[d] \subseteq SignatureRecord
  BY <1>1, RequestKnows, Sorted DEF SignatureInv
<1>3. PICK cmd \in {"issue-checked", "reset"}, R \in SUBSET SignatureRecord :
        /\ req' = [req EXCEPT ![s] = [req[s] EXCEPT !.cmd = cmd, !.revoked = R]]
        /\ cmd = "issue-checked" => req[s].cmd = "issue"
        /\ cmd = "reset" => req[s].cmd = "revise"
  <2>1. CASE CheckReplacement(s)
    <3>1. req' = [req EXCEPT ![s] = [req[s] EXCEPT !.cmd = "issue-checked",
                                                   !.revoked = req[s].revoked]]
      BY <1>2, <2>1, Sorted DEF CheckReplacement, Request, RequestInv
    <3>. QED
      BY <1>2, <2>1, <3>1 DEF CheckReplacement, Running, Request
  <2>2. CASE RevokeSignatures(s)
    <3>1. req' = [req EXCEPT ![s] = [req[s] EXCEPT !.cmd = "reset",
                    !.revoked = SignaturesOf(d, req[s].version)]]
      BY <2>2 DEF RevokeSignatures
    <3>2. SignaturesOf(d, req[s].version) \in SUBSET SignatureRecord
      BY <1>2 DEF SignaturesOf
    <3>. QED
      BY <2>2, <3>1, <3>2 DEF RevokeSignatures, Running
  <2>. QED
    BY <2>1, <2>2
<1>. DEFINE new == [req[s] EXCEPT !.cmd = cmd, !.revoked = R]
<1>4. /\ new \in Request /\ new.cmd = cmd /\ new.doc = d
      /\ new.about = req[s].about /\ new.version = req[s].version
  BY <1>2, <1>3 DEF Request, Cmd
<1>5. req' = [req EXCEPT ![s] = new]
  BY <1>3
<1>. HIDE DEF new
<1>6. req' \in [Slots -> Request \cup {None}]
  BY <1>4, <1>5, Sorted DEF RequestInv
<1>7. ASSUME NEW t \in Slots, t # s
      PROVE  req'[t] = req[t]
  BY <1>5, <1>7, Sorted DEF RequestInv
<1>8. req'[s] = new
  BY <1>5, Sorted DEF RequestInv
<1>9. /\ wf[new.doc].status # "NONE" /\ new.cmd \notin Personal \cup {"approve", "receive"}
      /\ new.cmd \in {"issue", "issue-checked"} => new.about \in Docs \cup {None}
      /\ new.cmd \in {"revise", "reset"} => new.version < MaxVersion
  BY <1>1, <1>3, <1>4, RequestKnows DEF Personal
<1>10. RequestsAreChecked'
  BY <1>1, <1>7, <1>8, <1>9, RequestKnows DEF RequestsAreChecked
<1>. QED
  BY <1>1, <1>6, <1>10, RequestStep DEF RequestInv

\* Issuing writes the row and may replace the recipients, dropping the
\* confirmations that remember an old one.
LEMMA IssueStep ==
  ASSUME DocumentInv, NEW s \in Slots, IssueDocument(s)
  PROVE  DocumentInv'
<1>. DEFINE d == req[s].doc
            target == IF req[s].about = None THEN wf[d].replaces ELSE req[s].about
<1>1. /\ req[s] # None /\ d \in Docs /\ req[s].about \in Docs \cup {None}
      /\ wf \in [Docs -> Row] /\ wf[d] \in Row /\ wf[d].status # "NONE"
  BY RequestKnows, RowKnows DEF IssueDocument, Running
<1>2. PICK recipients \in SUBSET Units :
        IF recipients = {}
          THEN Answer(s) /\ UNCHANGED rows
          ELSE /\ rows' = [rows EXCEPT ![d] =
                             [n \in Units |-> IF n \in recipients THEN "sent" ELSE "none"]]
               /\ req' = [t \in Slots |-> IF t = s \/ (Running(t, "receive") /\ req[t].doc = d)
                                            THEN None ELSE req[t]]
  BY DEF IssueDocument
<1>3. /\ SyncAdmin(d, "ISSUED") /\ UNCHANGED <<reg, lastNumber, sigs, used>>
      /\ wf' = [wf EXCEPT ![d] = wf'[d]]
      /\ wf'[d] = [wf[d] EXCEPT !.status = "ISSUED", !.replaces = target]
  BY <1>1 DEF IssueDocument
<1>4. target \in Docs \cup {None}
  BY <1>1 DEF Row
<1>. HIDE DEF target
<1>5. wf'[d] \in Row
  BY <1>1, <1>3, <1>4 DEF Row, Status, Issued
<1>6. /\ wf'[d].status = "ISSUED" /\ wf'[d].approved = wf[d].approved
      /\ wf'[d].drafter = wf[d].drafter /\ wf'[d].reviewer = wf[d].reviewer
      /\ wf'[d].number = wf[d].number /\ wf'[d].signer = wf[d].signer
  BY <1>1, <1>3 DEF Row
<1>7. RowIsSound(d)
  BY <1>1, <1>5, <1>6, RowKnows DEF RowIsSound
<1>8. RowsInv' /\ \A e \in Docs : e # d => rows'[e] = rows[e]
  BY <1>1, <1>2, Sorted DEF RowsInv
<1>9. RowInv'
  BY <1>1, <1>3, <1>7, <1>8, Sorted, OneRow
<1>10. RequestInv'
  <2>1. /\ req' \in [Slots -> Request \cup {None}]
        /\ \A t \in Slots : req'[t] \in {req[t], None}
    BY <1>2, Sorted DEF RequestInv, Answer
  <2>2. \A e \in Docs : wf[e].status # "NONE" =>
          wf'[e].status # "NONE" /\ wf'[e].drafter = wf[e].drafter
    BY <1>1, <1>3, <1>6
  <2>. QED
    BY <2>1, <2>2, Sorted, RequestsEnd
<1>11. AdminInv' /\ SignatureInv' /\ RegisterInv'
  BY <1>1, <1>3, Sorted, AdminKept, UnchangedParts
<1>. QED
  BY <1>8, <1>9, <1>10, <1>11, SortedNext

\* A row that no step has touched is a row.
LEMMA BlankRowIsRow == BlankRow \in Row
BY OutgoingAssumption DEF BlankRow, Row, Status, Versions

\* So is the row a revision restarts from.
LEMMA RestartedRowIsRow ==
  ASSUME NEW v \in Versions, NEW u \in Users \cup {None}, NEW t \in Docs \cup {None}
  PROVE  [BlankRow EXCEPT !.status = "DRAFT", !.version = v, !.drafter = u,
                          !.replaces = t] \in Row
<1>1. [BlankRow EXCEPT !.status = "DRAFT"] \in Row
  BY BlankRowIsRow DEF Row, Status
<1>2. [BlankRow EXCEPT !.status = "DRAFT", !.version = v] \in Row
  BY <1>1 DEF Row
<1>3. [BlankRow EXCEPT !.status = "DRAFT", !.version = v, !.drafter = u] \in Row
  BY <1>2 DEF Row
<1>. QED
  BY <1>3 DEF Row

\* A revision starts from a blank row; it keeps the drafter, the recipients and
\* every signature record.
LEMMA RevisionStep ==
  ASSUME DocumentInv, NEW s \in Slots, CreateDocumentRevision(s)
  PROVE  DocumentInv'
<1>. DEFINE d == req[s].doc
<1>1. /\ req[s] # None /\ d \in Docs /\ req[s].version \in Versions
      /\ req[s].version < MaxVersion
      /\ wf \in [Docs -> Row] /\ wf[d] \in Row /\ wf[d].status # "NONE"
  BY RequestKnows, RowKnows DEF CreateDocumentRevision, Running, Request
<1>2. /\ SyncAdmin(d, "DRAFT") /\ Answer(s) /\ UNCHANGED <<reg, lastNumber, rows, used>>
      /\ wf' = [wf EXCEPT ![d] = wf'[d]]
      /\ wf'[d] = [BlankRow EXCEPT !.status = "DRAFT", !.version = req[s].version + 1,
                                   !.drafter = wf[d].drafter, !.replaces = wf[d].replaces]
  BY <1>1 DEF CreateDocumentRevision
<1>3. req[s].version + 1 \in Versions
  BY <1>1, OutgoingAssumption DEF Versions
<1>4. wf'[d] \in Row
  <2>1. wf[d].drafter \in Users \cup {None} /\ wf[d].replaces \in Docs \cup {None}
    BY <1>1 DEF Row
  <2>2. [BlankRow EXCEPT !.status = "DRAFT", !.version = req[s].version + 1,
                         !.drafter = wf[d].drafter, !.replaces = wf[d].replaces] \in Row
    <3>. HIDE DEF d
    <3>. QED
      BY ONLY <1>3, <2>1, RestartedRowIsRow
  <2>3. wf'[d] = [BlankRow EXCEPT !.status = "DRAFT", !.version = req[s].version + 1,
                    !.drafter = wf[d].drafter, !.replaces = wf[d].replaces]
    BY <1>2
  <2>. QED
    BY ONLY <2>2, <2>3
<1>5. /\ wf'[d].status = "DRAFT" /\ ~wf'[d].approved
      /\ wf'[d].drafter = wf[d].drafter /\ wf'[d].number = 0
  BY <1>2 DEF BlankRow
<1>6. RowIsSound(d)
  BY <1>4, <1>5 DEF RowIsSound
<1>7. RowInv'
  BY <1>1, <1>2, <1>6, Sorted, OneRow
<1>8. RequestInv'
  <2>1. \A e \in Docs : wf[e].status # "NONE" =>
          wf'[e].status # "NONE" /\ wf'[e].drafter = wf[e].drafter
    BY <1>1, <1>2, <1>5
  <2>. QED
    BY <1>2, <2>1, Sorted, RequestEnds
<1>9. SignatureInv'
  <2>1. SignatureInv /\ sigs' = [sigs EXCEPT ![d] = Marked(sigs[d], req[s].revoked)]
    BY Sorted DEF CreateDocumentRevision, Marked
  <2>. HIDE DEF d
  <2>. QED
    BY <1>1, <1>2, <2>1, RevokedSignatures
<1>10. AdminInv' /\ RowsInv' /\ RegisterInv'
  BY <1>1, <1>2, Sorted, AdminKept, UnchangedParts
<1>. QED
  BY <1>7, <1>8, <1>9, <1>10, SortedNext

\* A draft is a row that no request knows yet.
LEMMA DraftStep ==
  ASSUME DocumentInv, NEW u \in Drafters, NEW d \in Docs, CreateOutgoingDraft(u, d)
  PROVE  DocumentInv'
<1>1. /\ wf[d].status = "NONE" /\ wf[d] \in Row /\ wf \in [Docs -> Row] /\ u \in Users
      /\ UNCHANGED <<admin, reg, lastNumber, sigs, rows, req, used>>
      /\ wf' = [wf EXCEPT ![d] = wf'[d]]
      /\ wf'[d] = [wf[d] EXCEPT !.status = "DRAFT", !.drafter = u]
  BY RowKnows, OutgoingAssumption DEF CreateOutgoingDraft
<1>2. wf'[d] \in Row
  BY <1>1 DEF Row, Status
<1>3. wf'[d].status = "DRAFT" /\ wf'[d].approved = wf[d].approved /\ wf'[d].number = wf[d].number
  BY <1>1 DEF Row
<1>4. RowIsSound(d)
  BY <1>1, <1>2, <1>3, RowKnows DEF RowIsSound
<1>5. RowInv'
  BY <1>1, <1>4, Sorted, OneRow
<1>6. RequestInv'
  <2>1. req' \in [Slots -> Request \cup {None}] /\ \A t \in Slots : req'[t] \in {req[t], None}
    BY <1>1, Sorted DEF RequestInv
  <2>2. \A e \in Docs : wf[e].status # "NONE" =>
          wf'[e].status # "NONE" /\ wf'[e].drafter = wf[e].drafter
    BY <1>1
  <2>. QED
    BY <2>1, <2>2, Sorted, RequestsEnd
<1>7. SignatureInv' /\ RegisterInv' /\ AdminInv' /\ RowsInv'
  BY <1>1, Sorted, UnchangedParts
<1>. QED
  BY <1>5, <1>6, <1>7, SortedNext

\* A request that fails leaves the rows alone.
LEMMA FailStep ==
  ASSUME DocumentInv, NEW s \in Slots, Fail(s)
  PROVE  DocumentInv'
<1>1. UNCHANGED <<wf, admin, reg, lastNumber, sigs, rows, used>> /\ Answer(s)
  BY DEF Fail, Answer
<1>2. RequestInv'
  BY <1>1, Sorted, RequestEnds
<1>. QED
  BY <1>1, <1>2, RequestStep

-----------------------------------------------------------------------------
\* The invariant holds initially and no step breaks it.
LEMMA Initially == Init => DocumentInv
<1>. SUFFICES ASSUME Init PROVE DocumentInv
  OBVIOUS
<1>1. TypeOK
  BY BlankRowIsRow DEF Init, TypeOK
<1>2. SignaturesAreFinite
  BY FS_EmptySet DEF Init, SignaturesAreFinite
<1>3. RegisterIsAhead
  BY DEF Init, RegisterIsAhead
<1>. QED
  BY <1>1, <1>2, <1>3 DEF Init, DocumentInv, RequestsAreChecked, UndraftedIsBlank, BlankRow,
     RecalledIsUnreceived, PendingIsUndecided, ReviewedByAnother, NumberedIsSigned, InitialedOnce

\* One case per action of Next.
LEMMA EveryStep ==
  ASSUME DocumentInv, [Next]_vars
  PROVE  DocumentInv'
<1>1. ASSUME NEW u \in Drafters, NEW d \in Docs, CreateOutgoingDraft(u, d)
      PROVE  DocumentInv'
  BY <1>1, DraftStep
<1>2. ASSUME NEW s \in Slots, NEW cmd \in Commands, NEW u \in Users, NEW d \in Docs,
             Receive(s, cmd, u, d)
      PROVE  DocumentInv'
  BY <1>2, ReceiveStep
<1>3. ASSUME NEW s \in Slots, Transaction(s)
      PROVE  DocumentInv'
  BY <1>3, ReviewSteps, IssuedSteps, SignatureSteps, ReceiptStep, NumberStep,
     FirstStatements, IssueStep, RevisionStep DEF Transaction
<1>4. ASSUME NEW s \in Slots, Fail(s)
      PROVE  DocumentInv'
  BY <1>4, FailStep
<1>5. CASE UNCHANGED vars
  BY <1>5 DEF vars, DocumentInv, TypeOK, SignaturesAreFinite, RequestsAreChecked,
     UndraftedIsBlank, RegisterIsAhead, RecalledIsUnreceived, PendingIsUndecided,
     ReviewedByAnother, NumberedIsSigned, InitialedOnce
<1>. QED
  BY <1>1, <1>2, <1>3, <1>4, <1>5 DEF Next

\* DocumentInv holds in every state of every behaviour.
THEOREM Invariant == Spec => []DocumentInv
<1>1. Init => DocumentInv
  BY Initially
<1>2. DocumentInv /\ [Next]_vars => DocumentInv'
  BY EveryStep
<1>. QED
  BY <1>1, <1>2, PTL DEF Spec

\* Every row, record and request keeps its type, whatever requests overlap.
THEOREM TypeCorrect == Spec => []TypeOK
<1>1. DocumentInv => TypeOK
  BY DEF DocumentInv
<1>. QED
  BY <1>1, Invariant, PTL

\* Receipt and recall exclude each other: of confirmReceipt and recallOutgoing on
\* one document only one can win, for any number of units and requests.
THEOREM RecallExcludesReceipt == Spec => []RecalledIsUnreceived
<1>1. DocumentInv => RecalledIsUnreceived
  BY DEF DocumentInv
<1>. QED
  BY <1>1, Invariant, PTL

\* A draft or a submission that awaits its reviewer carries no approval, however
\* submit, withdraw, approve, reject and revise race.
THEOREM OneDecisionPerSubmission == Spec => []PendingIsUndecided
<1>1. DocumentInv => PendingIsUndecided
  BY DEF DocumentInv
<1>. QED
  BY <1>1, Invariant, PTL

\* No race makes a drafter the reviewer of an approved content.
THEOREM ReviewSeparation == Spec => []ReviewedByAnother
<1>1. DocumentInv => ReviewedByAnother
  BY DEF DocumentInv
<1>. QED
  BY <1>1, Invariant, PTL

\* A document that carries a number is signed: the claim of assignOutgoingNumber
\* asks for the signer again, and only a revision takes the signature away.
THEOREM SignedBeforeNumbered == Spec => []NumberedIsSigned
<1>1. DocumentInv => NumberedIsSigned
  BY DEF DocumentInv
<1>. QED
  BY <1>1, Invariant, PTL

\* The row lock of initialSignOutgoing is enough: no user initials a version twice.
THEOREM InitialsAreUnique == Spec => []InitialedOnce
<1>1. DocumentInv => InitialedOnce
  BY DEF DocumentInv
<1>. QED
  BY <1>1, Invariant, PTL

\* Only the assignment of a number and the reset of a revision write the number of
\* a row; the reset writes 0 and the assignment a number never given before.
LEMMA NumbersWritten ==
  ASSUME DocumentInv, [Next]_vars, NEW d \in Docs, wf'[d].number \notin {0, wf[d].number}
  PROVE  wf'[d].number \notin used
<1>. USE RowKnows DEF Row
<1>1. ASSUME NEW s \in Slots, AssignOutgoingNumber(s)
      PROVE  wf'[d].number \notin used
  BY <1>1, NumberStep
<1>2. ASSUME NEW s \in Slots, CreateDocumentRevision(s)
      PROVE  FALSE
  BY <1>2 DEF CreateDocumentRevision, BlankRow
<1>3. ASSUME NEW s \in Slots,
             \/ SubmitContentReview(s) \/ WithdrawContentReview(s)
             \/ ApproveContent(s) \/ RejectContent(s)
             \/ SubmitFormatCheck(s) \/ ApproveFormat(s)
      PROVE  FALSE
  <2>1. CASE SubmitContentReview(s)
    BY <2>1 DEF SubmitContentReview
  <2>2. CASE WithdrawContentReview(s)
    BY <2>2 DEF WithdrawContentReview
  <2>5. CASE ApproveContent(s)
    BY <2>5 DEF ApproveContent
  <2>6. CASE RejectContent(s)
    BY <2>6 DEF RejectContent
  <2>3. CASE SubmitFormatCheck(s)
    BY <2>3 DEF SubmitFormatCheck
  <2>4. CASE ApproveFormat(s)
    BY <2>4 DEF ApproveFormat
  <2>. QED
    BY <1>3, <2>1, <2>2, <2>3, <2>4, <2>5, <2>6
<1>4. ASSUME NEW s \in Slots,
             \/ InitialSign(s) \/ SignDocument(s) \/ OrganizationSign(s)
             \/ CheckReplacement(s) \/ RevokeSignatures(s) \/ ConfirmReceipt(s)
      PROVE  FALSE
  <2>1. CASE SignDocument(s)
    BY <2>1 DEF SignDocument
  <2>2. CASE OrganizationSign(s)
    BY <2>2 DEF OrganizationSign
  <2>3. CASE InitialSign(s) \/ CheckReplacement(s) \/ RevokeSignatures(s) \/ ConfirmReceipt(s)
    BY <2>3 DEF InitialSign, CheckReplacement, RevokeSignatures, ConfirmReceipt
  <2>. QED
    BY <1>4, <2>1, <2>2, <2>3
<1>5. ASSUME NEW s \in Slots,
             \/ DeliverDocument(s) \/ FileOutgoingDocument(s)
             \/ RecallOutgoing(s) \/ Fail(s)
      PROVE  FALSE
  <2>1. CASE DeliverDocument(s)
    BY <2>1 DEF DeliverDocument
  <2>2. CASE FileOutgoingDocument(s)
    BY <2>2 DEF FileOutgoingDocument
  <2>3. CASE RecallOutgoing(s)
    BY <2>3 DEF RecallOutgoing
  <2>4. CASE Fail(s)
    BY <2>4 DEF Fail
  <2>. QED
    BY <1>5, <2>1, <2>2, <2>3, <2>4
<1>6. ASSUME NEW u \in Drafters, NEW e \in Docs, CreateOutgoingDraft(u, e)
      PROVE  FALSE
  BY <1>6 DEF CreateOutgoingDraft
<1>7. ASSUME NEW s \in Slots, NEW cmd \in Commands, NEW u \in Users, NEW e \in Docs,
             Receive(s, cmd, u, e)
      PROVE  FALSE
  BY <1>7 DEF Receive
<1>8. ASSUME NEW s \in Slots, IssueDocument(s)
      PROVE  FALSE
  <2>. DEFINE e == req[s].doc
              target == IF req[s].about = None THEN wf[e].replaces ELSE req[s].about
  <2>1. e \in Docs /\ wf[e] \in Row
    BY <1>8, RequestKnows DEF IssueDocument, Running
  <2>2. wf' = [wf EXCEPT ![e] = wf'[e]] /\ wf'[e] = [wf[e] EXCEPT !.status = "ISSUED", !.replaces = target]
    BY <1>8, <2>1 DEF IssueDocument
  <2>. HIDE DEF target, e
  <2>3. wf'[e].number = wf[e].number /\ (d # e => wf'[d] = wf[d])
    BY <2>1, <2>2
  <2>. QED
    BY <2>3
<1>9. CASE UNCHANGED vars
  BY <1>9 DEF vars
<1>. QED
  BY <1>1, <1>2, <1>3, <1>4, <1>5, <1>6, <1>7, <1>8, <1>9 DEF Next, Transaction

\* The register never gives a number twice, although a revision gives its number
\* up and the sequence may lag behind the documents.
THEOREM NumbersAreNeverReused == Spec => NumbersAreFresh
<1>1. DocumentInv /\ [Next]_vars =>
        [\A d \in Docs : wf'[d].number \notin {0, wf[d].number} => wf'[d].number \notin used]_vars
  BY NumbersWritten
<1>. QED
  BY <1>1, Invariant, PTL DEF Spec, NumbersAreFresh

\* Nothing else touches the register: a revision and a recall take no number back.
LEMMA RegisterStep ==
  ASSUME DocumentInv, [Next]_vars
  PROVE  [Register!Next]_(Register!vars)
<1>1. ASSUME NEW s \in Slots, AssignOutgoingNumber(s)
      PROVE  Register!Next
  BY <1>1, NumberStep DEF Register!Next
<1>2. ASSUME NEW s \in Slots, Transaction(s), ~AssignOutgoingNumber(s)
      PROVE  UNCHANGED <<lastNumber, used>>
  BY <1>2 DEF Transaction, RowOnly, SubmitContentReview, WithdrawContentReview, ApproveContent,
     RejectContent, SubmitFormatCheck, ApproveFormat, InitialSign, SignDocument,
     OrganizationSign, CheckReplacement, IssueDocument, DeliverDocument, ConfirmReceipt,
     FileOutgoingDocument, RecallOutgoing, RevokeSignatures, CreateDocumentRevision
<1>3. ASSUME NEW s \in Slots, Fail(s)
      PROVE  UNCHANGED <<lastNumber, used>>
  BY <1>3 DEF Fail
<1>4. ASSUME NEW u \in Drafters, NEW d \in Docs, CreateOutgoingDraft(u, d)
      PROVE  UNCHANGED <<lastNumber, used>>
  BY <1>4 DEF CreateOutgoingDraft
<1>5. ASSUME NEW s \in Slots, NEW cmd \in Commands, NEW u \in Users, NEW d \in Docs,
             Receive(s, cmd, u, d)
      PROVE  UNCHANGED <<lastNumber, used>>
  BY <1>5 DEF Receive
<1>6. CASE UNCHANGED vars
  BY <1>6 DEF vars, Register!vars
<1>. QED
  BY <1>1, <1>2, <1>3, <1>4, <1>5, <1>6 DEF Next, Register!vars

\* Taking the number in one step keeps the promise of NumberRegister, which the
\* engine implements in several.
THEOREM DocumentsImplementRegister == Spec => ImplementsRegister
<1>1. Init => Register!Init
  BY DEF Init, Register!Init
<1>2. DocumentInv /\ [Next]_vars => [Register!Next]_(Register!vars)
  BY RegisterStep
<1>. QED
  BY <1>1, <1>2, Invariant, PTL DEF Spec, ImplementsRegister, Register!Spec

-----------------------------------------------------------------------------
(* What holds while requests about one document do not overlap.            *)

\* A transaction of a request about document d leaves the other documents, and
\* with them what the other requests have read, as they are.
LEMMA OneDocument ==
  ASSUME DocumentInv, OrderlyInv, DocumentsApart,
         NEW s \in Slots, NEW d \in Docs, req[s] # None, req[s].doc = d,
         \A e \in Docs : e # d =>
            wf'[e] = wf[e] /\ sigs'[e] = sigs[e] /\ admin'[e] = admin[e],
         \A t \in Slots : req'[t] \in {req[t], None}, req'[s] = None,
         RowIsOrderly(d)', SignaturesAreOrderly(d)'
  PROVE  OrderlyInv'
<1>1. ASSUME NEW e \in Docs, e # d
      PROVE  RowIsOrderly(e)' /\ SignaturesAreOrderly(e)'
  <2>1. RowIsOrderly(e) /\ SignaturesAreOrderly(e)
    BY DEF OrderlyInv
  <2>. QED
    BY <1>1, <2>1 DEF RowIsOrderly, SignaturesAreOrderly, Carries
<1>2. ASSUME NEW t \in Slots, req'[t] # None
      PROVE  StillAccepted(t)'
  <2>1. req'[t] = req[t] /\ req[t] # None /\ t # s
    BY <1>2
  <2>2. req[t].doc \in Docs /\ req[t].doc # d
    BY <2>1, RequestKnows DEF DocumentsApart
  <2>3. wf'[req[t].doc] = wf[req[t].doc] /\ sigs'[req[t].doc] = sigs[req[t].doc]
    BY <2>2
  <2>4. StillAccepted(t)
    BY <2>1 DEF OrderlyInv
  <2>. QED
    BY <2>1, <2>3, <2>4 DEF StillAccepted, SignaturesOf
<1>. QED
  BY <1>1, <1>2 DEF OrderlyInv

\* The fields of the row that tell its number, its signature and its seal stay.
FieldsStay(d) ==
  /\ wf'[d].version = wf[d].version /\ wf'[d].signer = wf[d].signer
  /\ wf'[d].numberer = wf[d].numberer /\ wf'[d].number = wf[d].number
  /\ wf'[d].orgSigner = wf[d].orgSigner

\* A transaction that only moves the status, and not to NUMBERED; the later
\* statuses need the seal.
LEMMA StatusMoves ==
  ASSUME DocumentInv, OrderlyInv, DocumentsApart,
         NEW s \in Slots, NEW d \in Docs, req[s] # None, req[s].doc = d, NEW st,
         wf' = [wf EXCEPT ![d] = wf'[d]], FieldsStay(d), wf'[d].status = st,
         SyncAdmin(d, st), UNCHANGED sigs,
         \A t \in Slots : req'[t] \in {req[t], None}, req'[s] = None,
         st # "NUMBERED",
         st \in Issued \cup {"ORGANIZATION_SIGNED", "FILED", "RECALLED"} =>
            wf[d].orgSigner # None
  PROVE  OrderlyInv'
<1>1. RowIsOrderly(d) /\ SignaturesAreOrderly(d)
  BY DEF OrderlyInv
<1>2. SignaturesAreOrderly(d)'
  BY <1>1 DEF SignaturesAreOrderly, FieldsStay
<1>3. admin' = [admin EXCEPT ![d] = AdminStatus(st)] /\ DOMAIN admin = Docs
  BY DEF SyncAdmin, DocumentInv, TypeOK
<1>4. admin'[d] = AdminStatus(wf'[d].status)
  BY <1>3
<1>5. \A kind : Carries(d, kind) <=> Carries(d, kind)'
  BY DEF Carries, FieldsStay
<1>6. RowIsOrderly(d)'
  BY <1>1, <1>4, <1>5 DEF RowIsOrderly, FieldsStay
<1>7. \A e \in Docs : e # d =>
         wf'[e] = wf[e] /\ sigs'[e] = sigs[e] /\ admin'[e] = admin[e]
  BY <1>3, RowKnows
<1>. QED
  BY <1>2, <1>6, <1>7, OneDocument

\* What a running request knows about the row of its document when no other
\* request about it is in progress.
LEMMA OrderlyRequest ==
  ASSUME DocumentInv, OrderlyInv, NEW s \in Slots, req[s] # None
  PROVE  /\ req[s] \in Request /\ req[s].doc \in Docs
         /\ wf \in [Docs -> Row] /\ wf[req[s].doc] \in Row
         /\ RowIsOrderly(req[s].doc) /\ SignaturesAreOrderly(req[s].doc)
         /\ StillAccepted(s)
BY RequestKnows, RowKnows DEF OrderlyInv

\* A transaction that answers ends its own request only.
LEMMA OwnAnswer ==
  ASSUME DocumentInv, NEW s \in Slots, Answer(s)
  PROVE  (\A t \in Slots : req'[t] \in {req[t], None}) /\ req'[s] = None
BY Sorted DEF Answer, RequestInv

\* Review, format check, delivery, filing and recall only move the status.
LEMMA OrderlyMoves ==
  ASSUME DocumentInv, OrderlyInv, DocumentsApart, NEW s \in Slots,
         \/ SubmitContentReview(s) \/ WithdrawContentReview(s)
         \/ ApproveContent(s) \/ RejectContent(s)
         \/ SubmitFormatCheck(s) \/ ApproveFormat(s)
         \/ DeliverDocument(s) \/ FileOutgoingDocument(s) \/ RecallOutgoing(s)
  PROVE  OrderlyInv'
<1>1. PICK d \in Docs : d = req[s].doc /\ req[s] # None
  BY RequestKnows DEF SubmitContentReview, WithdrawContentReview, ApproveContent,
     RejectContent, SubmitFormatCheck, ApproveFormat, DeliverDocument,
     FileOutgoingDocument, RecallOutgoing, Running
<1>2. wf \in [Docs -> Row] /\ wf[d] \in Row /\ RowIsOrderly(d) /\ StillAccepted(s)
  BY <1>1, OrderlyRequest
<1>3. UNCHANGED sigs /\ Answer(s)
  BY DEF SubmitContentReview, WithdrawContentReview, ApproveContent, RejectContent,
     SubmitFormatCheck, ApproveFormat, DeliverDocument, FileOutgoingDocument,
     RecallOutgoing, RowOnly
<1>4. (\A t \in Slots : req'[t] \in {req[t], None}) /\ req'[s] = None
  BY <1>3, OwnAnswer
<1>5. ASSUME NEW st, wf' = [wf EXCEPT ![d] = wf'[d]], FieldsStay(d), wf'[d].status = st,
             SyncAdmin(d, st), st # "NUMBERED",
             st \in Issued \cup {"ORGANIZATION_SIGNED", "FILED", "RECALLED"} =>
               wf[d].orgSigner # None
      PROVE  OrderlyInv'
  BY <1>1, <1>3, <1>4, <1>5, StatusMoves
<1>. USE DEF FieldsStay, Row
<1>6. CASE SubmitContentReview(s)
  <2>1. PICK reviewer : wf' = [wf EXCEPT ![d].status = "CONTENT_REVIEW", ![d].reviewer = reviewer]
    BY <1>1, <1>6 DEF SubmitContentReview
  <2>2. wf' = [wf EXCEPT ![d] = wf'[d]] /\ FieldsStay(d) /\ wf'[d].status = "CONTENT_REVIEW"
    BY <1>2, <2>1
  <2>. QED
    BY <1>1, <1>5, <1>6, <2>2 DEF SubmitContentReview, Issued
<1>7. CASE WithdrawContentReview(s)
  <2>1. wf' = [wf EXCEPT ![d] = wf'[d]] /\ FieldsStay(d) /\ wf'[d].status = "DRAFT"
    BY <1>1, <1>2, <1>7 DEF WithdrawContentReview
  <2>. QED
    BY <1>1, <1>5, <1>7, <2>1 DEF WithdrawContentReview, Issued
<1>8. CASE ApproveContent(s)
  <2>1. wf' = [wf EXCEPT ![d] = wf'[d]] /\ FieldsStay(d) /\ wf'[d].status = "FORMAT_CHECK"
    BY <1>1, <1>2, <1>8 DEF ApproveContent
  <2>. QED
    BY <1>1, <1>5, <1>8, <2>1 DEF ApproveContent, Issued
<1>9. CASE RejectContent(s)
  <2>1. wf' = [wf EXCEPT ![d] = wf'[d]] /\ FieldsStay(d) /\ wf'[d].status = "DRAFT"
    BY <1>1, <1>2, <1>9 DEF RejectContent
  <2>. QED
    BY <1>1, <1>5, <1>9, <2>1 DEF RejectContent, Issued
<1>10. CASE SubmitFormatCheck(s)
  <2>1. PICK reviewer :
          wf' = [wf EXCEPT ![d].status = "FORMAT_CHECK",
                           ![d].formatReviewer = IF reviewer = None THEN @ ELSE reviewer]
    BY <1>1, <1>10 DEF SubmitFormatCheck
  <2>2. wf' = [wf EXCEPT ![d] = wf'[d]] /\ FieldsStay(d) /\ wf'[d].status = "FORMAT_CHECK"
    BY <1>2, <2>1
  <2>. QED
    BY <1>1, <1>5, <1>10, <2>2 DEF SubmitFormatCheck, Issued
<1>11. CASE ApproveFormat(s)
  <2>1. wf' = [wf EXCEPT ![d] = wf'[d]] /\ FieldsStay(d) /\ wf'[d].status = "AUTHORIZED_SIGN"
    BY <1>1, <1>2, <1>11 DEF ApproveFormat
  <2>. QED
    BY <1>1, <1>5, <1>11, <2>1 DEF ApproveFormat, Issued
<1>12. CASE DeliverDocument(s)
  <2>1. wf' = [wf EXCEPT ![d] = wf'[d]] /\ FieldsStay(d) /\ wf'[d].status = "DELIVERED"
    BY <1>1, <1>2, <1>12 DEF DeliverDocument
  <2>2. wf[d].orgSigner # None
    BY <1>1, <1>2, <1>12 DEF DeliverDocument, Running, StillAccepted, RowIsOrderly
  <2>. QED
    BY <1>1, <1>5, <1>12, <2>1, <2>2 DEF DeliverDocument
<1>13. CASE FileOutgoingDocument(s)
  <2>1. wf' = [wf EXCEPT ![d] = wf'[d]] /\ FieldsStay(d) /\ wf'[d].status = "FILED"
    BY <1>1, <1>2, <1>13 DEF FileOutgoingDocument
  <2>2. wf[d].orgSigner # None
    BY <1>1, <1>2, <1>13 DEF FileOutgoingDocument, Running, StillAccepted, RowIsOrderly
  <2>. QED
    BY <1>1, <1>5, <1>13, <2>1, <2>2 DEF FileOutgoingDocument
<1>14. CASE RecallOutgoing(s)
  <2>1. wf' = [wf EXCEPT ![d] = wf'[d]] /\ FieldsStay(d) /\ wf'[d].status = "RECALLED"
    BY <1>1, <1>2, <1>14 DEF RecallOutgoing
  <2>2. wf[d].status \in Issued
    BY <1>1, <1>14 DEF RecallOutgoing
  <2>3. wf[d].orgSigner # None
    BY <1>2, <2>2 DEF RowIsOrderly
  <2>. QED
    BY <1>1, <1>5, <1>14, <2>1, <2>3 DEF RecallOutgoing
<1>. QED
  BY <1>6, <1>7, <1>8, <1>9, <1>10, <1>11, <1>12, <1>13, <1>14

\* So does issuing, which may end confirmations as well.
LEMMA OrderlyIssue ==
  ASSUME DocumentInv, OrderlyInv, DocumentsApart, NEW s \in Slots, IssueDocument(s)
  PROVE  OrderlyInv'
<1>1. PICK d \in Docs : d = req[s].doc /\ req[s] # None
  BY RequestKnows DEF IssueDocument, Running
<1>2. wf \in [Docs -> Row] /\ wf[d] \in Row /\ RowIsOrderly(d) /\ StillAccepted(s)
  BY <1>1, OrderlyRequest
<1>3. (\A t \in Slots : req'[t] \in {req[t], None}) /\ req'[s] = None
  <2>1. \/ Answer(s)
        \/ \E old : req' = [t \in Slots |-> IF t = s \/ (Running(t, "receive") /\ req[t].doc = old)
                                             THEN None ELSE req[t]]
    BY DEF IssueDocument
  <2>. QED
    BY <2>1, OwnAnswer
<1>4. PICK target : wf' = [wf EXCEPT ![d].status = "ISSUED", ![d].replaces = target]
  <2>1. wf' = [wf EXCEPT ![d].status = "ISSUED",
                 ![d].replaces = IF req[s].about = None THEN wf[d].replaces ELSE req[s].about]
    BY <1>1, <1>2 DEF IssueDocument, Row
  <2>. QED
    BY <2>1
<1>5. wf' = [wf EXCEPT ![d] = wf'[d]] /\ FieldsStay(d) /\ wf'[d].status = "ISSUED"
  BY <1>2, <1>4 DEF FieldsStay, Row
<1>6. wf[d].orgSigner # None
  BY <1>1, <1>2 DEF IssueDocument, Running, StillAccepted, RowIsOrderly
<1>7. SyncAdmin(d, "ISSUED") /\ UNCHANGED sigs
  BY <1>1 DEF IssueDocument
<1>. QED
  BY <1>1, <1>3, <1>5, <1>6, <1>7, StatusMoves

\* A signature is added to one document and to no other.
LEMMA AddedSignature ==
  ASSUME DocumentInv, NEW d \in Docs, NEW g,
         sigs' = [sigs EXCEPT ![d] = sigs[d] \cup {g}]
  PROVE  sigs'[d] = sigs[d] \cup {g} /\ \A e \in Docs : e # d => sigs'[e] = sigs[e]
BY Sorted DEF SignatureInv

\* An initial counts for nothing but itself.
LEMMA OrderlyInitial ==
  ASSUME DocumentInv, OrderlyInv, DocumentsApart, NEW s \in Slots, InitialSign(s)
  PROVE  OrderlyInv'
<1>1. PICK d \in Docs : d = req[s].doc /\ req[s] # None
  BY RequestKnows DEF InitialSign, Running
<1>2. /\ wf[d] \in Row /\ RowIsOrderly(d) /\ SignaturesAreOrderly(d)
      /\ req[s].version = wf[d].version
  BY <1>1, OrderlyRequest DEF InitialSign, Running, StillAccepted, Versioned
<1>3. UNCHANGED <<wf, admin>> /\ Answer(s)
  BY DEF InitialSign
<1>4. sigs' = [sigs EXCEPT ![d] = @ \cup {Signature(d, wf[d].version, "INITIAL", req[s].user)}]
  BY <1>1, <1>2 DEF InitialSign
<1>5. PICK g : /\ sigs' = [sigs EXCEPT ![d] = sigs[d] \cup {g}]
                /\ g.version = wf[d].version /\ g.kind = "INITIAL"
  <2>1. PICK g : g = Signature(d, wf[d].version, "INITIAL", req[s].user)
    OBVIOUS
  <2>2. g.version = wf[d].version /\ g.kind = "INITIAL"
    BY <2>1 DEF Signature
  <2>3. sigs' = [sigs EXCEPT ![d] = sigs[d] \cup {g}]
    BY <1>4, <2>1
  <2>. QED
    BY <2>2, <2>3
<1>6. sigs'[d] = sigs[d] \cup {g} /\ \A e \in Docs : e # d => sigs'[e] = sigs[e]
  BY <1>5, AddedSignature
<1>7. RowIsOrderly(d)'
  BY <1>2, <1>3, <1>6 DEF RowIsOrderly, Carries
<1>8. wf[d].version \in Nat
  BY <1>2 DEF Row, Versions
<1>9. SignaturesAreOrderly(d)'
  BY <1>2, <1>3, <1>5, <1>6, <1>8 DEF SignaturesAreOrderly
<1>. QED
  BY <1>1, <1>3, <1>6, <1>7, <1>9, OwnAnswer, OneDocument

\* The signature is the first of its version, as the row had no signer, and then
\* neither a number nor a seal.
LEMMA OrderlySignature ==
  ASSUME DocumentInv, OrderlyInv, DocumentsApart, NEW s \in Slots, SignDocument(s)
  PROVE  OrderlyInv'
<1>1. PICK d \in Docs : d = req[s].doc /\ req[s] # None
  BY RequestKnows DEF SignDocument, Running
<1>2. /\ wf \in [Docs -> Row] /\ wf[d] \in Row
      /\ RowIsOrderly(d) /\ SignaturesAreOrderly(d)
      /\ req[s].version = wf[d].version /\ wf[d].version \in Nat
      /\ wf[d].status = "AUTHORIZED_SIGN" /\ wf[d].signer = None
  BY <1>1, OrderlyRequest DEF SignDocument, Running, StillAccepted, Versioned, Row, Versions
<1>3. req[s].user \in Users /\ req[s].user # None
  BY RequestKnows, OutgoingAssumption DEF SignDocument, Running, Personal
<1>4. Answer(s) /\ admin' = [admin EXCEPT ![d] = AdminStatus("AUTHORIZED_SIGN")]
  BY <1>1 DEF SignDocument, SyncAdmin
<1>5. /\ sigs' = [sigs EXCEPT ![d] = @ \cup {Signature(d, wf[d].version, "PERSONAL", req[s].user)}]
      /\ wf' = [wf EXCEPT ![d].signer = req[s].user]
  BY <1>1, <1>2 DEF SignDocument
<1>6. PICK g : /\ sigs' = [sigs EXCEPT ![d] = sigs[d] \cup {g}]
                /\ g.version = wf[d].version /\ g.kind = "PERSONAL" /\ g.valid
  <2>1. PICK g : g = Signature(d, wf[d].version, "PERSONAL", req[s].user)
    OBVIOUS
  <2>2. g.version = wf[d].version /\ g.kind = "PERSONAL" /\ g.valid
    BY <2>1 DEF Signature
  <2>3. sigs' = [sigs EXCEPT ![d] = sigs[d] \cup {g}]
    BY <1>5, <2>1
  <2>. QED
    BY <2>2, <2>3
<1>7. /\ wf'[d].signer = req[s].user /\ wf'[d].version = wf[d].version
      /\ wf'[d].status = "AUTHORIZED_SIGN" /\ wf'[d].number = wf[d].number
      /\ wf'[d].numberer = None /\ wf'[d].orgSigner = None /\ wf[d].orgSigner = None
  BY <1>2, <1>5 DEF Row, RowIsOrderly
<1>8. admin'[d] = AdminStatus("AUTHORIZED_SIGN") /\ sigs'[d] = sigs[d] \cup {g}
      /\ \A e \in Docs : e # d =>
            wf'[e] = wf[e] /\ sigs'[e] = sigs[e] /\ admin'[e] = admin[e]
  BY <1>2, <1>4, <1>5, <1>6, AddedSignature DEF DocumentInv, TypeOK
<1>9. RowIsOrderly(d)'
  BY <1>3, <1>6, <1>7, <1>8 DEF RowIsOrderly, Carries, Issued
<1>10. SignaturesAreOrderly(d)'
  <2>1. \A h \in sigs[d] : ~(h.version = wf[d].version /\ h.kind = "PERSONAL")
    BY <1>2 DEF SignaturesAreOrderly
  <2>. QED
    BY <1>2, <1>3, <1>6, <1>7, <1>8, <2>1 DEF SignaturesAreOrderly
<1>. QED
  BY <1>1, <1>4, <1>8, <1>9, <1>10, OwnAnswer, OneDocument

\* Nor was the version sealed when it is sealed, and the seal is not the signer's.
LEMMA OrderlySeal ==
  ASSUME DocumentInv, OrderlyInv, DocumentsApart, NEW s \in Slots, OrganizationSign(s)
  PROVE  OrderlyInv'
<1>1. PICK d \in Docs : d = req[s].doc /\ req[s] # None
  BY RequestKnows DEF OrganizationSign, Running
<1>2. /\ wf \in [Docs -> Row] /\ wf[d] \in Row
      /\ RowIsOrderly(d) /\ SignaturesAreOrderly(d)
      /\ req[s].version = wf[d].version /\ wf[d].version \in Nat
      /\ wf[d].status = "NUMBERED" /\ wf[d].signer # req[s].user
  BY <1>1, OrderlyRequest DEF OrganizationSign, Running, StillAccepted, Versioned, Row, Versions
<1>3. req[s].user \in Users /\ req[s].user # None
  BY RequestKnows, OutgoingAssumption DEF OrganizationSign, Running, Personal
<1>4. wf[d].number # 0 /\ wf[d].signer # None /\ wf[d].orgSigner = None
  BY <1>2, RowKnows DEF RowIsOrderly
<1>5. Answer(s) /\ admin' = [admin EXCEPT ![d] = AdminStatus("ORGANIZATION_SIGNED")]
  BY <1>1 DEF OrganizationSign, SyncAdmin
<1>6. /\ sigs' = [sigs EXCEPT ![d] = @ \cup {Signature(d, wf[d].version, "ORGANIZATION", req[s].user)}]
      /\ wf' = [wf EXCEPT ![d].status = "ORGANIZATION_SIGNED", ![d].orgSigner = req[s].user]
  BY <1>1, <1>2 DEF OrganizationSign
<1>7. PICK g : /\ sigs' = [sigs EXCEPT ![d] = sigs[d] \cup {g}]
                /\ g.version = wf[d].version /\ g.kind = "ORGANIZATION" /\ g.valid
  <2>1. PICK g : g = Signature(d, wf[d].version, "ORGANIZATION", req[s].user)
    OBVIOUS
  <2>2. g.version = wf[d].version /\ g.kind = "ORGANIZATION" /\ g.valid
    BY <2>1 DEF Signature
  <2>3. sigs' = [sigs EXCEPT ![d] = sigs[d] \cup {g}]
    BY <1>6, <2>1
  <2>. QED
    BY <2>2, <2>3
<1>8. /\ wf'[d].orgSigner = req[s].user /\ wf'[d].version = wf[d].version
      /\ wf'[d].status = "ORGANIZATION_SIGNED" /\ wf'[d].number = wf[d].number
      /\ wf'[d].numberer = wf[d].numberer /\ wf'[d].signer = wf[d].signer
  BY <1>2, <1>6 DEF Row
<1>9. admin'[d] = AdminStatus("ORGANIZATION_SIGNED") /\ sigs'[d] = sigs[d] \cup {g}
      /\ \A e \in Docs : e # d =>
            wf'[e] = wf[e] /\ sigs'[e] = sigs[e] /\ admin'[e] = admin[e]
  BY <1>2, <1>5, <1>6, <1>7, AddedSignature DEF DocumentInv, TypeOK
<1>10. Carries(d, "PERSONAL")' /\ Carries(d, "ORGANIZATION")'
  BY <1>2, <1>4, <1>7, <1>8, <1>9 DEF RowIsOrderly, Carries
<1>11. RowIsOrderly(d)'
  BY <1>2, <1>3, <1>4, <1>8, <1>9, <1>10 DEF RowIsOrderly
<1>12. SignaturesAreOrderly(d)'
  <2>1. \A h \in sigs[d] : ~(h.version = wf[d].version /\ h.kind = "ORGANIZATION")
    BY <1>2, <1>4 DEF SignaturesAreOrderly
  <2>. QED
    BY <1>2, <1>3, <1>7, <1>8, <1>9, <2>1 DEF SignaturesAreOrderly
<1>. QED
  BY <1>1, <1>5, <1>9, <1>11, <1>12, OwnAnswer, OneDocument

\* The number is given by somebody other than the signer, who is still the one
\* that was read.
LEMMA OrderlyNumber ==
  ASSUME DocumentInv, OrderlyInv, DocumentsApart, NEW s \in Slots, AssignOutgoingNumber(s)
  PROVE  OrderlyInv'
<1>1. PICK d \in Docs : d = req[s].doc /\ req[s] # None
  BY RequestKnows DEF AssignOutgoingNumber, Running
<1>2. /\ wf \in [Docs -> Row] /\ wf[d] \in Row
      /\ RowIsOrderly(d) /\ SignaturesAreOrderly(d)
      /\ wf[d].number = 0 /\ wf[d].signer # req[s].user /\ wf[d].signer # None
  BY <1>1, OrderlyRequest DEF AssignOutgoingNumber, Running, StillAccepted
<1>3. PICK n \in Nat \ {0} :
        wf' = [wf EXCEPT ![d].status = "NUMBERED", ![d].numberer = req[s].user, ![d].number = n]
  <2>1. PICK largest \in {0} \cup {reg[e] : e \in Docs} :
          wf' = [wf EXCEPT ![d].status = "NUMBERED", ![d].numberer = req[s].user,
                           ![d].number = NextNumber(largest)]
    BY <1>1 DEF AssignOutgoingNumber
  <2>2. NextNumber(largest) \in Nat \ {0}
    BY Sorted DEF NextNumber, RegisterInv
  <2>. QED
    BY <2>1, <2>2
<1>4. Answer(s) /\ UNCHANGED sigs /\ admin' = [admin EXCEPT ![d] = AdminStatus("NUMBERED")]
  BY <1>1 DEF AssignOutgoingNumber, SyncAdmin
<1>5. /\ wf'[d].status = "NUMBERED" /\ wf'[d].numberer = req[s].user /\ wf'[d].number = n
      /\ wf'[d].version = wf[d].version
      /\ wf'[d].signer = wf[d].signer /\ wf'[d].orgSigner = wf[d].orgSigner
  BY <1>2, <1>3 DEF Row
<1>6. admin'[d] = AdminStatus("NUMBERED")
      /\ \A e \in Docs : e # d => wf'[e] = wf[e] /\ admin'[e] = admin[e]
  BY <1>2, <1>3, <1>4 DEF DocumentInv, TypeOK
<1>7. SignaturesAreOrderly(d)'
  BY <1>2, <1>4, <1>5 DEF SignaturesAreOrderly
<1>8. Carries(d, "PERSONAL") => Carries(d, "PERSONAL")'
  BY <1>4, <1>5 DEF Carries
<1>9. RowIsOrderly(d)'
  BY <1>2, <1>3, <1>5, <1>6, <1>8 DEF RowIsOrderly, Issued
<1>. QED
  BY <1>1, <1>4, <1>6, <1>7, <1>9, OwnAnswer, OneDocument

\* The revision revokes every valid signature of the document: those of the
\* version it read, which is the present one, as the older ones are revoked.
LEMMA OrderlyRevision ==
  ASSUME DocumentInv, OrderlyInv, DocumentsApart, NEW s \in Slots, CreateDocumentRevision(s)
  PROVE  OrderlyInv'
<1>1. PICK d \in Docs : d = req[s].doc /\ req[s] # None
  BY RequestKnows DEF CreateDocumentRevision, Running
<1>2. PICK v \in Nat : v = wf[d].version /\ v = req[s].version
  BY <1>1, OrderlyRequest DEF CreateDocumentRevision, Running, StillAccepted, Row, Versions
<1>3. /\ wf \in [Docs -> Row] /\ SignaturesAreOrderly(d)
      /\ req[s].revoked = SignaturesOf(d, v)
      /\ sigs \in [Docs -> SUBSET SignatureRecord]
  BY <1>1, <1>2, OrderlyRequest, Sorted
     DEF CreateDocumentRevision, Running, StillAccepted, SignatureInv
<1>4. /\ Answer(s) /\ admin' = [admin EXCEPT ![d] = AdminStatus("DRAFT")]
      /\ sigs' = [sigs EXCEPT ![d] = Marked(sigs[d], SignaturesOf(d, v))]
      /\ wf' = [wf EXCEPT ![d] =
                  [BlankRow EXCEPT !.status = "DRAFT", !.version = v + 1,
                                   !.drafter = wf[d].drafter, !.replaces = wf[d].replaces]]
  BY <1>1, <1>2, <1>3 DEF CreateDocumentRevision, SyncAdmin, Marked
<1>5. /\ wf'[d].version = v + 1 /\ wf'[d].status = "DRAFT" /\ wf'[d].signer = None
      /\ wf'[d].numberer = None /\ wf'[d].orgSigner = None
  BY <1>3, <1>4 DEF BlankRow
<1>6. admin'[d] = AdminStatus("DRAFT")
      /\ \A e \in Docs : e # d =>
            wf'[e] = wf[e] /\ sigs'[e] = sigs[e] /\ admin'[e] = admin[e]
  BY <1>3, <1>4 DEF DocumentInv, TypeOK
<1>7. RowIsOrderly(d)'
  BY <1>5, <1>6 DEF RowIsOrderly, Issued
<1>8. SignaturesAreOrderly(d)'
  <2>1. ASSUME NEW h \in sigs'[d]
        PROVE  \E g \in sigs[d] :
                 /\ h = IF g \in SignaturesOf(d, v) THEN [g EXCEPT !.valid = FALSE] ELSE g
                 /\ h.version = g.version /\ h.kind = g.kind
                 /\ h.version \in Nat /\ h.version <= v /\ ~h.valid
    <3>1. PICK g \in sigs[d] :
            h = IF g \in SignaturesOf(d, v) THEN [g EXCEPT !.valid = FALSE] ELSE g
      BY <1>3, <1>4, <2>1 DEF Marked
    <3>2. g \in SignatureRecord /\ g.version \in Nat /\ g.version <= v
          /\ (g.version < v => ~g.valid)
      BY <1>2, <1>3 DEF SignaturesAreOrderly, SignatureRecord, Versions
    <3>3. g.version = v => g \in SignaturesOf(d, v)
      BY DEF SignaturesOf
    <3>4. CASE g \in SignaturesOf(d, v)
      <4>1. h.version = g.version /\ h.kind = g.kind /\ ~h.valid
        BY <3>1, <3>2, <3>4 DEF SignatureRecord
      <4>. QED
        BY <3>1, <3>2, <4>1
    <3>5. CASE g \notin SignaturesOf(d, v)
      <4>1. h = g /\ g.version < v
        BY <1>2, <3>1, <3>2, <3>3, <3>5
      <4>. QED
        BY <3>1, <3>2, <4>1
    <3>. QED
      BY <3>4, <3>5
  <2>2. ASSUME NEW h \in sigs'[d], NEW k \in sigs'[d],
               h.kind # "INITIAL", h.kind = k.kind, h.version = k.version
        PROVE  h = k
    <3>1. PICK g \in sigs[d] :
            /\ h = IF g \in SignaturesOf(d, v) THEN [g EXCEPT !.valid = FALSE] ELSE g
            /\ h.version = g.version /\ h.kind = g.kind
      BY <2>1
    <3>2. PICK f \in sigs[d] :
            /\ k = IF f \in SignaturesOf(d, v) THEN [f EXCEPT !.valid = FALSE] ELSE f
            /\ k.version = f.version /\ k.kind = f.kind
      BY <2>1
    <3>3. g = f
      BY <1>3, <2>2, <3>1, <3>2 DEF SignaturesAreOrderly
    <3>. QED
      BY <3>1, <3>2, <3>3
  <2>3. \A h \in sigs'[d] : h.version \in Nat /\ h.version <= v /\ ~h.valid
    BY <2>1
  <2>. QED
    BY <1>2, <1>5, <2>2, <2>3 DEF SignaturesAreOrderly
<1>. QED
  BY <1>1, <1>4, <1>6, <1>7, <1>8, OwnAnswer, OneDocument

\* A step that leaves the documents alone keeps what is said of them.
LEMMA OrderlyRows ==
  ASSUME OrderlyInv, UNCHANGED <<wf, admin, sigs>>
  PROVE  \A d \in Docs : RowIsOrderly(d)' /\ SignaturesAreOrderly(d)'
BY DEF OrderlyInv, RowIsOrderly, SignaturesAreOrderly, Carries

\* So does a request that starts, that reads on, or that ends.
LEMMA OrderlyRequests ==
  ASSUME DocumentInv, OrderlyInv, UNCHANGED <<wf, admin, sigs>>, NEW s \in Slots,
         \A t \in Slots : t # s => req'[t] \in {req[t], None},
         req'[s] # None => StillAccepted(s)'
  PROVE  OrderlyInv'
<1>1. ASSUME NEW t \in Slots, req'[t] # None, t # s
      PROVE  StillAccepted(t)'
  <2>1. req'[t] = req[t] /\ StillAccepted(t)
    BY <1>1 DEF OrderlyInv
  <2>. QED
    BY <2>1 DEF StillAccepted, SignaturesOf
<1>. QED
  BY <1>1, OrderlyRows DEF OrderlyInv

\* A command is accepted on what it reads.
LEMMA OrderlyReceive ==
  ASSUME DocumentInv, OrderlyInv, NEW s \in Slots, NEW cmd \in Commands, NEW u \in Users,
         NEW d \in Docs, Receive(s, cmd, u, d)
  PROVE  OrderlyInv'
<1>1. PICK about \in About(cmd) :
        /\ Accepts(cmd, u, d, about)
        /\ req' = [req EXCEPT ![s] =
                     [cmd |-> cmd, user |-> IF cmd \in Personal THEN u ELSE None,
                      doc |-> d, version |-> IF cmd \in Versioned THEN wf[d].version ELSE 1,
                      about |-> about, revoked |-> {}]]
  BY DEF Receive
<1>2. UNCHANGED <<wf, admin, sigs>> /\ cmd \in Cmd \ {"issue-checked", "reset"}
      /\ req \in [Slots -> Request \cup {None}]
  BY Sorted, OutgoingAssumption DEF Receive, RequestInv
<1>3. \A t \in Slots : t # s => req'[t] = req[t]
  BY <1>1, <1>2
<1>4. /\ req'[s].cmd = cmd /\ req'[s].doc = d
      /\ req'[s].user = IF cmd \in Personal THEN u ELSE None
      /\ req'[s].version = IF cmd \in Versioned THEN wf[d].version ELSE 1
  BY <1>1, <1>2
<1>5. StillAccepted(s)'
  BY <1>1, <1>2, <1>4 DEF StillAccepted, Accepts, Versioned, Personal, Cmd
<1>. QED
  BY <1>2, <1>3, <1>5, OrderlyRequests

\* The first statements of an issue and of a revision, a confirmed receipt and a
\* failure leave the documents alone.
LEMMA OrderlyReads ==
  ASSUME DocumentInv, OrderlyInv, NEW s \in Slots,
         CheckReplacement(s) \/ RevokeSignatures(s) \/ ConfirmReceipt(s) \/ Fail(s)
  PROVE  OrderlyInv'
<1>1. UNCHANGED <<wf, admin, sigs>> /\ req \in [Slots -> Request \cup {None}]
  BY Sorted DEF CheckReplacement, RevokeSignatures, ConfirmReceipt, Fail, RequestInv
<1>2. req[s] # None /\ req[s] \in Request /\ StillAccepted(s)
  BY OrderlyRequest DEF CheckReplacement, RevokeSignatures, ConfirmReceipt, Fail, Running
<1>3. CASE CheckReplacement(s)
  <2>1. /\ req' = [req EXCEPT ![s].cmd = "issue-checked"] /\ req[s].cmd = "issue"
    BY <1>3 DEF CheckReplacement, Running
  <2>2. /\ \A t \in Slots : t # s => req'[t] = req[t]
        /\ req'[s].cmd = "issue-checked" /\ req'[s].doc = req[s].doc
    BY <1>1, <1>2, <2>1 DEF Request
  <2>3. StillAccepted(s)'
    BY <1>1, <1>2, <2>1, <2>2 DEF StillAccepted, Versioned
  <2>. QED
    BY <1>1, <2>2, <2>3, OrderlyRequests
<1>4. CASE RevokeSignatures(s)
  <2>1. /\ req' = [req EXCEPT ![s].cmd = "reset",
                       ![s].revoked = SignaturesOf(req[s].doc, req[s].version)]
        /\ req[s].cmd = "revise"
    BY <1>4 DEF RevokeSignatures, Running
  <2>2. /\ \A t \in Slots : t # s => req'[t] = req[t]
        /\ req'[s].cmd = "reset" /\ req'[s].doc = req[s].doc
        /\ req'[s].version = req[s].version
        /\ req'[s].revoked = SignaturesOf(req[s].doc, req[s].version)
    BY <1>1, <1>2, <2>1 DEF Request
  <2>3. StillAccepted(s)'
    BY <1>1, <1>2, <2>1, <2>2 DEF StillAccepted, Versioned, SignaturesOf
  <2>. QED
    BY <1>1, <2>2, <2>3, OrderlyRequests
<1>5. CASE ConfirmReceipt(s) \/ Fail(s)
  <2>1. Answer(s)
    BY <1>5 DEF ConfirmReceipt, Fail, Answer
  <2>. QED
    BY <1>1, <2>1, OwnAnswer, OrderlyRequests
<1>. QED
  BY <1>3, <1>4, <1>5

\* No request knows a row that is not drafted yet.
LEMMA OrderlyDraft ==
  ASSUME DocumentInv, OrderlyInv, NEW u \in Drafters, NEW d \in Docs, CreateOutgoingDraft(u, d)
  PROVE  OrderlyInv'
<1>1. /\ wf \in [Docs -> Row] /\ wf[d] \in Row /\ wf[d].status = "NONE"
      /\ wf' = [wf EXCEPT ![d].status = "DRAFT", ![d].drafter = u]
      /\ UNCHANGED <<admin, sigs, req>>
  BY RowKnows DEF CreateOutgoingDraft
<1>2. FieldsStay(d) /\ wf'[d].status = "DRAFT" /\ \A e \in Docs : e # d => wf'[e] = wf[e]
  BY <1>1 DEF FieldsStay, Row
<1>3. ASSUME NEW e \in Docs
      PROVE  RowIsOrderly(e)' /\ SignaturesAreOrderly(e)'
  <2>1. RowIsOrderly(e) /\ SignaturesAreOrderly(e)
    BY DEF OrderlyInv
  <2>2. CASE e # d
    BY <1>1, <1>2, <2>1, <2>2 DEF RowIsOrderly, SignaturesAreOrderly, Carries
  <2>3. CASE e = d
    <3>1. \A kind : Carries(e, kind) <=> Carries(e, kind)'
      BY <1>1, <1>2, <2>3 DEF Carries, FieldsStay
    <3>2. AdminStatus("NONE") = AdminStatus("DRAFT")
      BY DEF AdminStatus, Issued
    <3>3. RowIsOrderly(e)'
      BY <1>1, <1>2, <2>1, <2>3, <3>1, <3>2 DEF RowIsOrderly, FieldsStay, Issued
    <3>4. SignaturesAreOrderly(e)'
      BY <1>1, <1>2, <2>1, <2>3 DEF SignaturesAreOrderly, FieldsStay
    <3>. QED
      BY <3>3, <3>4
  <2>. QED
    BY <2>2, <2>3
<1>4. ASSUME NEW t \in Slots, req'[t] # None
      PROVE  StillAccepted(t)'
  <2>1. req'[t] = req[t] /\ req[t].doc \in Docs /\ req[t].doc # d /\ StillAccepted(t)
    BY <1>1, <1>4, RequestKnows DEF OrderlyInv
  <2>2. wf'[req[t].doc] = wf[req[t].doc]
    BY <1>2, <2>1
  <2>. QED
    BY <1>1, <2>1, <2>2 DEF StillAccepted, SignaturesOf
<1>. QED
  BY <1>3, <1>4 DEF OrderlyInv

\* Nothing is out of order in the beginning.
LEMMA OrderlyInitially == Init => OrderlyInv
<1>1. AdminStatus("NONE") = "DANG_XU_LY"
  BY DEF AdminStatus, Issued
<1>. QED
  BY <1>1 DEF Init, OrderlyInv, RowIsOrderly, SignaturesAreOrderly, BlankRow, Issued

\* One case per action of Next.
LEMMA EveryOrderlyStep ==
  ASSUME DocumentInv, OrderlyInv, DocumentsApart, [Next]_vars
  PROVE  OrderlyInv'
<1>1. ASSUME NEW u \in Drafters, NEW d \in Docs, CreateOutgoingDraft(u, d)
      PROVE  OrderlyInv'
  BY <1>1, OrderlyDraft
<1>2. ASSUME NEW s \in Slots, NEW cmd \in Commands, NEW u \in Users, NEW d \in Docs,
             Receive(s, cmd, u, d)
      PROVE  OrderlyInv'
  BY <1>2, OrderlyReceive
<1>3. ASSUME NEW s \in Slots, Transaction(s) \/ Fail(s)
      PROVE  OrderlyInv'
  BY <1>3, OrderlyMoves, OrderlyIssue, OrderlyInitial, OrderlySignature, OrderlySeal,
     OrderlyNumber, OrderlyRevision, OrderlyReads DEF Transaction
<1>4. CASE UNCHANGED vars
  BY <1>4 DEF vars, OrderlyInv, RowIsOrderly, SignaturesAreOrderly, Carries,
     StillAccepted, SignaturesOf
<1>. QED
  BY <1>1, <1>2, <1>3, <1>4 DEF Next

\* As long as requests about one document do not overlap, the documents stay in
\* order, whatever requests about other documents do meanwhile.
THEOREM Orderly == Spec /\ []DocumentsApart => []OrderlyInv
<1>1. Init => OrderlyInv
  BY OrderlyInitially
<1>2. DocumentInv /\ OrderlyInv /\ DocumentsApart /\ [Next]_vars => OrderlyInv'
  BY EveryOrderlyStep
<1>. QED
  BY <1>1, <1>2, Invariant, PTL DEF Spec

\* The signer neither numbers nor seals the document, although the transactions
\* that number and seal do not look at the signer again.
THEOREM SignerIsSeparate == Spec /\ []DocumentsApart => []DutiesAreSeparate
<1>1. OrderlyInv => DutiesAreSeparate
  BY DEF OrderlyInv, RowIsOrderly, DutiesAreSeparate
<1>. QED
  BY <1>1, Orderly, PTL

\* A document that was issued is signed, numbered and sealed, and its present
\* version carries a valid signature and a valid seal.
THEOREM IssuedIsWhole == Spec /\ []DocumentsApart => []IssuedIsComplete
<1>1. ASSUME DocumentInv, OrderlyInv, NEW d \in Docs,
             wf[d].status \in Issued \cup {"FILED", "RECALLED"}
      PROVE  /\ wf[d].signer # None /\ wf[d].number # 0 /\ wf[d].orgSigner # None
             /\ Carries(d, "PERSONAL") /\ Carries(d, "ORGANIZATION")
  BY <1>1 DEF OrderlyInv, RowIsOrderly
<1>2. DocumentInv /\ OrderlyInv => IssuedIsComplete
  BY <1>1 DEF IssuedIsComplete, Carries
<1>. QED
  BY <1>2, Orderly, Invariant, PTL

\* Document.status follows the workflow in the transaction of every transition.
THEOREM AdminFollows == Spec /\ []DocumentsApart => []AdminInSync
<1>1. OrderlyInv => AdminInSync
  BY DEF OrderlyInv, RowIsOrderly, AdminInSync
<1>. QED
  BY <1>1, Orderly, PTL

\* No version is signed or sealed twice, and a revision leaves no valid signature
\* of an older version behind.
THEOREM SignaturesOfOneVersion ==
  Spec /\ []DocumentsApart => [](OneSignaturePerVersion /\ OldSignaturesAreRevoked)
<1>1. OrderlyInv => OneSignaturePerVersion /\ OldSignaturesAreRevoked
  BY DEF OrderlyInv, SignaturesAreOrderly, OneSignaturePerVersion, OldSignaturesAreRevoked
<1>. QED
  BY <1>1, Orderly, PTL

\* With one slot nothing overlaps: the hypotheses of these theorems are what the
\* runs with one slot assume.
LEMMA OneSlotIsApart ==
  ASSUME \A s, t \in Slots : s = t
  PROVE  DocumentsApart
BY DEF DocumentsApart
=============================================================================
