-------------------------- MODULE OutgoingDocument --------------------------
(***************************************************************************)
(* The life of an outgoing document: the commands of                       *)
(* outgoing-document-service.ts, outgoing-recipients.ts and                *)
(* outgoing-initial-sign.ts over the rows they share.                      *)
(*                                                                         *)
(* A command is an HTTP request in two parts.  It first reads the workflow *)
(* row outside any transaction and checks the status and the duties of its *)
(* user on what it read (Receive); later a transaction writes.  Some       *)
(* transactions claim the row with an update conditional on the status,    *)
(* the others update it by id and rely on what was read.  Other requests   *)
(* run between the two parts.  A transaction writes the workflow row early *)
(* and holds its lock to the end, so it is one step; the two that read or  *)
(* write other rows before (issue, revision) are two.                      *)
(***************************************************************************)
EXTENDS Naturals, FiniteSets

CONSTANTS
  Docs, Users,
  Units,       \* units a document can be sent to
  Drafters,    \* users who draft documents
  Leaders,     \* users the engine lets review content and sign
  Clerks,      \* users the engine lets do the registry's steps
  Commands,    \* commands users send
  Slots,       \* requests that can be in progress at the same time
  MaxVersion,  \* bound: versions of a document
  None

VARIABLES
  wf,          \* documents_outgoing_workflows, one row per document
  admin,       \* Document.status
  reg,         \* Document.registrationNumber (0: the draft's own number)
  lastNumber,  \* the sequence of the outgoing register
  sigs,        \* SignatureRecord rows of each document
  rows,        \* OutgoingDocumentRecipient rows of each document
  req,         \* the request in each slot: what it remembers of its read
  used         \* history: numbers ever given

vars == <<wf, admin, reg, lastNumber, sigs, rows, req, used>>

Versions == 1..MaxVersion
Issued   == {"ISSUED", "DELIVERED"}  \* RECALLABLE_STATUSES, AWAITING_RECEIPT_STATUSES
Status   == {"NONE", "DRAFT", "CONTENT_REVIEW", "FORMAT_CHECK", "AUTHORIZED_SIGN",
             "NUMBERED", "ORGANIZATION_SIGNED", "FILED", "RECALLED"} \cup Issued
Kind     == {"INITIAL", "PERSONAL", "ORGANIZATION"}
Cmd      == {"submit", "withdraw", "approve", "reject", "format-check",
             "approve-format", "initial-sign", "sign", "number", "org-sign",
             "issue", "issue-checked", "deliver", "file", "receive", "recall",
             "revise", "reset"}

ASSUME OutgoingAssumption ==
  /\ Drafters \subseteq Users /\ Leaders \subseteq Users /\ Clerks \subseteq Users
  /\ Commands \subseteq Cmd \ {"issue-checked", "reset"}
  /\ MaxVersion \in Nat \ {0}
  /\ None \notin Users \cup Docs \cup Units

\* mapOutgoingWorkflowStatusToDocumentStatus.
AdminStatus(st) ==
  CASE st = "AUTHORIZED_SIGN" -> "CHO_PHE_DUYET"
    [] st \in Issued -> "DA_HOAN_THANH"
    [] st \in {"FILED", "RECALLED"} -> "LUU_THEO_DOI"
    [] OTHER -> "DANG_XU_LY"

\* A workflow row that no step has touched yet.  A user in signer, numberer or
\* orgSigner stands for the step's timestamp as well: they are written and
\* cleared together.  Document.signerName equals signer whenever it is read.
BlankRow == [status |-> "NONE", version |-> 1, drafter |-> None,
             reviewer |-> None, approved |-> FALSE, formatReviewer |-> None,
             signer |-> None, numberer |-> None, number |-> 0,
             orgSigner |-> None, replaces |-> None]

Init ==
  /\ wf = [d \in Docs |-> BlankRow]
  /\ admin = [d \in Docs |-> "DANG_XU_LY"]
  /\ reg = [d \in Docs |-> 0]
  /\ lastNumber = 0
  /\ sigs = [d \in Docs |-> {}]
  /\ rows = [d \in Docs |-> [n \in Units |-> "none"]]
  /\ req = [s \in Slots |-> None]
  /\ used = {}

-----------------------------------------------------------------------------
(* The first part of a command.                                            *)

(* The duties and conditions several commands share, on a row r as it is   *)
(* read, each with the slip (a mutant) that the properties must notice.    *)

\* Mutant: nobody is told apart from the drafter.
MayReviewOwn(u, r) == u \in Leaders

\* Approving, rejecting and initialing are for a leader other than the drafter.
MayReview(u, r) == u \in Leaders /\ u # r.drafter

\* Mutant: the signer is not told apart.
AnybodyMay(u, r) == TRUE

\* Numbering and sealing are not for the signer.
IsNotSigner(u, r) == u # r.signer

Unsigned(r) == r.signer = None

\* Mutant: the seal is not waited for.
NumberedIsEnough(r) == r.status \in {"NUMBERED", "ORGANIZATION_SIGNED"}

ReadyToIssue(r) == r.status = "ORGANIZATION_SIGNED"

SignaturesOf(d, v) == {g \in sigs[d] : g.version = v}

\* Mutant: the initials of the version before are looked at.
InitialedBefore(u, d, v) ==
  \E g \in SignaturesOf(d, v - 1) : g.kind = "INITIAL" /\ g.by = u

Initialed(u, d, v) == \E g \in SignaturesOf(d, v) : g.kind = "INITIAL" /\ g.by = u

\* The status the command asks for and its separation of duties, on the row
\* as it is read; "about" is the unit that receives or the document replaced.
Accepts(cmd, u, d, about) ==
  LET r == wf[d]
  IN
  \/ cmd = "submit" /\ r.status = "DRAFT" /\ u = r.drafter
  \/ cmd = "withdraw" /\ r.status = "CONTENT_REVIEW" /\ u = r.drafter
  \/ cmd \in {"approve", "reject"} /\ r.status = "CONTENT_REVIEW"
       /\ MayReview(u, r)
  \/ cmd = "format-check"
       /\ (r.status \in {"CONTENT_REVIEW", "FORMAT_CHECK"} \/ r.approved)
  \/ cmd = "approve-format" /\ r.status = "FORMAT_CHECK" /\ u \in Clerks
  \/ cmd = "initial-sign" /\ Unsigned(r)
       /\ r.status \in {"CONTENT_REVIEW", "FORMAT_CHECK", "AUTHORIZED_SIGN"}
       /\ MayReview(u, r) /\ ~Initialed(u, d, r.version)
  \/ cmd = "sign" /\ r.status = "AUTHORIZED_SIGN" /\ Unsigned(r)
       /\ u \in Leaders /\ u # r.formatReviewer
  \/ cmd = "number" /\ r.status = "AUTHORIZED_SIGN" /\ r.signer # None
       /\ r.number = 0 /\ u \in Clerks /\ IsNotSigner(u, r)
  \/ cmd = "org-sign" /\ r.status = "NUMBERED" /\ r.number # 0
       /\ u \in Clerks /\ IsNotSigner(u, r)
  \/ cmd = "issue" /\ ReadyToIssue(r) /\ u \in Clerks
  \/ cmd = "deliver" /\ r.status \in Issued /\ u \in Clerks
  \/ cmd = "file" /\ r.status \in Issued \cup {"FILED"} /\ u \in Clerks
  \/ cmd = "receive" /\ r.status \in Issued /\ rows[d][about] = "sent"
  \/ cmd = "recall" /\ r.status \in Issued /\ u \in Clerks
       /\ \A n \in Units : rows[d][n] # "received"
  \/ cmd = "revise" /\ r.version < MaxVersion

About(cmd) == CASE cmd = "receive" -> Units
                [] cmd = "issue" -> Docs \cup {None}
                [] OTHER -> {None}

\* Commands whose transaction writes the user into the rows modelled here.
Personal == {"approve", "approve-format", "initial-sign", "sign", "number", "org-sign"}

\* Commands whose transaction uses the version that was read.
Versioned == {"initial-sign", "sign", "org-sign", "revise"}

Receive(s, cmd, u, d) ==
  /\ req[s] = None
  /\ wf[d].status # "NONE"
  /\ \E about \in About(cmd) :
       /\ Accepts(cmd, u, d, about)
       /\ req' = [req EXCEPT ![s] =
                     [cmd |-> cmd, user |-> IF cmd \in Personal THEN u ELSE None,
                      doc |-> d, version |-> IF cmd \in Versioned THEN wf[d].version ELSE 1,
                      about |-> about, revoked |-> {}]]
  /\ UNCHANGED <<wf, admin, reg, lastNumber, sigs, rows, used>>

\* A request ends without effect: its conditional update touched no row, its
\* transaction failed, or its process died.
Fail(s) ==
  /\ req[s] # None
  /\ req' = [req EXCEPT ![s] = None]
  /\ UNCHANGED <<wf, admin, reg, lastNumber, sigs, rows, used>>

\* createOutgoingDraft reads nothing before its transaction.
CreateOutgoingDraft(u, d) ==
  /\ wf[d].status = "NONE"
  /\ wf' = [wf EXCEPT ![d].status = "DRAFT", ![d].drafter = u]
  /\ UNCHANGED <<admin, reg, lastNumber, sigs, rows, req, used>>

-----------------------------------------------------------------------------
(* The second part: one action per transaction.  Running(s, cmd) is the    *)
(* request in slot s, about to commit; Answer(s) ends it.                  *)

Running(s, cmd) == req[s] # None /\ req[s].cmd = cmd
Answer(s) == req' = [req EXCEPT ![s] = None]
RowOnly == UNCHANGED <<reg, lastNumber, sigs, rows, used>>

\* Mutant: a document that was filed keeps its administrative status.
SyncAdminUnlessFiled(d, st) ==
  admin' = [admin EXCEPT ![d] = IF @ = "LUU_THEO_DOI" THEN @ ELSE AdminStatus(st)]

SyncAdmin(d, st) == admin' = [admin EXCEPT ![d] = AdminStatus(st)]

\* Mutant: an update by id.
UpdateAnyway(d) == TRUE

\* The condition of the updates that withdraw, approve and reject.
StillInReview(d) == wf[d].status = "CONTENT_REVIEW"

\* Any user the drafter may choose, or the recommended one, or nobody.
ReviewersOf(d) == (Leaders \ {wf[d].drafter}) \cup {None}

SubmitContentReview(s) ==
  LET d == req[s].doc
  IN
  /\ Running(s, "submit")
  /\ wf[d].status = "DRAFT"
  /\ \E reviewer \in ReviewersOf(d) :
       wf' = [wf EXCEPT ![d].status = "CONTENT_REVIEW", ![d].reviewer = reviewer]
  /\ SyncAdmin(d, "CONTENT_REVIEW") /\ Answer(s) /\ RowOnly

WithdrawContentReview(s) ==
  LET d == req[s].doc
  IN
  /\ Running(s, "withdraw")
  /\ StillInReview(d)
  /\ wf' = [wf EXCEPT ![d].status = "DRAFT", ![d].reviewer = None]
  /\ SyncAdmin(d, "DRAFT") /\ Answer(s) /\ RowOnly

ApproveContent(s) ==
  LET d == req[s].doc
  IN
  /\ Running(s, "approve")
  /\ StillInReview(d)
  /\ wf' = [wf EXCEPT ![d].status = "FORMAT_CHECK", ![d].approved = TRUE,
                      ![d].reviewer = req[s].user]
  /\ SyncAdmin(d, "FORMAT_CHECK") /\ Answer(s) /\ RowOnly

RejectContent(s) ==
  LET d == req[s].doc
  IN
  /\ Running(s, "reject")
  /\ StillInReview(d)
  /\ wf' = [wf EXCEPT ![d].status = "DRAFT"]
  /\ SyncAdmin(d, "DRAFT") /\ Answer(s) /\ RowOnly

\* Updates by id: nothing is checked again.
SubmitFormatCheck(s) ==
  LET d == req[s].doc
  IN
  /\ Running(s, "format-check")
  /\ \E reviewer \in Users \cup {None} :
       wf' = [wf EXCEPT ![d].status = "FORMAT_CHECK",
                        ![d].formatReviewer = IF reviewer = None THEN @ ELSE reviewer]
  /\ SyncAdmin(d, "FORMAT_CHECK") /\ Answer(s) /\ RowOnly

\* Updates by id.
ApproveFormat(s) ==
  LET d == req[s].doc
  IN
  /\ Running(s, "approve-format")
  /\ wf' = [wf EXCEPT ![d].status = "AUTHORIZED_SIGN", ![d].formatReviewer = req[s].user]
  /\ SyncAdmin(d, "AUTHORIZED_SIGN") /\ Answer(s) /\ RowOnly

\* A new signature record; serial tells two records of one user apart.
Signature(d, v, kind, u) ==
  [version |-> v, kind |-> kind, by |-> u, valid |-> TRUE,
   serial |-> Cardinality({g \in SignaturesOf(d, v) : g.kind = kind /\ g.by = u}) + 1]

\* Locks the workflow row, then looks for a duplicate; status and version are
\* those of the first read.
InitialSign(s) ==
  LET r == req[s]
  IN
  /\ Running(s, "initial-sign")
  /\ ~Initialed(r.user, r.doc, r.version)
  /\ sigs' = [sigs EXCEPT ![r.doc] = @ \cup {Signature(r.doc, r.version, "INITIAL", r.user)}]
  /\ Answer(s)
  /\ UNCHANGED <<wf, admin, reg, lastNumber, rows, used>>

\* Updates by id; the status stays, and Document.status is derived from the
\* status that was read.
SignDocument(s) ==
  LET r == req[s]
  IN
  /\ Running(s, "sign")
  /\ sigs' = [sigs EXCEPT ![r.doc] = @ \cup {Signature(r.doc, r.version, "PERSONAL", r.user)}]
  /\ wf' = [wf EXCEPT ![r.doc].signer = r.user]
  /\ SyncAdmin(r.doc, "AUTHORIZED_SIGN") /\ Answer(s)
  /\ UNCHANGED <<reg, lastNumber, rows, used>>

\* Mutant: the largest number a document carries, and not the one after it.
NextNumberIsLargest(largest) == IF largest = 0 THEN 1 ELSE largest

\* getNextRegistrationNumber: one more than the sequence, or than the largest
\* number that a document carries when the sequence has fallen behind it.
LargestNumber(n) == \A d \in Docs : reg[d] <= n
NextNumber(largest) == (IF largest >= lastNumber THEN largest ELSE lastNumber) + 1

\* Mutant: the claim forgets the signature.
StillAwaitsNumber(d) == wf[d].status = "AUTHORIZED_SIGN"

StillSigned(d) == wf[d].status = "AUTHORIZED_SIGN" /\ wf[d].signer # None

\* The claim, the number and both rows are one transaction.
AssignOutgoingNumber(s) ==
  LET d == req[s].doc
  IN
  /\ Running(s, "number")
  /\ StillSigned(d)
  /\ \E largest \in {0} \cup {reg[e] : e \in Docs} :
       LET n == NextNumber(largest)
       IN
       /\ LargestNumber(largest)
       /\ wf' = [wf EXCEPT ![d].status = "NUMBERED", ![d].numberer = req[s].user,
                           ![d].number = n]
       /\ lastNumber' = n
       /\ reg' = [reg EXCEPT ![d] = n]
       /\ used' = used \cup {n}
  /\ SyncAdmin(d, "NUMBERED") /\ Answer(s)
  /\ UNCHANGED <<sigs, rows>>

\* Updates by id.
OrganizationSign(s) ==
  LET r == req[s]
  IN
  /\ Running(s, "org-sign")
  /\ sigs' = [sigs EXCEPT ![r.doc] = @ \cup {Signature(r.doc, r.version, "ORGANIZATION", r.user)}]
  /\ wf' = [wf EXCEPT ![r.doc].status = "ORGANIZATION_SIGNED", ![r.doc].orgSigner = r.user]
  /\ SyncAdmin(r.doc, "ORGANIZATION_SIGNED") /\ Answer(s)
  /\ UNCHANGED <<reg, lastNumber, rows, used>>

-----------------------------------------------------------------------------
(* Issuing, and what happens to an issued document.                        *)

Unreplaced(d, target) == \A e \in Docs \ {d} : wf[e].replaces # target

\* evaluateReplacementTarget, and nothing else replaces the target yet.
MayReplace(d, target) ==
  /\ target # d
  /\ \/ wf[target].status = "RECALLED"
     \/ wf[target].status \in Issued \cup {"FILED"}
        /\ \E n \in Units : rows[target][n] = "received"
  /\ Unreplaced(d, target)

\* assertReplacementAllowed reads other rows at the start of the transaction.
CheckReplacement(s) ==
  /\ Running(s, "issue")
  /\ req[s].about # None => MayReplace(req[s].doc, req[s].about)
  /\ req' = [req EXCEPT ![s].cmd = "issue-checked"]
  /\ UNCHANGED <<wf, admin, reg, lastNumber, sigs, rows, used>>

\* Updates by id.  Recipients given replace all the rows: a confirmation that
\* remembers one of the old rows no longer finds it.
IssueDocument(s) ==
  LET d == req[s].doc
  IN
  /\ Running(s, "issue-checked")
  /\ wf' = [wf EXCEPT ![d].status = "ISSUED",
                      ![d].replaces = IF req[s].about = None THEN @ ELSE req[s].about]
  /\ SyncAdmin(d, "ISSUED")
  /\ \E recipients \in SUBSET Units :
       IF recipients = {}
         THEN Answer(s) /\ UNCHANGED rows
         ELSE /\ rows' = [rows EXCEPT ![d] =
                            [n \in Units |-> IF n \in recipients THEN "sent" ELSE "none"]]
              /\ req' = [t \in Slots |-> IF t = s \/ (Running(t, "receive") /\ req[t].doc = d)
                                           THEN None ELSE req[t]]
  /\ UNCHANGED <<reg, lastNumber, sigs, used>>

\* Updates by id.
DeliverDocument(s) ==
  LET d == req[s].doc
  IN
  /\ Running(s, "deliver")
  /\ wf' = [wf EXCEPT ![d].status = "DELIVERED"]
  /\ SyncAdmin(d, "DELIVERED") /\ Answer(s) /\ RowOnly

\* Updates by id.
FileOutgoingDocument(s) ==
  LET d == req[s].doc
  IN
  /\ Running(s, "file")
  /\ wf' = [wf EXCEPT ![d].status = "FILED"]
  /\ SyncAdmin(d, "FILED") /\ Answer(s) /\ RowOnly

\* Mutant: the condition that ends the race is missing.
ReceiptUnlocked(d) == TRUE

StillAwaitsReceipt(d) == wf[d].status \in Issued

\* Locks the workflow row on the condition that it still awaits receipts.
ConfirmReceipt(s) ==
  LET d == req[s].doc
  IN
  /\ Running(s, "receive")
  /\ StillAwaitsReceipt(d)
  /\ rows' = [rows EXCEPT ![d][req[s].about] = "received"]
  /\ Answer(s)
  /\ UNCHANGED <<wf, admin, reg, lastNumber, sigs, used>>

\* Claims the row, then looks at the receipts again under its lock.
RecallOutgoing(s) ==
  LET d == req[s].doc
  IN
  /\ Running(s, "recall")
  /\ StillAwaitsReceipt(d)
  /\ \A n \in Units : rows[d][n] # "received"
  /\ wf' = [wf EXCEPT ![d].status = "RECALLED"]
  /\ SyncAdmin(d, "RECALLED") /\ Answer(s) /\ RowOnly

\* createDocumentRevision, first statement: the transaction revokes the
\* signatures it can see of the version that was read; others see it later.
RevokeSignatures(s) ==
  LET r == req[s]
  IN
  /\ Running(s, "revise")
  /\ req' = [req EXCEPT ![s].cmd = "reset",
                        ![s].revoked = SignaturesOf(r.doc, r.version)]
  /\ UNCHANGED <<wf, admin, reg, lastNumber, sigs, rows, used>>

\* Second statement and commit: the row restarts by id, from the version that
\* was read.  replaces, the recipients and Document.registrationNumber stay.
CreateDocumentRevision(s) ==
  LET r == req[s]
      d == r.doc
  IN
  /\ Running(s, "reset")
  /\ sigs' = [sigs EXCEPT ![d] =
                {IF g \in r.revoked THEN [g EXCEPT !.valid = FALSE] ELSE g : g \in @}]
  /\ wf' = [wf EXCEPT ![d] =
              [BlankRow EXCEPT !.status = "DRAFT", !.version = r.version + 1,
                               !.drafter = wf[d].drafter, !.replaces = wf[d].replaces]]
  /\ SyncAdmin(d, "DRAFT") /\ Answer(s)
  /\ UNCHANGED <<reg, lastNumber, rows, used>>

-----------------------------------------------------------------------------
Transaction(s) ==
  \/ SubmitContentReview(s) \/ WithdrawContentReview(s)
  \/ ApproveContent(s) \/ RejectContent(s)
  \/ SubmitFormatCheck(s) \/ ApproveFormat(s)
  \/ InitialSign(s) \/ SignDocument(s)
  \/ AssignOutgoingNumber(s) \/ OrganizationSign(s)
  \/ CheckReplacement(s) \/ IssueDocument(s)
  \/ DeliverDocument(s) \/ FileOutgoingDocument(s)
  \/ ConfirmReceipt(s) \/ RecallOutgoing(s)
  \/ RevokeSignatures(s) \/ CreateDocumentRevision(s)

Next ==
  \/ \E u \in Drafters, d \in Docs : CreateOutgoingDraft(u, d)
  \/ \E s \in Slots, cmd \in Commands, u \in Users, d \in Docs : Receive(s, cmd, u, d)
  \/ \E s \in Slots : Transaction(s) \/ Fail(s)

Spec == Init /\ [][Next]_vars

-----------------------------------------------------------------------------
(* Properties that survive every interleaving of the requests.             *)

Row == [status : Status, version : Versions, drafter : Users \cup {None},
        reviewer : Users \cup {None}, approved : BOOLEAN,
        formatReviewer : Users \cup {None}, signer : Users \cup {None},
        numberer : Users \cup {None}, number : Nat,
        orgSigner : Users \cup {None}, replaces : Docs \cup {None}]

SignatureRecord == [version : Versions, kind : Kind, by : Users \cup {None},
                    valid : BOOLEAN, serial : Nat]

Request == [cmd : Cmd, user : Users \cup {None}, doc : Docs, version : Versions,
            about : Units \cup Docs \cup {None}, revoked : SUBSET SignatureRecord]

\* The rows of a document and the requests keep their types; Document.status is
\* one of the four values that ADR-004 maps the workflow to.
TypeOK ==
  /\ wf \in [Docs -> Row]
  /\ admin \in [Docs -> {"DANG_XU_LY", "CHO_PHE_DUYET", "DA_HOAN_THANH", "LUU_THEO_DOI"}]
  /\ reg \in [Docs -> Nat]
  /\ lastNumber \in Nat
  /\ sigs \in [Docs -> SUBSET SignatureRecord]
  /\ rows \in [Docs -> [Units -> {"none", "sent", "received"}]]
  /\ req \in [Slots -> Request \cup {None}]
  /\ used \subseteq Nat

\* Receipt and recall exclude each other, "one of the two must win": a document
\* that a unit has received is not RECALLED (outgoing-recipients.ts:187).
RecalledIsUnreceived ==
  \A d \in Docs : wf[d].status = "RECALLED" => \A n \in Units : rows[d][n] # "received"

\* One decision per submission: a draft, or a submission that waits for its
\* reviewer, never carries an approval, however withdraw, approve, reject and a
\* second submission race (the status conditions at 629, 709 and 793).
PendingIsUndecided ==
  \A d \in Docs : wf[d].status \in {"DRAFT", "CONTENT_REVIEW"} => ~wf[d].approved

\* Separation of duties survives races: whoever approved the content is not the
\* drafter, and later steps do not take the reviewer's name away.
ReviewedByAnother ==
  \A d \in Docs : wf[d].approved => wf[d].reviewer \in Leaders \ {wf[d].drafter}

\* "Không được cấp số đi trước khi ký": a document that has a number is signed,
\* although signature, number and revision race (outgoing-document-service.ts:1135).
NumberedIsSigned ==
  \A d \in Docs : wf[d].number # 0 => wf[d].signer # None

\* The register never gives a number twice, to another document or to a later
\* version of the same one (a revision does not free its number).
NumbersAreFresh ==
  [][\A d \in Docs : wf'[d].number \notin {0, wf[d].number} => wf'[d].number \notin used]_vars

\* What the one step of AssignOutgoingNumber stands for: the register as NumberRegister
\* promises it, which the numbering engine implements statement by statement.
Register == INSTANCE NumberRegister WITH high <- lastNumber, out <- used

ImplementsRegister == Register!Spec

\* A user initials one version at most once, whatever requests race: the row
\* lock is taken before the duplicate is looked for (outgoing-initial-sign.ts:75).
InitialedOnce ==
  \A d \in Docs : \A g \in sigs[d] : g.kind = "INITIAL" => g.serial = 1

-----------------------------------------------------------------------------
(* Properties the commands keep when requests about one document do not    *)
(* overlap; the runs that check them have one slot.                        *)

\* No two requests in progress are about the same document.
DocumentsApart ==
  \A s, t \in Slots :
    req[s] # None /\ req[t] # None /\ req[s].doc = req[t].doc => s = t

\* Signer # Numberer and Signer # Organization Signer (state-machine.ts:16-17).
DutiesAreSeparate ==
  \A d \in Docs : wf[d].signer # None =>
    wf[d].signer # wf[d].numberer /\ wf[d].signer # wf[d].orgSigner

\* One signature and one seal per version, by whomever.
OneSignaturePerVersion ==
  \A d \in Docs : \A g, h \in sigs[d] :
    g.kind # "INITIAL" /\ g.kind = h.kind /\ g.version = h.version => g = h

\* A signature of an older version is revoked.
OldSignaturesAreRevoked ==
  \A d \in Docs : \A g \in sigs[d] : g.version < wf[d].version => ~g.valid

\* An issued document is signed, numbered and sealed, now and after delivery,
\* filing or recall, and carries a valid signature of its present version.
IssuedIsComplete ==
  \A d \in Docs : wf[d].status \in Issued \cup {"FILED", "RECALLED"} =>
    /\ wf[d].signer # None /\ wf[d].number # 0 /\ wf[d].orgSigner # None
    /\ \A kind \in {"PERSONAL", "ORGANIZATION"} :
         \E g \in sigs[d] : g.kind = kind /\ g.version = wf[d].version /\ g.valid

\* ADR-004: Document.status is synchronised with the workflow's status in the
\* transaction of every transition.
AdminInSync == \A d \in Docs : admin[d] = AdminStatus(wf[d].status)

-----------------------------------------------------------------------------
(* What comments and messages say that the code does not keep.             *)

\* "Đã thu hồi là trạng thái cuối": RECALLED is a final state (state-machine.ts:148).
RecalledIsFinal ==
  [][\A d \in Docs : wf[d].status = "RECALLED" => wf'[d].status = "RECALLED"]_vars

\* "Văn bản phải được phê duyệt nội dung trước khi chuyển kiểm tra thể thức":
\* the format check comes after the approval of the content.
FormatCheckIsApproved ==
  \A d \in Docs : wf[d].status = "FORMAT_CHECK" => wf[d].approved

\* Issuing deletes the rows of recipients because "chưa ai tiếp nhận": none of
\* them has been received.
ReceiptIsKept ==
  [][\A d \in Docs, n \in Units : rows[d][n] = "received" => rows'[d][n] = "received"]_vars

\* "Văn bản này đã có văn bản thay thế": a document that is replaced is not
\* replaced again, so no two are in force side by side (outgoing-recipients.ts:58,
\* recall-rules.ts:30).
ReplacedOnce ==
  \A d, e \in Docs : wf[d].replaces # None /\ wf[e].replaces = wf[d].replaces => d = e

-----------------------------------------------------------------------------
(***************************************************************************)
(* The inductive strengthening; OutgoingDocumentProofs proves it.  What a  *)
(* request checked on its first read is only worth something later if it   *)
(* cannot change, as the drafter cannot.                                   *)
(***************************************************************************)
RequestsAreChecked ==
  \A s \in Slots : req[s] # None =>
    /\ wf[req[s].doc].status # "NONE"
    /\ req[s].cmd \in Personal => req[s].user \in Users
    /\ req[s].cmd = "approve" => req[s].user \in Leaders \ {wf[req[s].doc].drafter}
    /\ req[s].cmd = "receive" => req[s].about \in Units
    /\ req[s].cmd \in {"issue", "issue-checked"} => req[s].about \in Docs \cup {None}
    /\ req[s].cmd \in {"revise", "reset"} => req[s].version < MaxVersion

UndraftedIsBlank ==
  \A d \in Docs : wf[d].status = "NONE" => ~wf[d].approved /\ wf[d].number = 0

\* The sequence is never behind a number that was given.
RegisterIsAhead ==
  /\ \A d \in Docs : reg[d] <= lastNumber
  /\ \A n \in used : n <= lastNumber

SignaturesAreFinite == \A d \in Docs : IsFiniteSet(sigs[d])

\* Document d carries a valid signature of its present version.
Carries(d, kind) ==
  \E g \in sigs[d] : g.kind = kind /\ g.version = wf[d].version /\ g.valid

\* What a row tells of the steps behind it, when they did not overlap: a status
\* is only worth the fields that were written on the way to it.
RowIsOrderly(d) ==
  LET r == wf[d]
  IN
  /\ r.signer = None => r.numberer = None /\ r.orgSigner = None
  /\ r.signer # None =>
       r.signer # r.numberer /\ r.signer # r.orgSigner /\ Carries(d, "PERSONAL")
  /\ r.number = 0 => r.orgSigner = None
  /\ r.orgSigner # None => Carries(d, "ORGANIZATION")
  /\ r.status = "NUMBERED" => r.number # 0 /\ r.orgSigner = None
  /\ r.status \in Issued \cup {"ORGANIZATION_SIGNED", "FILED", "RECALLED"} =>
       r.orgSigner # None
  /\ admin[d] = AdminStatus(r.status)

\* Every signature belongs to the present version or is a revoked one of an older
\* version; the fields of the row tell whether this version is signed and sealed.
SignaturesAreOrderly(d) ==
  /\ \A g \in sigs[d] :
       /\ g.version <= wf[d].version
       /\ g.version < wf[d].version => ~g.valid
       /\ g.version = wf[d].version /\ g.kind = "PERSONAL" => wf[d].signer # None
       /\ g.version = wf[d].version /\ g.kind = "ORGANIZATION" => wf[d].orgSigner # None
  /\ \A g, h \in sigs[d] :
       g.kind # "INITIAL" /\ g.kind = h.kind /\ g.version = h.version => g = h

\* What the request in slot s read is still so.
StillAccepted(s) ==
  LET q == req[s]
      r == wf[q.doc]
  IN
  /\ q.cmd \in Versioned \cup {"reset"} => q.version = r.version
  /\ q.cmd = "sign" => r.status = "AUTHORIZED_SIGN" /\ Unsigned(r)
  /\ q.cmd = "number" => r.number = 0 /\ IsNotSigner(q.user, r)
  /\ q.cmd = "org-sign" => r.status = "NUMBERED" /\ IsNotSigner(q.user, r)
  /\ q.cmd \in {"issue", "issue-checked"} => ReadyToIssue(r)
  /\ q.cmd = "deliver" => r.status \in Issued
  /\ q.cmd = "file" => r.status \in Issued \cup {"FILED"}
  /\ q.cmd = "reset" => q.revoked = SignaturesOf(q.doc, q.version)

OrderlyInv ==
  /\ \A d \in Docs : RowIsOrderly(d) /\ SignaturesAreOrderly(d)
  /\ \A s \in Slots : req[s] # None => StillAccepted(s)

DocumentInv ==
  /\ TypeOK /\ SignaturesAreFinite /\ RequestsAreChecked /\ UndraftedIsBlank
  /\ RegisterIsAhead /\ RecalledIsUnreceived /\ PendingIsUndecided
  /\ ReviewedByAnother /\ NumberedIsSigned /\ InitialedOnce
=============================================================================
