----------------------------- MODULE Numbering -----------------------------
(***************************************************************************)
(* getNextRegistrationNumber of numbering-engine.ts, statement by          *)
(* statement, under PostgreSQL's READ COMMITTED: one sequence row (one     *)
(* type and year) and the numbers that documents of that type carry.       *)
(* OutgoingDocument takes a number in one step; here is why it may.        *)
(*                                                                         *)
(* A call reads the sequence row, then the largest number a document       *)
(* carries, then increments the row by what it has computed.  The          *)
(* increment waits for the row's lock and applies to the committed value;  *)
(* the transaction that made it holds the lock until it commits.           *)
(***************************************************************************)
EXTENDS Integers

CONSTANTS
  Calls,     \* calls of getNextRegistrationNumber
  Detached,  \* those made with the root client (createDocument of the route)
  Legacy,    \* numbers documents carry before the sequence is used
  Explicit,  \* numbers that the registry types in itself
  Nobody

NoRow == -1  \* the sequence row does not exist

ASSUME NumberingAssumption ==
  /\ Detached \subseteq Calls
  /\ Legacy \subseteq Nat \ {0} /\ Explicit \subseteq Nat \ {0}
  /\ Nobody \notin Calls

VARIABLES
  last,      \* the committed sequence row
  holder,    \* the call whose transaction holds the row's lock
  carried,   \* numbers of committed documents (unique per type and year)
  typed,     \* history: numbers that were registered explicitly
  pc, seq, largest, number  \* each call: its reads and the number it returns

vars == <<last, holder, carried, typed, pc, seq, largest, number>>

Largest(n) == \A m \in carried : m <= n

Init ==
  /\ carried = Legacy /\ typed = {}
  /\ \/ last = NoRow
     \/ last = 0
  /\ holder = Nobody
  /\ pc = [t \in Calls |-> "start"]
  /\ seq = [t \in Calls |-> NoRow]
  /\ largest = [t \in Calls |-> 0]
  /\ number = [t \in Calls |-> 0]

\* findUnique on the sequence.
ReadSequence(t) ==
  /\ pc[t] = "start"
  /\ seq' = [seq EXCEPT ![t] = last]
  /\ pc' = [pc EXCEPT ![t] = "look"]
  /\ UNCHANGED <<last, holder, carried, typed, largest, number>>

\* findFirst, registrationNumber descending.
ReadLargest(t) ==
  /\ pc[t] = "look"
  /\ \E n \in {0} \cup carried :
       /\ Largest(n)
       /\ largest' = [largest EXCEPT ![t] = n]
  /\ pc' = [pc EXCEPT ![t] = "take"]
  /\ UNCHANGED <<last, holder, carried, typed, seq, number>>

\* Mutants: the update sets the row to the gap's end; the increment forgets the
\* gap.
SetToGap(t) ==
  IF last = NoRow \/ (seq[t] # NoRow /\ largest[t] >= seq[t])
    THEN largest[t] + 1 ELSE last + 1
IncrementedByOne(t) == IF last = NoRow THEN largest[t] + 1 ELSE last + 1

\* The row after the statement: created above the documents, or incremented,
\* by the gap if it was seen behind them.
Incremented(t) ==
  CASE last = NoRow -> largest[t] + 1
    [] last # NoRow /\ seq[t] # NoRow /\ largest[t] >= seq[t]
         -> last + (largest[t] + 1 - seq[t])
    [] OTHER -> last + 1

\* upsert or update.  A detached call is a transaction of its own: it commits
\* the row at once and writes its document afterwards.
TakeNumber(t) ==
  /\ pc[t] = "take"
  /\ holder = Nobody
  /\ number' = [number EXCEPT ![t] = Incremented(t)]
  /\ IF t \in Detached
       THEN last' = Incremented(t) /\ UNCHANGED holder
       ELSE holder' = t /\ UNCHANGED last
  /\ pc' = [pc EXCEPT ![t] = "stamp"]
  /\ UNCHANGED <<carried, typed, seq, largest>>

\* The document is written and the transaction commits, unless the number is
\* taken: the unique index then refuses it, and Abort is all that is left.
StampDocument(t) ==
  /\ pc[t] = "stamp"
  /\ number[t] \notin carried
  /\ carried' = carried \cup {number[t]}
  /\ IF holder = t
       THEN last' = number[t] /\ holder' = Nobody
       ELSE UNCHANGED <<last, holder>>
  /\ pc' = [pc EXCEPT ![t] = "done"]
  /\ UNCHANGED <<typed, seq, largest, number>>

\* The call fails or its process dies; an open transaction is rolled back.
Abort(t) ==
  /\ pc[t] # "done" /\ pc[t] # "lost"
  /\ holder' = IF holder = t THEN Nobody ELSE holder
  /\ pc' = [pc EXCEPT ![t] = "lost"]
  /\ UNCHANGED <<last, carried, typed, seq, largest, number>>

\* createIncomingDocument and createDocument take a number given to them as it
\* is, without the sequence.
RegisterExplicit(n) ==
  /\ n \notin carried
  /\ carried' = carried \cup {n}
  /\ typed' = typed \cup {n}
  /\ UNCHANGED <<last, holder, pc, seq, largest, number>>

Next ==
  \/ \E t \in Calls : \/ ReadSequence(t) \/ ReadLargest(t) \/ TakeNumber(t)
                      \/ StampDocument(t) \/ Abort(t)
  \/ \E n \in Explicit : RegisterExplicit(n)

Spec == Init /\ [][Next]_vars

-----------------------------------------------------------------------------
(* Properties.                                                             *)

\* The row, the documents and the calls keep their types; a typed number is
\* carried by a document.
TypeOK ==
  /\ last \in Nat \cup {NoRow}
  /\ holder \in Calls \cup {Nobody}
  /\ carried \subseteq Nat /\ typed \subseteq carried
  /\ pc \in [Calls -> {"start", "look", "take", "stamp", "done", "lost"}]
  /\ seq \in [Calls -> Nat \cup {NoRow}]
  /\ largest \in [Calls -> Nat]
  /\ number \in [Calls -> Nat]

Numbered(t) == pc[t] \in {"stamp", "done"}

\* "Non-repeating": two calls never hold the same number, committed or about to
\* be, although each computed its increment from what it had read before.
NumbersDiffer ==
  \A t, u \in Calls : t # u /\ Numbered(t) /\ Numbered(u) => number[t] # number[u]

\* A call that found the row gives a number above every number that a document
\* carried when it looked, although it had read the row before and the row has
\* moved since.
AboveWhatWasSeen ==
  \A t \in Calls : Numbered(t) /\ seq[t] # NoRow => number[t] > largest[t]

\* A call finds its number taken by a document only where somebody typed it in;
\* it never runs into a legacy record or into another call.
CollidesWithTypedOnly ==
  \A t \in Calls : pc[t] = "stamp" /\ number[t] \in carried => number[t] \in typed

\* "Reconcile with existing documents if any to prevent collision"
\* (numbering-engine.ts:136): no call is given the number that it saw a document
\* carry.
SeenIsAvoided ==
  \A t \in Calls : pc[t] = "stamp" /\ largest[t] # 0 => number[t] # largest[t]

\* "Guarantees consecutive" numbers (numbering-engine.ts:89): below a number given,
\* there is no number that no document carries.
Consecutive ==
  \A t \in Calls : pc[t] = "done" => number[t] = 1 \/ number[t] - 1 \in carried

\* The committed part of a number: what a detached call has taken, and what another
\* call has taken and its transaction has committed.
Given(t) == number[t] # 0 /\ (t \in Detached \/ pc[t] = "done")

highBar == IF last = NoRow THEN 0 ELSE last
outBar == {number[t] : t \in {u \in Calls : Given(u)}}

Register == INSTANCE NumberRegister WITH high <- highBar, out <- outBar

\* "Non-repeating numbers" (numbering-engine.ts:89), as a register promises them: every
\* commit of the sequence gives one number, above all that were given before, although
\* the call computed it from what the row and the documents were two reads ago.
ImplementsRegister == Register!Spec

-----------------------------------------------------------------------------
(* The inductive strengthening; NumberingProofs proves it.                 *)

\* The row is never below a number given or a value read; the number of the open
\* transaction, the one that will overwrite it, is above it.
RowIsAhead ==
  /\ \A t \in Calls : seq[t] <= last
  /\ \A t \in Calls : Numbered(t) /\ holder # t => number[t] <= last
  /\ \A t \in Calls : holder = t => pc[t] = "stamp" /\ number[t] > last

\* A carried number is a legacy one, typed in, or given by a call.
CarriedIsKnown ==
  /\ Legacy \subseteq carried
  /\ \A n \in carried \ (Legacy \cup typed) : \E t \in Calls : pc[t] = "done" /\ number[t] = n

\* Legacy numbers are seen by every look, and the row of a race to create it was
\* created above them.
LegacyIsBelow ==
  /\ \A t \in Calls : pc[t] \in {"take", "stamp", "done"} => \A n \in Legacy : n <= largest[t]
  /\ \A t \in Calls : Numbered(t) => \A n \in Legacy : n < number[t]
  /\ \/ last = NoRow
     \/ \A n \in Legacy : n <= last
     \/ \A t \in Calls : pc[t] \in {"look", "take"} => seq[t] # NoRow

\* A call has a number from its third statement on, and the lock until it commits if
\* it is in a transaction of its caller.
TakenInOrder ==
  /\ \A t \in Calls : pc[t] \in {"start", "look", "take"} => number[t] = 0
  /\ \A t \in Calls : Numbered(t) => number[t] > 0
  /\ \A t \in Calls : holder = t <=> pc[t] = "stamp" /\ t \notin Detached

NumberingInv ==
  /\ TypeOK /\ RowIsAhead /\ TakenInOrder /\ CarriedIsKnown /\ LegacyIsBelow
  /\ NumbersDiffer /\ AboveWhatWasSeen /\ CollidesWithTypedOnly
=============================================================================
