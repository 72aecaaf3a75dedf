-------------------------- MODULE NumberingProofs --------------------------
(***************************************************************************)
(* NumberingInv is an invariant for every set of calls, of legacy numbers  *)
(* and of numbers typed in.  The argument is in RowIsAhead: a call reads   *)
(* the row before it increments it, the row never goes down, so the gap it *)
(* computed can only make the number larger than it had to be.             *)
(***************************************************************************)
EXTENDS Numbering, TLAPS

USE DEF NoRow

\* What TypeOK says, by variable, together with the assumptions on the constants.
LEMMA Typed ==
  ASSUME NumberingInv
  PROVE  /\ last \in Int /\ last >= -1 /\ carried \subseteq Nat
         /\ \A t \in Calls : seq[t] \in Int /\ seq[t] >= -1 /\ largest[t] \in Nat
                             /\ number[t] \in Nat
BY DEF NumberingInv, TypeOK

\* The number a call computes is above the row it increments, above what it saw
\* if it saw the row, and above every legacy number.
LEMMA IncrementIsAhead ==
  ASSUME NumberingInv, NEW t \in Calls, pc[t] = "take"
  PROVE  /\ Incremented(t) \in Nat /\ Incremented(t) > last /\ Incremented(t) > 0
         /\ seq[t] # NoRow => Incremented(t) > largest[t]
         /\ \A n \in Legacy : n < Incremented(t)
<1>1. /\ last \in Int /\ last >= -1 /\ seq[t] \in Int /\ seq[t] >= -1 /\ largest[t] \in Nat
      /\ seq[t] <= last
  BY Typed DEF NumberingInv, RowIsAhead
<1>2. \A n \in Legacy : n \in Nat /\ n <= largest[t]
  BY NumberingAssumption DEF NumberingInv, LegacyIsBelow
<1>3. CASE last = NoRow
  BY <1>1, <1>2, <1>3 DEF Incremented
<1>4. CASE last # NoRow /\ seq[t] # NoRow
  BY <1>1, <1>2, <1>4 DEF Incremented
<1>5. CASE last # NoRow /\ seq[t] = NoRow
  <2>1. \A n \in Legacy : n <= last
    BY <1>5 DEF NumberingInv, LegacyIsBelow
  <2>. QED
    BY <1>1, <1>2, <1>5, <2>1 DEF Incremented
<1>. QED
  BY <1>3, <1>4, <1>5

\* Reading the sequence.
LEMMA ReadSequenceStep ==
  ASSUME NumberingInv, NEW t \in Calls, ReadSequence(t)
  PROVE  NumberingInv'
<1>. USE DEF NumberingInv, ReadSequence
<1>1. TypeOK'
  BY DEF TypeOK
<1>2. RowIsAhead'
  BY Typed DEF TypeOK, RowIsAhead, Numbered
<1>3. CarriedIsKnown'
  BY DEF TypeOK, CarriedIsKnown
<1>4. LegacyIsBelow'
  BY DEF TypeOK, LegacyIsBelow, Numbered
<1>5. NumbersDiffer' /\ AboveWhatWasSeen' /\ CollidesWithTypedOnly'
  BY DEF TypeOK, NumbersDiffer, AboveWhatWasSeen, CollidesWithTypedOnly, Numbered
<1>6. TakenInOrder'
  BY DEF TypeOK, TakenInOrder, Numbered
<1>. QED
  BY <1>1, <1>2, <1>3, <1>4, <1>5, <1>6

\* Looking for the largest number.
LEMMA ReadLargestStep ==
  ASSUME NumberingInv, NEW t \in Calls, ReadLargest(t)
  PROVE  NumberingInv'
<1>. USE DEF NumberingInv, ReadLargest
<1>1. PICK n \in {0} \cup carried : Largest(n) /\ largest' = [largest EXCEPT ![t] = n]
  OBVIOUS
<1>2. n \in Nat /\ \A m \in Legacy : m <= n
  BY <1>1 DEF TypeOK, Largest, CarriedIsKnown
<1>3. TypeOK'
  BY <1>1, <1>2 DEF TypeOK
<1>4. RowIsAhead'
  BY DEF TypeOK, RowIsAhead, Numbered
<1>5. CarriedIsKnown'
  BY DEF TypeOK, CarriedIsKnown
<1>6. LegacyIsBelow'
  BY <1>1, <1>2 DEF TypeOK, LegacyIsBelow, Numbered
<1>7. NumbersDiffer' /\ AboveWhatWasSeen' /\ CollidesWithTypedOnly'
  BY <1>1 DEF TypeOK, NumbersDiffer, AboveWhatWasSeen, CollidesWithTypedOnly, Numbered
<1>8. TakenInOrder'
  BY DEF TypeOK, TakenInOrder, Numbered
<1>. QED
  BY <1>3, <1>4, <1>5, <1>6, <1>7, <1>8

\* Incrementing the row.
LEMMA TakeNumberStep ==
  ASSUME NumberingInv, NEW t \in Calls, TakeNumber(t)
  PROVE  NumberingInv'
<1>. DEFINE n == Incremented(t)
<1>1. /\ n \in Nat /\ n > last /\ n > 0 /\ (seq[t] # NoRow => n > largest[t])
      /\ \A m \in Legacy : m < n
  BY IncrementIsAhead DEF TakeNumber
<1>2. /\ pc[t] = "take" /\ holder = Nobody
      /\ number' = [number EXCEPT ![t] = n] /\ pc' = [pc EXCEPT ![t] = "stamp"]
      /\ UNCHANGED <<carried, typed, seq, largest>>
      /\ \/ t \in Detached /\ last' = n /\ holder' = holder
         \/ t \notin Detached /\ holder' = t /\ last' = last
  BY DEF TakeNumber
<1>. HIDE DEF n
<1>. USE DEF NumberingInv
<1>3. TypeOK'
  BY <1>1, <1>2 DEF TypeOK
<1>4. \A u \in Calls : Numbered(u) => number[u] <= last /\ number[u] < n
  <2>1. \A u \in Calls : holder # u
    BY <1>2, NumberingAssumption
  <2>2. last < n
    BY <1>1, Typed
  <2>. QED
    BY <1>1, <2>1, <2>2, Typed DEF RowIsAhead
<1>5. RowIsAhead'
  <2>1. \A u \in Calls : seq'[u] <= last'
    BY <1>1, <1>2, Typed DEF RowIsAhead
  <2>2. \A u \in Calls : Numbered(u)' /\ holder' # u => number'[u] <= last'
    BY <1>1, <1>2, <1>4, Typed DEF TypeOK, Numbered
  <2>3. \A u \in Calls : holder' = u => pc'[u] = "stamp" /\ number'[u] > last'
    BY <1>1, <1>2, NumberingAssumption DEF TypeOK
  <2>. QED
    BY <2>1, <2>2, <2>3 DEF RowIsAhead
<1>6. CarriedIsKnown'
  BY <1>2 DEF TypeOK, CarriedIsKnown
<1>7. LegacyIsBelow'
  <2>1. \A u \in Calls : Numbered(u)' => \A m \in Legacy : m < number'[u]
    BY <1>1, <1>2 DEF TypeOK, LegacyIsBelow, Numbered
  <2>2. \A u \in Calls : pc'[u] \in {"take", "stamp", "done"} => \A m \in Legacy : m <= largest'[u]
    BY <1>2 DEF TypeOK, LegacyIsBelow
  <2>3. \/ last' = NoRow
        \/ \A m \in Legacy : m <= last'
        \/ \A u \in Calls : pc'[u] \in {"look", "take"} => seq'[u] # NoRow
    BY <1>1, <1>2, Typed, NumberingAssumption DEF TypeOK, LegacyIsBelow
  <2>. QED
    BY <2>1, <2>2, <2>3 DEF LegacyIsBelow
<1>8. NumbersDiffer'
  BY <1>1, <1>2, <1>4, Typed DEF TypeOK, NumbersDiffer, Numbered
<1>9. AboveWhatWasSeen'
  BY <1>1, <1>2 DEF TypeOK, AboveWhatWasSeen, Numbered
<1>10. CollidesWithTypedOnly'
  <2>1. n \in carried => n \in typed
    BY <1>1, <1>4, Typed DEF CarriedIsKnown, Numbered
  <2>. QED
    BY <1>2, <2>1 DEF TypeOK, CollidesWithTypedOnly
<1>11. TakenInOrder'
  <2>1. \A u \in Calls : pc'[u] \in {"start", "look", "take"} => number'[u] = 0
    BY <1>2 DEF TypeOK, TakenInOrder
  <2>2. \A u \in Calls : Numbered(u)' => number'[u] > 0
    BY <1>1, <1>2 DEF TypeOK, TakenInOrder, Numbered
  <2>3. \A u \in Calls : holder' = u <=> pc'[u] = "stamp" /\ u \notin Detached
    BY <1>2, NumberingAssumption DEF TypeOK, TakenInOrder
  <2>. QED
    BY <2>1, <2>2, <2>3 DEF TakenInOrder
<1>. QED
  BY <1>3, <1>5, <1>6, <1>7, <1>8, <1>9, <1>10, <1>11

\* Writing the document and committing.
LEMMA StampDocumentStep ==
  ASSUME NumberingInv, NEW t \in Calls, StampDocument(t)
  PROVE  NumberingInv'
<1>1. /\ pc[t] = "stamp" /\ carried' = carried \cup {number[t]}
      /\ pc' = [pc EXCEPT ![t] = "done"] /\ UNCHANGED <<typed, seq, largest, number>>
      /\ \/ holder = t /\ last' = number[t] /\ holder' = Nobody
         \/ holder # t /\ UNCHANGED <<last, holder>>
  BY DEF StampDocument
<1>. USE DEF NumberingInv
<1>2. \A m \in Legacy : m \in Nat /\ m < number[t]
  BY <1>1, NumberingAssumption DEF LegacyIsBelow, Numbered
<1>3. \A u \in Calls : Numbered(u)' <=> Numbered(u)
  BY <1>1 DEF TypeOK, Numbered
<1>4. last' \in Int /\ last' >= last /\ (last' # last => last' = number[t])
  BY <1>1, Typed DEF RowIsAhead
<1>5. TypeOK'
  BY <1>1 DEF TypeOK
<1>6. RowIsAhead'
  <2>1. \A u \in Calls : seq'[u] <= last'
    BY <1>1, <1>4, Typed DEF RowIsAhead
  <2>2. \A u \in Calls : Numbered(u)' /\ holder' # u => number'[u] <= last'
    BY <1>1, <1>3, <1>4, Typed DEF RowIsAhead
  <2>3. \A u \in Calls : holder' = u => pc'[u] = "stamp" /\ number'[u] > last'
    BY <1>1, NumberingAssumption DEF TypeOK, RowIsAhead
  <2>. QED
    BY <2>1, <2>2, <2>3 DEF RowIsAhead
<1>7. CarriedIsKnown'
  BY <1>1 DEF TypeOK, CarriedIsKnown
<1>8. LegacyIsBelow'
  <2>1. \A u \in Calls : Numbered(u)' => \A m \in Legacy : m < number'[u]
    BY <1>1, <1>3 DEF LegacyIsBelow
  <2>2. \A u \in Calls : pc'[u] \in {"take", "stamp", "done"} => \A m \in Legacy : m <= largest'[u]
    BY <1>1 DEF TypeOK, LegacyIsBelow
  <2>3. \/ last' = NoRow
        \/ \A m \in Legacy : m <= last'
        \/ \A u \in Calls : pc'[u] \in {"look", "take"} => seq'[u] # NoRow
    BY <1>1, <1>2, <1>4, Typed DEF TypeOK, LegacyIsBelow
  <2>. QED
    BY <2>1, <2>2, <2>3 DEF LegacyIsBelow
<1>9. NumbersDiffer' /\ AboveWhatWasSeen'
  BY <1>1, <1>3 DEF NumbersDiffer, AboveWhatWasSeen
<1>10. CollidesWithTypedOnly'
  <2>1. \A u \in Calls : pc'[u] = "stamp" => pc[u] = "stamp" /\ u # t /\ number[u] # number[t]
    BY <1>1 DEF TypeOK, NumbersDiffer, Numbered
  <2>. QED
    BY <1>1, <2>1 DEF CollidesWithTypedOnly
<1>11. TakenInOrder'
  <2>1. \A u \in Calls : holder' = u <=> pc'[u] = "stamp" /\ u \notin Detached
    BY <1>1, NumberingAssumption DEF TypeOK, TakenInOrder
  <2>. QED
    BY <1>1, <1>3, <2>1 DEF TypeOK, TakenInOrder
<1>. QED
  BY <1>5, <1>6, <1>7, <1>8, <1>9, <1>10, <1>11

\* A call that fails releases the row as it was.
LEMMA AbortStep ==
  ASSUME NumberingInv, NEW t \in Calls, Abort(t)
  PROVE  NumberingInv'
<1>1. /\ pc[t] # "done" /\ pc' = [pc EXCEPT ![t] = "lost"]
      /\ UNCHANGED <<last, carried, typed, seq, largest, number>>
      /\ holder' = IF holder = t THEN Nobody ELSE holder
  BY DEF Abort
<1>. USE DEF NumberingInv
<1>2. \A u \in Calls : Numbered(u)' => Numbered(u) /\ u # t
  BY <1>1 DEF TypeOK, Numbered
<1>3. TypeOK'
  BY <1>1 DEF TypeOK
<1>4. RowIsAhead'
  BY <1>1, <1>2, NumberingAssumption DEF TypeOK, RowIsAhead
<1>5. CarriedIsKnown'
  BY <1>1 DEF TypeOK, CarriedIsKnown
<1>6. LegacyIsBelow'
  BY <1>1, <1>2 DEF TypeOK, LegacyIsBelow
<1>7. NumbersDiffer' /\ AboveWhatWasSeen' /\ CollidesWithTypedOnly'
  BY <1>1, <1>2 DEF TypeOK, NumbersDiffer, AboveWhatWasSeen, CollidesWithTypedOnly
<1>8. TakenInOrder'
  <2>1. \A u \in Calls : holder' = u <=> pc'[u] = "stamp" /\ u \notin Detached
    BY <1>1, NumberingAssumption DEF TypeOK, TakenInOrder
  <2>. QED
    BY <1>1, <1>2, <2>1 DEF TypeOK, TakenInOrder
<1>. QED
  BY <1>3, <1>4, <1>5, <1>6, <1>7, <1>8

\* A number typed in is one that everybody knows was typed in.
LEMMA RegisterExplicitStep ==
  ASSUME NumberingInv, NEW n \in Explicit, RegisterExplicit(n)
  PROVE  NumberingInv'
<1>1. /\ carried' = carried \cup {n} /\ typed' = typed \cup {n} /\ n \in Nat
      /\ UNCHANGED <<last, holder, pc, seq, largest, number>>
  BY NumberingAssumption DEF RegisterExplicit
<1>. USE DEF NumberingInv
<1>2. TypeOK' /\ CarriedIsKnown'
  BY <1>1 DEF TypeOK, CarriedIsKnown
<1>3. RowIsAhead' /\ LegacyIsBelow' /\ TakenInOrder'
  BY <1>1 DEF RowIsAhead, LegacyIsBelow, TakenInOrder, Numbered
<1>4. NumbersDiffer' /\ AboveWhatWasSeen' /\ CollidesWithTypedOnly'
  BY <1>1 DEF NumbersDiffer, AboveWhatWasSeen, CollidesWithTypedOnly, Numbered
<1>. QED
  BY <1>2, <1>3, <1>4

-----------------------------------------------------------------------------
\* NumberingInv holds in every state of every behaviour.
THEOREM Invariant == Spec => []NumberingInv
<1>1. Init => NumberingInv
  BY NumberingAssumption DEF Init, NumberingInv, TypeOK, RowIsAhead, CarriedIsKnown,
     LegacyIsBelow, TakenInOrder, NumbersDiffer, AboveWhatWasSeen, CollidesWithTypedOnly, Numbered
<1>2. NumberingInv /\ [Next]_vars => NumberingInv'
  <2>. SUFFICES ASSUME NumberingInv, [Next]_vars PROVE NumberingInv'
    OBVIOUS
  <2>1. CASE UNCHANGED vars
    BY <2>1 DEF vars, NumberingInv, TypeOK, RowIsAhead, CarriedIsKnown, LegacyIsBelow,
       TakenInOrder, NumbersDiffer, AboveWhatWasSeen, CollidesWithTypedOnly, Numbered
  <2>. QED
    BY <2>1, ReadSequenceStep, ReadLargestStep, TakeNumberStep, StampDocumentStep,
       AbortStep, RegisterExplicitStep DEF Next
<1>. QED
  BY <1>1, <1>2, PTL DEF Spec

\* The values of the sequence and of every call keep their types.
THEOREM TypeCorrect == Spec => []TypeOK
<1>1. NumberingInv => TypeOK
  BY DEF NumberingInv
<1>. QED
  BY <1>1, Invariant, PTL

\* "Non-repeating": no two calls ever hold the same number, whatever statements
\* interleave and whichever calls fail.
THEOREM NonRepeating == Spec => []NumbersDiffer
<1>1. NumberingInv => NumbersDiffer
  BY DEF NumberingInv
<1>. QED
  BY <1>1, Invariant, PTL

\* A number is above everything a document carried when the call looked, if the
\* sequence row existed.
THEOREM AboveEveryDocumentSeen == Spec => []AboveWhatWasSeen
<1>1. NumberingInv => AboveWhatWasSeen
  BY DEF NumberingInv
<1>. QED
  BY <1>1, Invariant, PTL

\* Only a number that somebody typed in can make the unique index refuse a call.
THEOREM OnlyTypedNumbersCollide == Spec => []CollidesWithTypedOnly
<1>1. NumberingInv => CollidesWithTypedOnly
  BY DEF NumberingInv
<1>. QED
  BY <1>1, Invariant, PTL

-----------------------------------------------------------------------------
(* The engine implements the register.                                     *)

\* What has been given belongs to the calls, as they and their numbers are.
LEMMA GivenKept ==
  ASSUME \A t \in Calls : Given(t)' <=> Given(t),
         \A t \in Calls : Given(t) => number'[t] = number[t],
         last' = last
  PROVE  UNCHANGED <<highBar, outBar>>
BY DEF highBar, outBar

\* One call more has a number, which is the row now and was above it before.
LEMMA GivesOne ==
  ASSUME NumberingInv, NEW t \in Calls, ~Given(t), Given(t)',
         \A u \in Calls \ {t} : (Given(u)' <=> Given(u)) /\ number'[u] = number[u],
         number'[t] \in Nat, number'[t] > 0, number'[t] > last, last' = number'[t]
  PROVE  Register!Next
<1>1. outBar' = outBar \cup {number'[t]}
  BY DEF outBar
<1>2. highBar' = number'[t] /\ number'[t] > highBar
  BY Typed DEF highBar
<1>3. Register!Give
  BY <1>1, <1>2 DEF Register!Give
<1>. QED
  BY <1>3 DEF Register!Next

\* A detached call gives its number when it takes it, any other when it commits; no
\* other statement, failure or typed number gives or takes back one.
LEMMA RegisterStep ==
  ASSUME NumberingInv, [Next]_vars
  PROVE  [Register!Next]_(Register!vars)
<1>. USE DEF NumberingInv, TypeOK
<1>. SUFFICES Register!Next \/ UNCHANGED <<highBar, outBar>>
  BY DEF Register!vars
<1>1. ASSUME NEW t \in Calls, ReadSequence(t) \/ ReadLargest(t)
      PROVE  UNCHANGED <<highBar, outBar>>
  <2>1. UNCHANGED <<last, number>> /\ \A u \in Calls : pc'[u] = "done" <=> pc[u] = "done"
    BY <1>1 DEF ReadSequence, ReadLargest
  <2>. QED
    BY <2>1, GivenKept DEF Given
<1>2. ASSUME NEW t \in Calls, TakeNumber(t)
      PROVE  Register!Next \/ UNCHANGED <<highBar, outBar>>
  <2>1. /\ number[t] = 0 /\ pc'[t] = "stamp"
        /\ number' = [number EXCEPT ![t] = number'[t]] /\ number'[t] = Incremented(t)
        /\ \A u \in Calls \ {t} : pc'[u] = pc[u]
        /\ \/ t \in Detached /\ last' = Incremented(t)
           \/ t \notin Detached /\ last' = last
    BY <1>2 DEF TakeNumber, TakenInOrder
  <2>2. Incremented(t) \in Nat /\ Incremented(t) > last /\ Incremented(t) > 0
    BY <1>2, IncrementIsAhead DEF TakeNumber
  <2>3. \A u \in Calls \ {t} : (Given(u)' <=> Given(u)) /\ number'[u] = number[u]
    BY <2>1 DEF Given
  <2>4. CASE t \in Detached
    <3>1. ~Given(t) /\ Given(t)'
      BY <2>1, <2>2, <2>4 DEF Given
    <3>. QED
      BY <2>1, <2>2, <2>3, <2>4, <3>1, GivesOne
  <2>5. CASE t \notin Detached
    <3>1. ~Given(t) /\ ~Given(t)'
      BY <2>1, <2>5 DEF Given
    <3>. QED
      BY <2>1, <2>3, <2>5, <3>1, GivenKept
  <2>. QED
    BY <2>4, <2>5
<1>3. ASSUME NEW t \in Calls, StampDocument(t)
      PROVE  Register!Next \/ UNCHANGED <<highBar, outBar>>
  <2>1. /\ pc[t] = "stamp" /\ pc' = [pc EXCEPT ![t] = "done"] /\ number' = number
        /\ number[t] \in Nat /\ number[t] > 0
        /\ \/ holder = t /\ last' = number[t]
           \/ holder # t /\ last' = last
    BY <1>3 DEF StampDocument, TakenInOrder, Numbered
  <2>2. \A u \in Calls \ {t} : (Given(u)' <=> Given(u)) /\ number'[u] = number[u]
    BY <2>1 DEF Given
  <2>3. CASE t \in Detached
    <3>1. Given(t) /\ Given(t)' /\ last' = last
      BY <2>1, <2>3 DEF Given, TakenInOrder
    <3>. QED
      BY <2>1, <2>2, <3>1, GivenKept
  <2>4. CASE t \notin Detached
    <3>1. ~Given(t) /\ Given(t)' /\ last' = number[t] /\ number[t] > last
      BY <2>1, <2>4 DEF Given, TakenInOrder, RowIsAhead
    <3>. QED
      BY <2>1, <2>2, <3>1, GivesOne
  <2>. QED
    BY <2>3, <2>4
<1>4. ASSUME NEW t \in Calls, Abort(t)
      PROVE  UNCHANGED <<highBar, outBar>>
  <2>1. UNCHANGED <<last, number>> /\ \A u \in Calls : pc'[u] = "done" <=> pc[u] = "done"
    BY <1>4 DEF Abort
  <2>. QED
    BY <2>1, GivenKept DEF Given
<1>5. ASSUME NEW n \in Explicit, RegisterExplicit(n)
      PROVE  UNCHANGED <<highBar, outBar>>
  BY <1>5 DEF RegisterExplicit, highBar, outBar, Given
<1>6. CASE UNCHANGED vars
  BY <1>6 DEF vars, highBar, outBar, Given
<1>. QED
  BY <1>1, <1>2, <1>3, <1>4, <1>5, <1>6 DEF Next

\* The numbering engine keeps the promise of NumberRegister, with any number of calls
\* at work, transactional or detached, and over any documents and typed numbers.
THEOREM EngineImplementsRegister == Spec => ImplementsRegister
<1>1. Init => Register!Init
  BY DEF Init, Register!Init, highBar, outBar, Given
<1>2. NumberingInv /\ [Next]_vars => [Register!Next]_(Register!vars)
  BY RegisterStep
<1>. QED
  BY <1>1, <1>2, Invariant, PTL DEF Spec, ImplementsRegister, Register!Spec
=============================================================================
