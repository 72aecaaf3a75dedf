--------------------------- MODULE NumberRegister ---------------------------
(***************************************************************************)
(* What a register of documents promises, without calls, locks or          *)
(* transactions: the numbers it gives only rise, so it gives none twice.   *)
(* Numbering shows that the numbering engine keeps this promise although   *)
(* every call computes from old reads; OutgoingDocument, which takes a     *)
(* number in one step, keeps it as well.  That is why it may do so.        *)
(***************************************************************************)
EXTENDS Integers

VARIABLES
  high,  \* the last number given
  out    \* all numbers given

vars == <<high, out>>

Init == high = 0 /\ out = {}

\* The next number need not follow the last one; it only has to be above it.
Give ==
  /\ high' \in Nat /\ high' > high
  /\ out' = out \cup {high'}

Next == Give

Spec == Init /\ [][Next]_vars
=============================================================================
