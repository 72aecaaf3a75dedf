-------------------------- MODULE OutboxRefinement --------------------------
(***************************************************************************)
(* The refinement mapping from the outbox as it is coded to its promise.   *)
(* PENDING and PROCESSING are both "waiting": claims, leases and backoffs  *)
(* are invisible above.  The promise is made for the rows that one cycle   *)
(* works on; where two do, an attempt may go uncharged.                    *)
(***************************************************************************)
EXTENDS Outbox

StateOf(st) ==
  CASE st = "NONE" -> "absent"
    [] st = "COMPLETED" -> "done"
    [] st = "FAILED" -> "dead"
    [] OTHER -> "waiting"

stateBar  == [e \in Alone |-> StateOf(status[e])]
budgetBar == [e \in Alone |-> MaxRetries - attempts[e]]
effectBar == [e \in Alone |-> delivered[e]]

Delivery == INSTANCE OutboxDelivery
              WITH Events <- Alone, state <- stateBar, budget <- budgetBar, effect <- effectBar

\* Whatever the kicks do beside the loop, every statement accepts, delivers,
\* completes or charges the rows that only the loop works on as the promise
\* allows, or changes nothing that their publisher can see.
ImplementsDelivery == Delivery!Spec
=============================================================================
