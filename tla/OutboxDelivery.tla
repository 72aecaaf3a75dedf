--------------------------- MODULE OutboxDelivery ---------------------------
(***************************************************************************)
(* What the outbox promises about each event, without workers, leases or   *)
(* batches (packages/db/src/outbox.ts, "architectural invariants" 3 to 5): *)
(* an accepted event waits; every attempt, even one that a crash cut       *)
(* short, costs one unit of a fixed budget; the event is done only after a *)
(* successful delivery, dead exactly when its budget is gone, and then     *)
(* stays so.                                                               *)
(***************************************************************************)
EXTENDS Naturals

CONSTANTS Events, MaxRetries

VARIABLES
  state,   \* "absent", "waiting", "done" or "dead"
  budget,  \* attempts left
  effect   \* has some delivery succeeded?

vars == <<state, budget, effect>>

Init ==
  /\ state \in [Events -> {"absent", "waiting"}]
  /\ budget = [e \in Events |-> MaxRetries]
  /\ effect = [e \in Events |-> FALSE]

Accept(e) ==
  /\ state[e] = "absent"
  /\ state' = [state EXCEPT ![e] = "waiting"]
  /\ UNCHANGED <<budget, effect>>

Deliver(e) ==
  /\ state[e] = "waiting"
  /\ effect' = [effect EXCEPT ![e] = TRUE]
  /\ UNCHANGED <<state, budget>>

Complete(e) ==
  /\ state[e] = "waiting" /\ effect[e] /\ budget[e] > 0
  /\ state' = [state EXCEPT ![e] = "done"]
  /\ budget' = [budget EXCEPT ![e] = @ - 1]
  /\ UNCHANGED effect

\* One attempt is lost for every event of a set (a recovery statement charges
\* many rows at once); an event with nothing left is dead.
Miss(lost) ==
  /\ \A e \in lost : state[e] = "waiting" /\ budget[e] > 0
  /\ state' = [e \in Events |-> IF e \in lost /\ budget[e] = 1 THEN "dead" ELSE state[e]]
  /\ budget' = [e \in Events |-> IF e \in lost THEN budget[e] - 1 ELSE budget[e]]
  /\ UNCHANGED effect

Next ==
  \/ \E e \in Events : Accept(e) \/ Deliver(e) \/ Complete(e)
  \/ \E lost \in SUBSET Events : Miss(lost)

Spec == Init /\ [][Next]_vars
=============================================================================
