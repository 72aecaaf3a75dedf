------------------------------ MODULE MCOutbox ------------------------------
(* Instances of Outbox for TLC: events, loops and kicks are model values. *)
EXTENDS OutboxRefinement, TLC
=============================================================================
