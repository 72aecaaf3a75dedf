--------------------------- MODULE MCIdempotency ---------------------------
(* Symmetry for the runs of Idempotency; requests that poll are alike, and *)
(* so are those that do not.                                               *)
EXTENDS Idempotency, TLC

RequestSymmetry == Permutations(Requests \ Pollers) \cup Permutations(Pollers)
                     \cup Permutations(Payloads)
=============================================================================
