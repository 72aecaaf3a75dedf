------------------------- MODULE MCOutgoingDocument -------------------------
(* Model values and symmetry for the runs of OutgoingDocument.             *)
EXTENDS OutgoingDocument, TLC

SlotSymmetry == Permutations(Slots)
SlotDocSymmetry == Permutations(Slots) \cup Permutations(Docs)
=============================================================================
