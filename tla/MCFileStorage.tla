---------------------------- MODULE MCFileStorage ----------------------------
(* The instance of FileStorage that TLC checks: one file the scanner fails *)
(* on and one other.                                                       *)
EXTENDS FileStorage
=============================================================================
