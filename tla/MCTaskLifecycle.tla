--------------------------- MODULE MCTaskLifecycle ---------------------------
(* Symmetry for the runs of TaskLifecycle.                                 *)
EXTENDS TaskLifecycle, TLC

TaskSymmetry == Permutations(Users) \cup Permutations(Slots) \cup Permutations(Children)

\* A command whose version has gone can only be refused, whatever it was.
TaskView == <<task, procs, child, roll, moves, touched, stray,
              [s \in Slots |-> IF req[s].version = "old" THEN "old" ELSE req[s]]>>
=============================================================================
