----------------------------- MODULE MCEventLog -----------------------------
(* Two processes; ids are interchangeable, and so are processes.            *)
EXTENDS EventLog

Symmetry == Permutations(Ids) \cup Permutations(Procs)
=============================================================================
