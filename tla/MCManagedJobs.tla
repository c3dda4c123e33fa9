---------------------------- MODULE MCManagedJobs ----------------------------
(* Instances of ManagedJobs for TLC. *)
EXTENDS ManagedJobs

CONSTANTS r1, k1

\* Keys are interchangeable: the first request, while new, carries the first key.
FirstKeyFirst == req[r1].pc = "new" => req[r1].key = k1
=============================================================================
