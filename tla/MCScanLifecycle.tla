-------------------------- MODULE MCScanLifecycle --------------------------
(***************************************************************************)
(* Instances of ScanLifecycle for TLC.  Scans, requests and tasks are each *)
(* identical among themselves, so their permutations are symmetries of the *)
(* safety runs.  The liveness run declares no symmetry.                    *)
(***************************************************************************)
EXTENDS ScanLifecycle, TLC

Symmetry == Permutations(Scan) \cup Permutations(Request) \cup Permutations(Task)
=============================================================================
