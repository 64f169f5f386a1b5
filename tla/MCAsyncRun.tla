----------------------------- MODULE MCAsyncRun -----------------------------
(* Small instances of AsyncRun for TLC. *)
EXTENDS AsyncRun, TLC

\* Interchangeable runs, VMs and status requests (safety runs only).
RunSymmetry == Permutations(Runs) \cup Permutations(Targets) \cup Permutations(Pollers)
=============================================================================
