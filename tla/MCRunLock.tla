------------------------------ MODULE MCRunLock ------------------------------
(* Model checking of RunLock on a few runs, hosts and pids.                *)
EXTENDS RunLock, TLC
Symmetric == Permutations(Runs) \cup Permutations(Hosts) \cup Permutations(Pids)
=============================================================================
