------------------------------ MODULE MCKernel ------------------------------
(* Kernel on small instances, for TLC. *)
EXTENDS Kernel

CONSTANTS t1, t2, t3, mutex, packets

\* Kernel treats all threads alike; sound for the invariants when BootThreads
\* is the set of all threads.
ThreadSymmetry == Permutations(Threads)

=============================================================================
