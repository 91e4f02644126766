------------------------------- MODULE MCMutex -------------------------------
(* Mutex with a few processes, for every student's version.                    *)
EXTENDS Mutex, MutexVariants

LOCAL INSTANCE TLC

(* Mutex never tells one process from another.                                 *)
ProcSymmetry == Permutations(Procs)
==============================================================================
