------------------------------- MODULE MCSched -------------------------------
(* Sched on small instances, for every control some student's proc.c has.      *)
EXTENDS Sched, SchedVariants

LOCAL INSTANCE TLC

(* A kernel that knows Control-C does all that the same kernel without it does, *)
(* as nobody need ever press it: only the former is checked.                   *)
Leaking == {v \in Kernels : ~v.killReleases}
Sound == {v \in Kernels \ Leaking : [v EXCEPT !.killsJobs = TRUE] \in Kernels => v.killsJobs}

(* A processor that halts does nothing that one which goes round and round does *)
(* not: invariants need no kernel that halts, progress does.                   *)
Busy == {v \in Sound : ~v.halts}

(* Sched never tells one processor from another.                               *)
CpuSymmetry == Permutations(CPUs)
=============================================================================
