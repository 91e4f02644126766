------------------------------- MODULE MCPipe -------------------------------
(* Pipe on small instances, for every policy some student's pipe.c uses.       *)
EXTENDS Pipe, PipeVariants

AllPolicies == {PolicyOf(v) : v \in Variants}
AlignedPolicies == {PolicyOf(v) : v \in Aligned}
UnalignedPolicies == {PolicyOf(v) : v \in Variants \ Aligned}
=============================================================================
