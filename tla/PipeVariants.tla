---------------------------- MODULE PipeVariants ----------------------------
(* The block-copy policy and ring size of each student's pipe.c whose control *)
(* is the one of module Pipe.                                                 *)
EXTENDS Integers

alanhumphrey   == [size |-> 4096, write |-> "split",   read |-> "split"]
kincaid_savoie == [size |-> 4096, write |-> "split",   read |-> "split"]
klacansky      == [size |-> 4096, write |-> "split",   read |-> "split"]
bpradeepk      == [size |-> 512,  write |-> "split",   read |-> "split"]
dongx          == [size |-> 2048, write |-> "split",   read |-> "split"]
grubb          == [size |-> 2048, write |-> "split",   read |-> "split"]
anmol_vatsa    == [size |-> 3516, write |-> "split",   read |-> "split"]
liuz           == [size |-> 4020, write |-> "split",   read |-> "split"]
vrgooty        == [size |-> 2048, write |-> "segment", read |-> "split"]
willghatch     == [size |-> 512,  write |-> "segment", read |-> "segment"]
anthonyw       == [size |-> 512,  write |-> "segment", read |-> "twoseg"]
alex_steele    == [size |-> 4028, write |-> "segment", read |-> "twoseg"]

Variants == {alanhumphrey, kincaid_savoie, klacansky, bpradeepk, dongx, grubb,
             anmol_vatsa, liuz, vrgooty, willghatch, anthonyw, alex_steele}

(* A uint counter takes 2^32 values, so the index nwrite % PIPESIZE runs on    *)
(* smoothly when the counter wraps only if the size is a power of two.         *)
Aligned == {v \in Variants : v.size \in {2^k : k \in 0 .. 12}}

PolicyOf(v) == [write |-> v.write, read |-> v.read]
=============================================================================
