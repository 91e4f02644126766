------------------------------ MODULE MCUthreads ------------------------------
(* Uthreads on a small pool.                                                   *)
EXTENDS Uthreads
=============================================================================
