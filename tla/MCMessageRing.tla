---------------------------- MODULE MCMessageRing ----------------------------
(* MessageRing for every student's ring.                                       *)
EXTENDS MessageRing, RingVariants
=============================================================================
