---------------------------- MODULE MCReadyQueue ----------------------------
(* ReadyQueue with four processes, for every student's queue.                  *)
EXTENDS ReadyQueue, QueueVariants
=============================================================================
