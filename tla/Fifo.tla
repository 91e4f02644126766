-------------------------------- MODULE Fifo --------------------------------
(* What a ready queue promises the scheduler: whoever became runnable first   *)
(* runs first, and nobody waits in it twice.                                  *)
EXTENDS Naturals, Sequences

VARIABLE waiting   \* the queue, oldest first

NoRepeats(s) == \A a, b \in DOMAIN s : a # b => s[a] # s[b]

FifoInit == waiting = <<>>

(* One or more newcomers line up at the end.                                  *)
Join ==
  /\ Len(waiting') > Len(waiting)
  /\ SubSeq(waiting', 1, Len(waiting)) = waiting
  /\ NoRepeats(waiting')

(* The oldest leaves.                                                         *)
Leave == waiting # <<>> /\ waiting' = Tail(waiting)

FifoSpec == FifoInit /\ [][Join \/ Leave]_waiting

(* The scheduler keeps taking processes, so whoever waits gets its turn.       *)
FairFifoSpec == FifoSpec /\ WF_waiting(Leave)
=============================================================================
