---------------------------- MODULE MutexVariants ----------------------------
(* The mutexes of each student's assignment 4. The fields are those of Variant *)
(* in module Mutex.                                                            *)

(* A mutex has a spinlock of its own, the table another.                       *)
TwoLocks == [acquires |-> <<"mutex">>, relocks |-> <<"mutex">>, releases |-> <<"mutex">>,
             destroys |-> <<"table">>, acquireCheck |-> "early", releaseCheck |-> "early",
             destroyCheck |-> "locked", destroyClears |-> FALSE, createClears |-> FALSE,
             createResetsLock |-> FALSE, byName |-> FALSE, lateWakeup |-> FALSE]
OneLock == [TwoLocks EXCEPT !.acquires = <<"table">>, !.relocks = <<"table">>,
             !.releases = <<"table">>, !.destroyCheck = "free"]

alex_steele  == TwoLocks
dongx        == TwoLocks
liuz         == TwoLocks
grubb        == [TwoLocks EXCEPT !.destroyCheck = "early"]
alanhumphrey == [TwoLocks EXCEPT !.acquireCheck = "none", !.releaseCheck = "held"]
alanhumphrey_project == [TwoLocks EXCEPT !.acquireCheck = "none", !.releaseCheck = "held"]
assignment4  == [TwoLocks EXCEPT !.acquireCheck = "notMine", !.releaseCheck = "mineEarly",
                   !.destroyCheck = "creator", !.destroys = <<"mutex", "table">>,
                   !.destroyClears = TRUE]
vrgooty      == [TwoLocks EXCEPT !.acquireCheck = "notMine", !.releaseCheck = "mineEarly",
                   !.destroyCheck = "creator", !.destroys = <<"mutex", "table">>,
                   !.destroyClears = TRUE]
anmol_vatsa  == [TwoLocks EXCEPT !.acquires = <<"table">>, !.acquireCheck = "probe",
                   !.releases = <<"table", "mutex">>, !.releaseCheck = "locked",
                   !.destroys = <<"table", "mutex">>]
anthonyw     == [TwoLocks EXCEPT !.acquires = <<"table", "mutex">>, !.relocks = <<"mutex", "table">>,
                   !.acquireCheck = "first", !.releases = <<"table", "mutex">>,
                   !.releaseCheck = "locked", !.createResetsLock = TRUE]
kincaid      == [OneLock EXCEPT !.releaseCheck = "lockedHeld"]
willghatch   == [OneLock EXCEPT !.acquireCheck = "loop", !.releaseCheck = "mine",
                   !.createClears = TRUE, !.byName = TRUE, !.lateWakeup = TRUE]

Kernels == {alex_steele, dongx, liuz, grubb, alanhumphrey, alanhumphrey_project, assignment4,
            vrgooty, anmol_vatsa, anthonyw, kincaid, willghatch}
=============================================================================
