------------------------------- MODULE Uthreads -------------------------------
(* The user-level threads of alanhumphrey's project (thread.c): a fixed pool of *)
(* threads in one process, which hand over the processor only in thread_yield, *)
(* thread_join and thread_exit. What a thread does in between is left out, and *)
(* each call is one step, up to the switch or the return.                      *)
EXTENDS Integers

CONSTANTS
  MAX_THREADS,  \* slots of thread_pool
  MaxInits      \* bound: calls of thread_init() after the first

ASSUME PoolAssumption == MAX_THREADS \in Nat \ {0} /\ MaxInits \in Nat

Slots == 0 .. MAX_THREADS - 1
Tids == 0 .. MAX_THREADS

VARIABLES
  state,     \* thread_pool[i].state
  tid,       \* thread_pool[i].tid
  stack,     \* thread_pool[i].stack: "none" is null, the process's own stack
  esp,       \* thread_pool[i].esp: "null", to start in run_thread, or "saved"
  curr,      \* curr_tid_idx
  next_tid,  \* next_tid
  over,      \* thread_exit() called exit(): the process is gone
  begun,     \* history: the thread of a slot has been on the processor
  inits      \* calls of thread_init() so far, bounded by MaxInits

pool == <<state, tid, stack, esp>>
vars == <<pool, curr, next_tid, over, begun, inits>>

First(S) == {i \in S : \A j \in S : i <= j}   \* where a scan of the pool stops

-----------------------------------------------------------------------------
(* thread_init(), by the first thread of the process: it is in slot 0 then.    *)
Init ==
  /\ state = [i \in Slots |-> IF i = 0 THEN "RUNNING" ELSE "FREE"]
  /\ tid = [i \in Slots |-> 0]
  /\ stack = [i \in Slots |-> "none"]
  /\ esp = [i \in Slots |-> "null"]
  /\ curr = 0 /\ next_tid = 1 /\ over = FALSE
  /\ begun = [i \in Slots |-> i = 0]
  /\ inits = 0

OnlyFirst == [i \in Slots |-> IF i = 0 THEN "RUNNING" ELSE "FREE"]

(* The tests of thread_test.c call it again, each from the process's first     *)
(* thread; what else still ran is forgotten.                                   *)
ThreadInit ==
  /\ ~over /\ curr = 0 /\ stack[0] = "none" /\ inits < MaxInits
  /\ state' = OnlyFirst
  /\ tid' = [tid EXCEPT ![0] = 0]
  /\ next_tid' = 1 /\ inits' = inits + 1
  /\ UNCHANGED <<stack, esp, curr, over, begun>>

-----------------------------------------------------------------------------
StaleEsp(i) == esp                      \* mutant: the slot's old esp stays
NoEsp(i) == [esp EXCEPT ![i] = "null"]
MayCreate == next_tid <= MAX_THREADS

(* thread_create(): the first free slot, unless there were MAX_THREADS already.*)
Create ==
  /\ ~over /\ MayCreate
  /\ \E i \in First({j \in Slots : state[j] = "FREE"}) :
       /\ tid' = [tid EXCEPT ![i] = next_tid]
       /\ state' = [state EXCEPT ![i] = "RUNNABLE"]
       /\ stack' = [stack EXCEPT ![i] = "own"]
       /\ esp' = NoEsp(i)
       /\ begun' = [begun EXCEPT ![i] = FALSE]
  /\ next_tid' = next_tid + 1
  /\ UNCHANGED <<curr, over, inits>>

-----------------------------------------------------------------------------
(* The search of thread_yield(): up from the slot after the running one, or    *)
(* from slot 0 if that was the last, to the end of the pool. It does not wrap. *)
PastTheNext == {i \in Slots : i > curr + 1}   \* mutant: the next slot left out
Ahead == IF curr + 1 = MAX_THREADS THEN Slots ELSE {i \in Slots : i > curr}

NotRunning(s) == [s EXCEPT ![curr] = IF @ = "RUNNING" THEN "RUNNABLE" ELSE @]

(* thread_yield() with the states s: the thread that runs next starts, or      *)
(* returns from the call it made. It is the running one if nobody is found.    *)
Found(s) == {i \in Ahead : s[i] = "RUNNABLE"}
Switch(s) ==
  \E i \in IF Found(NotRunning(s)) = {} THEN {curr} ELSE First(Found(NotRunning(s))) :
    /\ state' = [NotRunning(s) EXCEPT ![i] = "RUNNING"]
    /\ esp' = [esp EXCEPT ![curr] = "saved"]
    /\ curr' = i
    /\ begun' = [begun EXCEPT ![i] = TRUE]
    /\ UNCHANGED <<tid, next_tid, over, inits>>

Yield == ~over /\ Switch(state) /\ UNCHANGED stack

(* thread_join(t): sleep once if some slot has that tid, whatever its state.   *)
Join(t) ==
  /\ ~over /\ t < next_tid /\ \E i \in Slots : tid[i] = t
  /\ Switch([state EXCEPT ![curr] = "SLEEP"])
  /\ UNCHANGED stack

(* thread_exit(): every sleeper is made RUNNABLE. If thread_yield() finds one  *)
(* to run it does not come back; if not, the thread runs on, in the loop and   *)
(* into exit().                                                                *)
SleepersLeft == [state EXCEPT ![curr] = "FREE"]   \* mutant: nobody is woken
AfterExit ==
  [i \in Slots |-> IF i = curr THEN "FREE"
                   ELSE IF state[i] = "SLEEP" THEN "RUNNABLE" ELSE state[i]]

Exit ==
  /\ ~over
  /\ stack' = [stack EXCEPT ![curr] = IF @ = "none" THEN @ ELSE "freed"]
  /\ IF Found(AfterExit) # {}
       THEN Switch(AfterExit)
       ELSE /\ over' = TRUE /\ state' = AfterExit
            /\ UNCHANGED <<tid, esp, curr, next_tid, begun, inits>>

Next == ThreadInit \/ Create \/ Yield \/ Exit \/ \E t \in Tids : Join(t)

Spec == Init /\ [][Next]_vars

(* Threads cooperate: one that does not leave in another way yields again and  *)
(* again. Nobody need join or exit.                                            *)
FairSpec == Spec /\ WF_vars(Yield)

-----------------------------------------------------------------------------
(* Properties.                                                                 *)

TypeOK ==
  /\ state \in [Slots -> {"FREE", "RUNNING", "RUNNABLE", "SLEEP"}]
  /\ tid \in [Slots -> Tids]
  /\ stack \in [Slots -> {"none", "own", "freed"}] /\ esp \in [Slots -> {"null", "saved"}]
  /\ curr \in Slots /\ next_tid \in 1 .. MAX_THREADS + 1 /\ over \in BOOLEAN
  /\ begun \in [Slots -> BOOLEAN] /\ inits \in 0 .. MaxInits

(* As long as the process lives, the thread at curr_tid_idx is RUNNING and no  *)
(* other is, through every switch, also one that finds nobody: so nobody is    *)
(* asleep on the processor, and two never share one stack pointer.             *)
OneRunning == ~over => {i \in Slots : state[i] = "RUNNING"} = {curr}

(* A thread that waits for its turn starts in run_thread if it has never run   *)
(* and goes on where it stopped if it has, whoever had its slot before; and    *)
(* nobody who can run has a stack that thread_exit() freed.                    *)
ResumesRightly ==
  ~over => \A i \in Slots :
    /\ state[i] \in {"RUNNABLE", "SLEEP"} => (esp[i] = "saved" <=> begun[i])
    /\ state[i] # "FREE" => stack[i] # "freed"

(* Tids name threads: no two in the pool have the same one.                    *)
TidsDiffer ==
  \A i, j \in Slots : state[i] # "FREE" /\ state[j] # "FREE" /\ tid[i] = tid[j] => i = j

(* The processor goes up the pool: a runnable thread above the running one     *)
(* gets its turn, whatever is created, joined and exits in between. (One below *)
(* may wait for ever: the search starts again at slot 0 only from the last.)   *)
AheadRuns ==
  \A i \in Slots :
    state[i] = "RUNNABLE" /\ i > curr /\ ~over
      ~> state[i] \in {"RUNNING", "FREE"} \/ over

(* A thread that exits leaves the processor to any other that can run, if only *)
(* above it: when thread_exit() ends the process, what is left is below.       *)
LeftBelow == over => \A i \in Slots : state[i] # "FREE" => i < curr
=============================================================================
