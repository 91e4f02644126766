--------------------------- MODULE Uthreads_proofs ---------------------------
(* Proofs about Uthreads, for every size of the pool and any number of calls.  *)
EXTENDS Uthreads, TLAPS

(* Whoever runs has begun, and tids in use are below next_tid. The first is    *)
(* what makes the stack pointer that a switch saves that of a thread that has  *)
(* begun, the second what makes a new tid new.                                 *)
CurrBegan == ~over => begun[curr]
TidsBelow == \A i \in Slots : state[i] # "FREE" => tid[i] < next_tid

IInv == TypeOK /\ OneRunning /\ CurrBegan /\ ResumesRightly /\ TidsBelow
        /\ TidsDiffer /\ LeftBelow

LEMMA SlotZero == 0 \in Slots
BY PoolAssumption DEF Slots

LEMMA InitIInv == Init => IInv
<1> SUFFICES ASSUME Init PROVE IInv
  OBVIOUS
<1>1. begun \in [Slots -> BOOLEAN] /\ begun[0]
  BY SlotZero, Zenon DEF Init
<1>2. state \in [Slots -> {"FREE", "RUNNING", "RUNNABLE", "SLEEP"}]
      /\ state[0] = "RUNNING" /\ \A i \in Slots \ {0} : state[i] = "FREE"
  BY SlotZero DEF Init
<1>3. /\ tid = [i \in Slots |-> 0] /\ stack = [i \in Slots |-> "none"]
      /\ esp = [i \in Slots |-> "null"]
      /\ curr = 0 /\ next_tid = 1 /\ over = FALSE /\ inits = 0
  BY DEF Init
<1>4. TypeOK
  <2>1. curr \in Slots /\ next_tid \in 1 .. MAX_THREADS + 1 /\ inits \in 0 .. MaxInits
        /\ 0 \in Tids
    BY <1>3, PoolAssumption, SlotZero DEF Tids
  <2>2. /\ tid \in [Slots -> Tids]
        /\ stack \in [Slots -> {"none", "own", "freed"}] /\ esp \in [Slots -> {"null", "saved"}]
    BY <1>3, <2>1
  <2> QED BY <1>1, <1>2, <1>3, <2>1, <2>2 DEF TypeOK
<1>5. OneRunning /\ CurrBegan
  BY <1>1, <1>2, <1>3, SlotZero DEF OneRunning, CurrBegan
<1>6. ResumesRightly /\ TidsBelow /\ TidsDiffer /\ LeftBelow
  BY <1>2, <1>3, SlotZero DEF ResumesRightly, TidsBelow, TidsDiffer, LeftBelow
<1> QED BY <1>4, <1>5, <1>6 DEF IInv

-----------------------------------------------------------------------------
LEMMA ThreadInitStep == IInv /\ ThreadInit => IInv'
<1> SUFFICES ASSUME IInv, ThreadInit PROVE IInv'
  OBVIOUS
<1> USE SlotZero DEF IInv, ThreadInit, OnlyFirst
<1>1. TypeOK'
  BY PoolAssumption DEF TypeOK, Tids
<1>2. OneRunning' /\ CurrBegan' /\ ResumesRightly'
  BY DEF TypeOK, OneRunning, CurrBegan, ResumesRightly
<1>3. TidsBelow' /\ TidsDiffer' /\ LeftBelow'
  BY DEF TypeOK, TidsBelow, TidsDiffer, LeftBelow
<1> QED BY <1>1, <1>2, <1>3 DEF IInv

LEMMA CreateStep == IInv /\ Create => IInv'
<1> SUFFICES ASSUME IInv, Create PROVE IInv'
  OBVIOUS
<1>1. PICK i \in First({j \in Slots : state[j] = "FREE"}) :
        /\ tid' = [tid EXCEPT ![i] = next_tid]
        /\ state' = [state EXCEPT ![i] = "RUNNABLE"]
        /\ stack' = [stack EXCEPT ![i] = "own"]
        /\ esp' = NoEsp(i)
        /\ begun' = [begun EXCEPT ![i] = FALSE]
  BY DEF Create
<1>2. i \in Slots /\ state[i] = "FREE"
  BY <1>1 DEF First
<1>3. ~over /\ next_tid <= MAX_THREADS /\ next_tid' = next_tid + 1
      /\ UNCHANGED <<curr, over, inits>>
  BY DEF Create, MayCreate
<1>4. i # curr
  BY <1>2, <1>3 DEF IInv, OneRunning
<1>5. next_tid \in Nat /\ next_tid' \in Nat /\ next_tid \in Tids
  BY <1>3, PoolAssumption DEF IInv, TypeOK, Tids
<1>6. TypeOK'
  BY <1>1, <1>2, <1>3, <1>5, PoolAssumption DEF IInv, TypeOK, Tids, NoEsp
<1>7. OneRunning' /\ CurrBegan'
  BY <1>1, <1>2, <1>3, <1>4 DEF IInv, TypeOK, OneRunning, CurrBegan
<1>8. ResumesRightly'
  BY <1>1, <1>2, <1>3 DEF IInv, TypeOK, ResumesRightly, NoEsp
<1>9. TidsBelow'
  BY <1>1, <1>2, <1>3, <1>5 DEF IInv, TypeOK, TidsBelow, Tids
<1>10. TidsDiffer'
  BY <1>1, <1>2, <1>3, <1>5 DEF IInv, TypeOK, TidsBelow, TidsDiffer, Tids
<1> QED BY <1>3, <1>6, <1>7, <1>8, <1>9, <1>10 DEF IInv, LeftBelow

-----------------------------------------------------------------------------
(* The states a call hands to thread_yield(): the running thread's is as it    *)
(* was, or SLEEP, or FREE, sleepers may have become RUNNABLE, and no other     *)
(* slot changes.                                                               *)
Handed(s) ==
  /\ s \in [Slots -> {"FREE", "RUNNING", "RUNNABLE", "SLEEP"}]
  /\ \A i \in Slots : i # curr => /\ s[i] = "FREE" <=> state[i] = "FREE"
                                  /\ s[i] # "RUNNING"

(* A switch keeps everything, whatever the call that made it does to the stack *)
(* of the running thread, if it frees that only together with the slot.        *)
LEMMA SwitchStep ==
  ASSUME IInv, ~over, NEW s, Handed(s), Switch(s),
         stack' = stack \/ (s[curr] = "FREE" /\ Found(s) # {}
                            /\ stack' = [stack EXCEPT ![curr] = "freed"])
  PROVE  IInv'
<1> DEFINE r == NotRunning(s)
<1>1. r \in [Slots -> {"FREE", "RUNNING", "RUNNABLE", "SLEEP"}]
  BY DEF Handed, NotRunning, IInv, TypeOK
<1>2. \A i \in Slots : r[i] # "RUNNING"
  BY DEF Handed, NotRunning, IInv, TypeOK
<1>3. \A i \in Slots : i # curr => (r[i] = "FREE" <=> state[i] = "FREE")
  BY DEF Handed, NotRunning, IInv, TypeOK
<1>4. r[curr] = "FREE" <=> s[curr] = "FREE"
  BY DEF Handed, NotRunning, IInv, TypeOK
<1>5. state[curr] = "RUNNING" /\ curr \in Slots
  BY DEF IInv, OneRunning, TypeOK
<1>6. PICK i \in IF Found(r) = {} THEN {curr} ELSE First(Found(r)) :
        /\ state' = [r EXCEPT ![i] = "RUNNING"]
        /\ esp' = [esp EXCEPT ![curr] = "saved"]
        /\ curr' = i
        /\ begun' = [begun EXCEPT ![i] = TRUE]
        /\ UNCHANGED <<tid, next_tid, over, inits>>
  BY DEF Switch
<1>7. i \in Slots /\ (i # curr => r[i] = "RUNNABLE")
  BY <1>5, <1>6 DEF Found, First, Ahead
<1>8. \A j \in Slots : state'[j] # "FREE" => state[j] # "FREE"
  BY <1>1, <1>3, <1>5, <1>6, <1>7
<1>9. TypeOK'
  BY <1>1, <1>6, <1>7 DEF IInv, TypeOK
<1>10. OneRunning' /\ CurrBegan'
  BY <1>1, <1>2, <1>6, <1>7 DEF OneRunning, CurrBegan, IInv, TypeOK
<1>11. TidsBelow' /\ TidsDiffer'
  BY <1>6, <1>8 DEF TidsBelow, TidsDiffer, IInv
<1>12. ASSUME NEW j \in Slots, state'[j] \in {"RUNNABLE", "SLEEP"}
       PROVE  esp'[j] = "saved" <=> begun'[j]
  <2>1. j # i
    BY <1>1, <1>6, <1>7, <1>12
  <2>2. CASE j = curr
    BY <2>1, <2>2, <1>6, <1>7 DEF IInv, TypeOK, CurrBegan
  <2>3. CASE j # curr
    <3>1. state[j] \in {"RUNNABLE", "SLEEP"}
      BY <1>5, <1>8, <1>12, <2>3 DEF IInv, OneRunning, TypeOK
    <3> QED BY <2>1, <2>3, <3>1, <1>6, <1>7 DEF IInv, TypeOK, ResumesRightly
  <2> QED BY <2>2, <2>3
<1>13. ASSUME NEW j \in Slots, state'[j] # "FREE" PROVE stack'[j] # "freed"
  <2>1. stack[j] # "freed"
    BY <1>8, <1>13 DEF IInv, ResumesRightly
  <2>2. CASE stack' = stack
    BY <2>1, <2>2
  <2>3. CASE s[curr] = "FREE" /\ Found(s) # {} /\ stack' = [stack EXCEPT ![curr] = "freed"]
    <3>1. r = s
      BY <2>3 DEF NotRunning, Handed, IInv, TypeOK
    <3>2. i # curr
      BY <1>6, <2>3, <3>1 DEF Found, First
    <3>3. state'[curr] = "FREE"
      BY <1>1, <1>4, <1>6, <2>3, <3>2, <1>5
    <3> QED BY <2>1, <2>3, <3>3, <1>13 DEF IInv, TypeOK
  <2> QED BY <2>2, <2>3
<1>14. ResumesRightly'
  BY <1>12, <1>13 DEF ResumesRightly
<1>15. LeftBelow'
  BY <1>6 DEF LeftBelow
<1> QED BY <1>9, <1>10, <1>11, <1>14, <1>15 DEF IInv

LEMMA HandedOver ==
  ASSUME IInv, ~over
  PROVE  /\ Handed(state) /\ Handed([state EXCEPT ![curr] = "SLEEP"]) /\ Handed(AfterExit)
         /\ AfterExit[curr] = "FREE"
BY DEF IInv, TypeOK, OneRunning, Handed, AfterExit

LEMMA ExitStep == IInv /\ Exit => IInv'
<1> SUFFICES ASSUME IInv, Exit PROVE IInv'
  OBVIOUS
<1>1. ~over /\ curr \in Slots
  BY DEF Exit, IInv, TypeOK
<1>2. stack' = stack \/ stack' = [stack EXCEPT ![curr] = "freed"]
  BY <1>1 DEF Exit, IInv, TypeOK
<1>3. CASE Found(AfterExit) # {}
  BY <1>1, <1>2, <1>3, HandedOver, SwitchStep DEF Exit
<1>4. CASE Found(AfterExit) = {}
  <2>1. over' = TRUE /\ state' = AfterExit
        /\ UNCHANGED <<tid, esp, curr, next_tid, begun, inits>>
    BY <1>4 DEF Exit
  <2>2. TypeOK'
    BY <1>1, <1>2, <2>1 DEF IInv, TypeOK, AfterExit
  <2>3. \A i \in Slots : state'[i] # "FREE" => state[i] # "FREE"
    BY <2>1 DEF AfterExit
  <2>4. TidsBelow' /\ TidsDiffer'
    BY <2>1, <2>3 DEF IInv, TidsBelow, TidsDiffer
  <2>5. LeftBelow'
    <3> SUFFICES ASSUME NEW i \in Slots, AfterExit[i] # "FREE" PROVE i < curr
      BY <2>1 DEF LeftBelow
    <3>1. i # curr /\ AfterExit[i] = "RUNNABLE"
      BY <1>1 DEF AfterExit, IInv, TypeOK, OneRunning
    <3>2. i \notin Ahead
      BY <1>4, <3>1 DEF Found
    <3> QED BY <1>1, <3>1, <3>2, PoolAssumption DEF Ahead, Slots
  <2> QED BY <2>1, <2>2, <2>4, <2>5 DEF IInv, OneRunning, CurrBegan, ResumesRightly
<1> QED BY <1>3, <1>4

LEMMA NextStep == IInv /\ [Next]_vars => IInv'
<1> SUFFICES ASSUME IInv, [Next]_vars PROVE IInv'
  OBVIOUS
<1>1. CASE ThreadInit
  BY <1>1, ThreadInitStep
<1>2. CASE Create
  BY <1>2, CreateStep
<1>3. CASE Yield
  BY <1>3, HandedOver, SwitchStep DEF Yield
<1>4. CASE Exit
  BY <1>4, ExitStep
<1>5. ASSUME NEW t \in Tids, Join(t) PROVE IInv'
  BY <1>5, HandedOver, SwitchStep DEF Join
<1>6. CASE UNCHANGED vars
  BY <1>6 DEF vars, pool, IInv, TypeOK, OneRunning, CurrBegan, ResumesRightly, TidsBelow,
              TidsDiffer, LeftBelow
<1> QED BY <1>1, <1>2, <1>3, <1>4, <1>5, <1>6 DEF Next

LEMMA IInvHolds == Spec => []IInv
BY InitIInv, NextStep, PTL DEF Spec

-----------------------------------------------------------------------------
(* Every variable keeps its type, whatever the pool's size.                    *)
THEOREM TypeCorrect == Spec => []TypeOK
<1>1. IInv => TypeOK
  BY DEF IInv
<1> QED BY IInvHolds, <1>1, PTL

(* The thread at curr_tid_idx is RUNNING, and no other, until the process ends.*)
THEOREM OneRunningHolds == Spec => []OneRunning
<1>1. IInv => OneRunning
  BY DEF IInv
<1> QED BY IInvHolds, <1>1, PTL

(* Every thread that waits for its turn starts or goes on where it should, and *)
(* none that can run has a freed stack.                                        *)
THEOREM ResumesRightlyHolds == Spec => []ResumesRightly
<1>1. IInv => ResumesRightly
  BY DEF IInv
<1> QED BY IInvHolds, <1>1, PTL

(* No two threads of the pool have the same tid.                               *)
THEOREM TidsDifferHolds == Spec => []TidsDiffer
<1>1. IInv => TidsDiffer
  BY DEF IInv
<1> QED BY IInvHolds, <1>1, PTL

(* When thread_exit() ends the process, no thread above it could run.          *)
THEOREM LeftBelowHolds == Spec => []LeftBelow
<1>1. IInv => LeftBelow
  BY DEF IInv
<1> QED BY IInvHolds, <1>1, PTL
=============================================================================
