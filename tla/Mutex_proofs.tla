---------------------------- MODULE Mutex_proofs ----------------------------
(* What holds of the kernel mutexes for any number of processes and mutexes,   *)
(* and for every version that ClearingAssumption and OrderAssumption allow.    *)
EXTENDS Mutex, TLAPS

(* The inductive invariant. Unless a mutex was abused, whoever has it is the   *)
(* one its flag names.                                                         *)
HasHeld == \A m \in Mutexes : abused[m] \/ \A p \in has[m] : held[m] = p

(* Where acquire looks for the mutex in its loop, it never goes past the look. *)
LooksAgain == variant.acquireCheck = "loop" => \A p \in Procs : op[p] # "lock"

(* Where create clears the holder, mutexes are not abused.                     *)
NeverAbused == variant.createClears => \A m \in Mutexes : ~abused[m]

Inv == TypeOK /\ HasHeld /\ LooksAgain /\ NeverAbused /\ HeldExists /\ NoSleepOnFree

-----------------------------------------------------------------------------
(* The fields of the version under study.                                      *)
LEMMA VariantFields ==
  ASSUME variant \in Variants
  PROVE  /\ variant.acquires \in Seq({"mutex", "table"})
         /\ variant.relocks \in Seq({"mutex", "table"})
         /\ variant.releases \in Seq({"mutex", "table"})
         /\ variant.destroys \in Seq({"mutex", "table"})
  BY VariantAssumption DEF Variant

(* Mutex 0 is the first of the table.                                          *)
LEMMA LowestMutex == Lowest(Mutexes) \in Mutexes
<1>1. \A y \in Mutexes : 0 <= y
  BY IndexAssumption
<1>2. 0 \in Mutexes
  BY IndexAssumption
<1> QED
  BY <1>1, <1>2 DEF Lowest

(* What each group of actions does to the tables of mutexes and of processes.  *)
(* A call comes in.                                                            *)
LEMMA Entering ==
  ASSUME TypeOK, NEW p \in Procs,
         CallCreate(p) \/ CallAcquire(p) \/ CallRelease(p) \/ CallDestroy(p)
  PROVE  \E o \in {"create", "acquire", "release", "destroy"}, m \in Mutexes,
            s \in Seq({"mutex", "table"}) : Enter(p, o, m, s)
<1>1. CASE CallCreate(p)
  <2>1. PICK m \in Mutexes : Enter(p, "create", m, <<"table">>)
    BY <1>1 DEF CallCreate
  <2>2. <<"table">> \in Seq({"mutex", "table"})
    OBVIOUS
  <2> QED BY <2>1, <2>2
<1>2. CASE CallAcquire(p)
  BY <1>2, VariantFields DEF CallAcquire, TypeOK
<1>3. CASE CallRelease(p)
  BY <1>3, VariantFields DEF CallRelease, ReleaseOrder, TypeOK
<1>4. CASE CallDestroy(p)
  BY <1>4, VariantFields DEF CallDestroy, TypeOK
<1> QED BY <1>1, <1>2, <1>3, <1>4

LEMMA UnlockedType ==
  ASSUME TypeOK, NEW p \in Procs
  PROVE  Unlocked(p) \in [Locks -> Procs \cup {Nobody}]
  BY DEF TypeOK, Unlocked

-----------------------------------------------------------------------------
LEMMA InitTyped == Init => TypeOK
  BY LowestMutex DEF Init, TypeOK

LEMMA StepTyped == TypeOK /\ [Next]_vars => TypeOK'
<1> SUFFICES ASSUME TypeOK, [Next]_vars PROVE TypeOK'
  OBVIOUS
<1>1. CASE UNCHANGED vars
  BY <1>1 DEF vars, mutexVars, TypeOK
<1>2. ASSUME NEW p \in Procs, Step(p) PROVE TypeOK'
  <2>1. CASE CallCreate(p) \/ CallAcquire(p) \/ CallRelease(p) \/ CallDestroy(p)
    <3>1. PICK o \in {"create", "acquire", "release", "destroy"}, m \in Mutexes,
               s \in Seq({"mutex", "table"}) : Enter(p, o, m, s)
      BY <2>1, Entering
    <3> QED BY <3>1 DEF Enter, TypeOK, mutexVars
  <2>2. CASE Spin(p)
    <3>1. Tail(todo[p]) \in Seq({"mutex", "table"})
      BY <2>2 DEF Spin, TypeOK
    <3> QED BY <2>2, <3>1 DEF Spin, TypeOK, mutexVars
  <2>3. CASE Create(p)
    <3>1. CASE Choices(p) = {} /\ lock' = Unlocked(p) /\ UNCHANGED mutexVars
      BY <2>3, <3>1, UnlockedType DEF Create, TypeOK, mutexVars
    <3>2. CASE ~(Choices(p) = {} /\ lock' = Unlocked(p) /\ UNCHANGED mutexVars)
      <4>1. PICK m \in Choices(p) :
              /\ exists' = [exists EXCEPT ![m] = TRUE]
              /\ creator' = [creator EXCEPT ![m] = p]
              /\ held' = IF variant.createClears THEN [held EXCEPT ![m] = Nobody] ELSE held
              /\ lock' = IF variant.createResetsLock THEN [Unlocked(p) EXCEPT ![m] = Nobody]
                         ELSE Unlocked(p)
        BY <2>3, <3>2 DEF Create
      <4>2. exists' \in [Mutexes -> BOOLEAN] /\ creator' \in [Mutexes -> Procs \cup {Nobody}]
        BY <4>1 DEF TypeOK
      <4>3. held' \in [Mutexes -> Procs \cup {Nobody}]
        BY <4>1 DEF TypeOK
      <4>4. lock' \in [Locks -> Procs \cup {Nobody}]
        BY <4>1, UnlockedType
      <4> QED BY <2>3, <4>2, <4>3, <4>4 DEF Create, TypeOK
    <3> QED BY <3>1, <3>2
  <2>4. CASE AcquireFail(p) \/ ReleaseFail(p) \/ DestroyFail(p)
    BY <2>4, UnlockedType DEF AcquireFail, ReleaseFail, DestroyFail, Return, TypeOK, mutexVars
  <2>5. CASE Probe(p)
    <3>1. <<"mutex">> \in Seq({"mutex", "table"})
      OBVIOUS
    <3> QED BY <2>5, <3>1, UnlockedType DEF Probe, TypeOK, mutexVars
  <2>6. CASE AcquireSleep(p)
    BY <2>6, UnlockedType DEF AcquireSleep, TypeOK, mutexVars
  <2>7. CASE AcquireTake(p)
    BY <2>7, UnlockedType DEF AcquireTake, Return, TypeOK
  <2>8. CASE Release(p)
    BY <2>8, UnlockedType, VariantFields DEF Release, TypeOK
  <2>9. CASE LateWakeup(p)
    BY <2>9, VariantFields DEF LateWakeup, TypeOK, mutexVars
  <2>10. CASE Destroy(p)
    BY <2>10, UnlockedType DEF Destroy, Return, TypeOK
  <2>11. CASE Kill(p)
    BY <2>11, VariantFields DEF Kill, TypeOK, mutexVars
  <2>12. CASE Exit(p)
    BY <2>12 DEF Exit, TypeOK, mutexVars
  <2> QED BY <1>2, <2>1, <2>2, <2>3, <2>4, <2>5, <2>6, <2>7, <2>8, <2>9, <2>10, <2>11, <2>12 DEF Step
<1> QED BY <1>1, <1>2 DEF Next

(* Every variable keeps its type: the tables of mutexes and spinlocks, and of  *)
(* what each process is doing.                                                 *)
THEOREM TypeCorrect == Spec => []TypeOK
  BY InitTyped, StepTyped, PTL DEF Spec

-----------------------------------------------------------------------------
(* Only willghatch's version clears the holder in create.                      *)
LEMMA Clearing ==
  ASSUME variant \in Variants, variant.createClears
  PROVE  /\ variant.byName /\ variant.acquireCheck = "loop"
         /\ variant.releaseCheck = "mine" /\ variant.destroyCheck = "free"
  BY ClearingAssumption

LEMMA InitInv == Init => Inv
<1> SUFFICES ASSUME Init PROVE Inv
  OBVIOUS
<1>1. TypeOK
  BY InitTyped
<1>2. HasHeld /\ LooksAgain /\ NeverAbused /\ HeldExists /\ NoSleepOnFree
  BY DEF Init, HasHeld, LooksAgain, NeverAbused, HeldExists, NoSleepOnFree
<1> QED BY <1>1, <1>2 DEF Inv

(* Steps that leave mutexes and histories alone, and put nobody to sleep or    *)
(* from waking, keep the invariant.                                            *)
Idle(p) ==
  /\ UNCHANGED <<mutexVars, variant, has, abused>>
  /\ \A q \in Procs \ {p} : pc'[q] = pc[q] /\ op'[q] = op[q] /\ mtx'[q] = mtx[q]
  /\ pc[p] # "waking" /\ pc'[p] # "asleep"
  /\ op'[p] = "lock" => op[p] = "lock" \/ variant.acquireCheck = "probe"

LEMMA IdleKeeps ==
  ASSUME Inv, TypeOK', NEW p \in Procs, Idle(p)
  PROVE  Inv'
<1>1. HasHeld' /\ NeverAbused' /\ HeldExists'
  BY DEF Inv, Idle, mutexVars, HasHeld, NeverAbused, HeldExists
<1>2. LooksAgain'
  BY DEF Inv, Idle, LooksAgain
<1>3. NoSleepOnFree'
  <2> SUFFICES ASSUME NEW r \in Procs, pc'[r] = "asleep"
               PROVE  \/ held'[mtx'[r]] # Nobody
                      \/ \E q \in Procs : pc'[q] = "waking" /\ mtx'[q] = mtx'[r]
                      \/ variant'.destroyClears /\ abused'[mtx'[r]]
    BY DEF NoSleepOnFree
  <2>1. r # p /\ pc[r] = "asleep" /\ mtx'[r] = mtx[r]
    BY DEF Idle
  <2>2. \A q \in Procs : pc[q] = "waking" => pc'[q] = "waking" /\ mtx'[q] = mtx[q]
    BY DEF Idle
  <2> QED BY <2>1, <2>2 DEF Inv, NoSleepOnFree, Idle, mutexVars
<1> QED BY <1>1, <1>2, <1>3 DEF Inv

LEMMA IdleSteps ==
  ASSUME Inv, NEW p \in Procs,
         \/ CallCreate(p) \/ CallAcquire(p) \/ CallRelease(p) \/ CallDestroy(p) \/ Spin(p)
         \/ AcquireFail(p) \/ Probe(p) \/ ReleaseFail(p) \/ DestroyFail(p) \/ Kill(p) \/ Exit(p)
  PROVE  Idle(p)
<1> USE DEF Inv, TypeOK, Idle
<1>1. CASE CallCreate(p) \/ CallAcquire(p) \/ CallRelease(p) \/ CallDestroy(p)
  <2>1. PICK o \in {"create", "acquire", "release", "destroy"}, m \in Mutexes,
             s \in Seq({"mutex", "table"}) : Enter(p, o, m, s)
    BY <1>1, Entering
  <2> QED BY <2>1 DEF Enter
<1>2. CASE Spin(p)
  BY <1>2 DEF Spin
<1>3. CASE AcquireFail(p) \/ ReleaseFail(p) \/ DestroyFail(p)
  BY <1>3 DEF AcquireFail, ReleaseFail, DestroyFail, Return, Ready
<1>4. CASE Probe(p)
  BY <1>4 DEF Probe, Ready
<1>5. CASE Kill(p)
  BY <1>5 DEF Kill
<1>6. CASE Exit(p)
  BY <1>6 DEF Exit
<1> QED BY <1>1, <1>2, <1>3, <1>4, <1>5, <1>6

-----------------------------------------------------------------------------
(* The steps that do change a mutex, or who sleeps on it.                      *)
LEMMA CreateKeeps ==
  ASSUME Inv, TypeOK', NEW p \in Procs, Create(p)
  PROVE  Inv'
<1> USE DEF Inv
<1>1. /\ UNCHANGED <<mtx, variant, has, abused>>
      /\ op' = [op EXCEPT ![p] = "none"] /\ pc' = [pc EXCEPT ![p] = "user"]
      /\ pc[p] = "calling"
  BY DEF Create, Ready
<1>2. ASSUME NEW m \in Mutexes PROVE exists[m] => exists'[m]
  BY <1>2 DEF Create, TypeOK, mutexVars
<1>3. ASSUME NEW m \in Mutexes PROVE held'[m] = held[m]
  <2>1. CASE ~variant.createClears
    BY <2>1 DEF Create, mutexVars
  <2>2. CASE UNCHANGED mutexVars
    BY <2>2 DEF mutexVars
  <2>3. CASE variant.createClears /\ ~UNCHANGED mutexVars
    <3>1. PICK n \in Choices(p) : held' = [held EXCEPT ![n] = Nobody]
      BY <2>3 DEF Create
    <3>2. n \in Mutexes /\ ~exists[n]
      BY <3>1, <2>3, Clearing DEF Choices, TypeOK
    <3>3. held[n] = Nobody
      BY <3>2, <2>3, Clearing DEF HeldExists, NeverAbused, TypeOK
    <3> QED BY <3>1, <3>2, <3>3 DEF TypeOK
  <2> QED BY <2>1, <2>2, <2>3
<1>4. HasHeld' /\ NeverAbused' /\ HeldExists'
  BY <1>1, <1>2, <1>3 DEF HasHeld, NeverAbused, HeldExists
<1>5. LooksAgain'
  BY <1>1 DEF LooksAgain, TypeOK
<1>6. NoSleepOnFree'
  <2> SUFFICES ASSUME NEW r \in Procs, pc'[r] = "asleep"
               PROVE  \/ held'[mtx'[r]] # Nobody
                      \/ \E q \in Procs : pc'[q] = "waking" /\ mtx'[q] = mtx'[r]
                      \/ variant'.destroyClears /\ abused'[mtx'[r]]
    BY DEF NoSleepOnFree
  <2>1. pc[r] = "asleep" /\ held'[mtx[r]] = held[mtx[r]]
    BY <1>1, <1>3 DEF TypeOK
  <2>2. \A q \in Procs : pc[q] = "waking" => pc'[q] = "waking"
    BY <1>1 DEF TypeOK
  <2> QED BY <2>1, <2>2, <1>1 DEF NoSleepOnFree
<1> QED BY <1>4, <1>5, <1>6

LEMMA SleepKeeps ==
  ASSUME Inv, TypeOK', NEW p \in Procs, AcquireSleep(p)
  PROVE  Inv'
<1> USE DEF Inv
<1>1. HasHeld' /\ NeverAbused' /\ HeldExists'
  BY DEF AcquireSleep, mutexVars, HasHeld, NeverAbused, HeldExists
<1>2. LooksAgain'
  BY DEF AcquireSleep, LooksAgain, TypeOK
<1>3. NoSleepOnFree'
  <2>1. pc[p] = "calling"
    BY DEF AcquireSleep, Looking, Ready
  <2>2. \A q \in Procs : pc[q] = "waking" => pc'[q] = "waking"
    BY <2>1 DEF AcquireSleep, TypeOK
  <2> QED BY <2>2 DEF AcquireSleep, mutexVars, NoSleepOnFree, TypeOK
<1> QED BY <1>1, <1>2, <1>3

LEMMA TakeKeeps ==
  ASSUME Inv, TypeOK', NEW p \in Procs, AcquireTake(p)
  PROVE  Inv'
<1> USE DEF Inv
<1> DEFINE m == mtx[p]
<1>1. m \in Mutexes /\ held[m] = Nobody /\ held' = [held EXCEPT ![m] = p]
  BY DEF AcquireTake, Free, TypeOK
<1>2. /\ UNCHANGED <<exists, mtx, variant, abused>>
      /\ has' = [has EXCEPT ![m] = @ \cup {p}]
      /\ pc' = [pc EXCEPT ![p] = "user"] /\ op' = [op EXCEPT ![p] = "none"]
  BY DEF AcquireTake, Return
<1>3. pc[p] = "calling"
  BY DEF AcquireTake, Looking, Ready
<1>4. variant.acquireCheck = "loop" => exists[m]
  BY DEF AcquireTake, Looking, Ready, Missing, LooksAgain
<1>5. HasHeld'
  <2> SUFFICES ASSUME NEW n \in Mutexes, ~abused'[n], NEW r \in has'[n]
               PROVE  held'[n] = r
    BY DEF HasHeld
  <2>1. CASE n # m
    BY <2>1, <1>1, <1>2 DEF HasHeld, TypeOK
  <2>2. CASE n = m
    <3>1. has[m] = {}
      BY <2>2, <1>1, <1>2, NameAssumption DEF HasHeld, TypeOK
    <3> QED BY <2>2, <3>1, <1>1, <1>2 DEF TypeOK
  <2> QED BY <2>1, <2>2
<1>6. LooksAgain' /\ NeverAbused'
  BY <1>2 DEF LooksAgain, NeverAbused, TypeOK
<1>7. HeldExists'
  BY <1>1, <1>2, <1>4 DEF HeldExists, TypeOK
<1>8. NoSleepOnFree'
  <2>1. \A q \in Procs : pc[q] = "waking" => pc'[q] = "waking"
    BY <1>2, <1>3 DEF TypeOK
  <2>2. \A n \in Mutexes : held[n] # Nobody => held'[n] # Nobody
    BY <1>1, NameAssumption DEF TypeOK
  <2>3. \A q \in Procs : pc'[q] = "asleep" => pc[q] = "asleep"
    BY <1>2 DEF TypeOK
  <2> QED BY <2>1, <2>2, <2>3, <1>2 DEF NoSleepOnFree, TypeOK
<1> QED BY <1>5, <1>6, <1>7, <1>8

LEMMA ReleaseKeeps ==
  ASSUME Inv, TypeOK', NEW p \in Procs, Release(p)
  PROVE  Inv'
<1> USE DEF Inv
<1> DEFINE m == mtx[p]
<1>1. /\ m \in Mutexes /\ held' = [held EXCEPT ![m] = Nobody]
      /\ abused' = [abused EXCEPT ![m] = @ \/ held[m] \notin {p, Nobody}]
      /\ has' = [has EXCEPT ![m] = @ \ {p}]
      /\ UNCHANGED <<exists, mtx, variant>>
  BY DEF Release, TypeOK
<1>2. HasHeld'
  <2> SUFFICES ASSUME NEW n \in Mutexes, ~abused'[n], NEW r \in has'[n]
               PROVE  held'[n] = r
    BY DEF HasHeld
  <2>1. CASE n # m
    BY <2>1, <1>1 DEF HasHeld, TypeOK
  <2>2. CASE n = m
    <3>1. ~abused[m] /\ held[m] \in {p, Nobody} /\ r \in has[m] /\ r # p /\ r \in Procs
      BY <2>2, <1>1 DEF TypeOK
    <3> QED BY <3>1, <1>1, NameAssumption DEF HasHeld
  <2> QED BY <2>1, <2>2
<1>3. LooksAgain'
  BY <1>1 DEF Release, LooksAgain, TypeOK
<1>4. NeverAbused'
  <2> SUFFICES ASSUME variant.createClears PROVE \A n \in Mutexes : ~abused'[n]
    BY <1>1 DEF NeverAbused
  <2>1. held[m] = p
    BY Clearing DEF Release, ReleaseRefused, TypeOK
  <2> QED BY <2>1, <1>1 DEF NeverAbused, TypeOK
<1>5. HeldExists'
  BY <1>1 DEF HeldExists, TypeOK
<1>6. NoSleepOnFree'
  <2> SUFFICES ASSUME NEW r \in Procs, pc'[r] = "asleep"
               PROVE  \/ held'[mtx'[r]] # Nobody
                      \/ \E q \in Procs : pc'[q] = "waking" /\ mtx'[q] = mtx'[r]
                      \/ variant'.destroyClears /\ abused'[mtx'[r]]
    BY DEF NoSleepOnFree
  <2>1. pc[p] = "calling"
    BY DEF Release, Ready
  <2>2. pc[r] = "asleep" /\ r # p
    BY DEF Release, Sleepers
  <2>3. CASE mtx[r] = m
    <3>1. variant.lateWakeup
      BY <2>2, <2>3 DEF Release, Sleepers
    <3>2. pc'[p] = "waking"
      BY <3>1, <2>1 DEF Release, Sleepers
    <3> QED BY <3>2, <2>3, <1>1
  <2>4. CASE mtx[r] # m
    <3>1. \A q \in Procs : pc[q] = "waking" => pc'[q] = "waking"
      BY <2>1 DEF Release, Sleepers
    <3>2. held'[mtx[r]] = held[mtx[r]] /\ abused'[mtx[r]] = abused[mtx[r]]
      BY <2>4, <1>1 DEF TypeOK
    <3> QED BY <3>1, <3>2, <2>2, <1>1 DEF NoSleepOnFree
  <2> QED BY <2>3, <2>4
<1> QED BY <1>2, <1>3, <1>4, <1>5, <1>6

LEMMA LateWakeupKeeps ==
  ASSUME Inv, TypeOK', NEW p \in Procs, LateWakeup(p)
  PROVE  Inv'
<1> USE DEF Inv
<1>1. HasHeld' /\ NeverAbused' /\ HeldExists' /\ LooksAgain'
  BY DEF LateWakeup, mutexVars, HasHeld, NeverAbused, HeldExists, LooksAgain
<1>2. NoSleepOnFree'
  <2> SUFFICES ASSUME NEW r \in Procs, pc'[r] = "asleep"
               PROVE  \/ held'[mtx'[r]] # Nobody
                      \/ \E q \in Procs : pc'[q] = "waking" /\ mtx'[q] = mtx'[r]
                      \/ variant'.destroyClears /\ abused'[mtx'[r]]
    BY DEF NoSleepOnFree
  <2>1. pc[r] = "asleep" /\ mtx[r] # mtx[p]
    BY DEF LateWakeup, Sleepers
  <2>2. \A q \in Procs : pc[q] = "waking" /\ mtx[q] = mtx[r] => pc'[q] = "waking"
    BY <2>1 DEF LateWakeup, Sleepers
  <2> QED BY <2>1, <2>2 DEF NoSleepOnFree, LateWakeup, mutexVars
<1> QED BY <1>1, <1>2

LEMMA DestroyKeeps ==
  ASSUME Inv, TypeOK', NEW p \in Procs, Destroy(p)
  PROVE  Inv'
<1> USE DEF Inv
<1> DEFINE m == mtx[p]
<1>1. /\ m \in Mutexes
      /\ held' = IF variant.destroyClears THEN [held EXCEPT ![m] = Nobody] ELSE held
      /\ exists' = [exists EXCEPT ![m] = FALSE]
      /\ abused' = [abused EXCEPT ![m] = @ \/ held[m] # Nobody]
      /\ UNCHANGED <<mtx, variant, has>>
      /\ pc' = [pc EXCEPT ![p] = "user"] /\ op' = [op EXCEPT ![p] = "none"]
  BY DEF Destroy, Return, TypeOK
<1>2. \A n \in Mutexes : held'[n] = held[n] \/ abused'[n]
  BY <1>1 DEF TypeOK
<1>3. \A n \in Mutexes : abused[n] => abused'[n]
  BY <1>1 DEF TypeOK
<1>4. HasHeld'
  BY <1>1, <1>2, <1>3 DEF HasHeld
<1>5. LooksAgain'
  BY <1>1 DEF LooksAgain, TypeOK
<1>6. NeverAbused'
  <2> SUFFICES ASSUME variant.createClears PROVE \A n \in Mutexes : ~abused'[n]
    BY <1>1 DEF NeverAbused
  <2>1. held[m] = Nobody
    BY Clearing DEF Destroy, DestroyRefused, TypeOK
  <2> QED BY <2>1, <1>1 DEF NeverAbused, TypeOK
<1>7. HeldExists'
  <2> SUFFICES ASSUME NEW n \in Mutexes, held'[n] # Nobody, ~abused'[n],
                      variant.acquireCheck = "loop"
               PROVE  exists'[n]
    BY <1>1 DEF HeldExists
  <2>1. n # m /\ held[n] # Nobody /\ ~abused[n]
    BY <1>1, <1>2, <1>3 DEF TypeOK
  <2> QED BY <2>1, <1>1 DEF HeldExists, TypeOK
<1>8. NoSleepOnFree'
  <2> SUFFICES ASSUME NEW r \in Procs, pc'[r] = "asleep"
               PROVE  \/ held'[mtx'[r]] # Nobody
                      \/ \E q \in Procs : pc'[q] = "waking" /\ mtx'[q] = mtx'[r]
                      \/ variant'.destroyClears /\ abused'[mtx'[r]]
    BY DEF NoSleepOnFree
  <2>1. pc[p] = "calling"
    BY DEF Destroy, Ready
  <2>2. pc[r] = "asleep" /\ mtx[r] \in Mutexes
    BY <1>1 DEF TypeOK
  <2>3. \A q \in Procs : pc[q] = "waking" => pc'[q] = "waking"
    BY <2>1, <1>1 DEF TypeOK
  <2>4. \/ held'[mtx[r]] = held[mtx[r]]
        \/ variant.destroyClears /\ abused'[mtx[r]]
    BY <1>1, <1>2, <2>2
  <2> QED BY <2>2, <2>3, <2>4, <1>1, <1>3 DEF NoSleepOnFree
<1> QED BY <1>4, <1>5, <1>6, <1>7, <1>8

LEMMA StepInv == Inv /\ [Next]_vars => Inv'
<1> SUFFICES ASSUME Inv, [Next]_vars PROVE Inv'
  OBVIOUS
<1>1. TypeOK'
  BY StepTyped DEF Inv
<1>2. CASE UNCHANGED vars
  BY <1>2 DEF vars, mutexVars, Inv, TypeOK, HasHeld, LooksAgain, NeverAbused, HeldExists, NoSleepOnFree
<1>3. ASSUME NEW p \in Procs, Step(p) PROVE Inv'
  <2>1. CASE Create(p)
    BY <2>1, <1>1, CreateKeeps
  <2>2. CASE AcquireSleep(p)
    BY <2>2, <1>1, SleepKeeps
  <2>3. CASE AcquireTake(p)
    BY <2>3, <1>1, TakeKeeps
  <2>4. CASE Release(p)
    BY <2>4, <1>1, ReleaseKeeps
  <2>5. CASE LateWakeup(p)
    BY <2>5, <1>1, LateWakeupKeeps
  <2>6. CASE Destroy(p)
    BY <2>6, <1>1, DestroyKeeps
  <2>7. CASE ~(\/ Create(p) \/ AcquireSleep(p) \/ AcquireTake(p) \/ Release(p)
               \/ LateWakeup(p) \/ Destroy(p))
    BY <1>3, <2>7, <1>1, IdleSteps, IdleKeeps DEF Step
  <2> QED BY <2>1, <2>2, <2>3, <2>4, <2>5, <2>6, <2>7
<1> QED BY <1>2, <1>3 DEF Next

LEMMA InvHolds == Spec => []Inv
  BY InitInv, StepInv, PTL DEF Spec

-----------------------------------------------------------------------------
(* At most one process has a mutex that was not abused.                        *)
THEOREM ExclusionHolds == Spec => []Exclusion
<1>1. Inv => Exclusion
  BY DEF Inv, HasHeld, Exclusion
<1> QED BY <1>1, InvHolds, PTL

(* A held mutex exists, where acquire looks again and destroy refuses.         *)
THEOREM HeldExistsHolds == Spec => []HeldExists
<1>1. Inv => HeldExists
  BY DEF Inv
<1> QED BY <1>1, InvHolds, PTL

(* Nobody sleeps on a free mutex without a wakeup on its way.                  *)
THEOREM NoSleepOnFreeHolds == Spec => []NoSleepOnFree
<1>1. Inv => NoSleepOnFree
  BY DEF Inv
<1> QED BY <1>1, InvHolds, PTL

-----------------------------------------------------------------------------
(* The order of spinlocks. A process outside the calls that take them holds    *)
(* none; one that still has a lock to take holds none either, or it holds the  *)
(* first of two and has the second to take. Who is back from a sleep may have  *)
(* them the other way round, where all who sleep are bound to come back so.    *)
Lists(one, other) == {<<>>, <<one>>, <<other>>, <<one, other>>}
Disciplined(p, one, other) ==
  /\ pc[p] # "calling" => \A l \in Locks : lock[l] # p
  /\ pc[p] = "calling" =>
       /\ todo[p] \in Lists(one, other)
       /\ todo[p] # <<>> => \A l \in Locks : lock[l] = p =>
            todo[p] = <<other>> /\ l = LockNamed(one, mtx[p])
Ordered(p, one, other) ==
  /\ Disciplined(p, one, other) \/ (Relocks(p) /\ pc[p] \in {"calling", "asleep"})
  /\ pc[p] = "asleep" => variant.relocks \in Lists(one, other) \/ Relocks(p)
LocksInOrder(one, other) ==
  OneOrder(variant, one, other) => \A p \in Procs : Ordered(p, one, other)
LockInv == TypeOK /\ LocksInOrder("table", "mutex") /\ LocksInOrder("mutex", "table")

LEMMA ListFacts ==
  ASSUME NEW one, NEW other
  PROVE  /\ Tail(<<one>>) = <<>> /\ Tail(<<one, other>>) = <<other>>
         /\ Head(<<one>>) = one /\ Head(<<one, other>>) = one
         /\ <<one>> # <<>> /\ <<one, other>> # <<>> /\ <<one, other>> # <<other>>
  OBVIOUS

(* A process goes on as it was, with no lock more; or it is left with none; or *)
(* it is back from a sleep.                                                    *)
Same(q) == pc'[q] = pc[q] /\ todo'[q] = todo[q] /\ mtx'[q] = mtx[q] /\ op'[q] = op[q]
Dropped(q, one, other) ==
  /\ \A l \in Locks : lock'[l] # q
  /\ pc'[q] = "calling" => todo'[q] \in Lists(one, other)
  /\ pc'[q] = "asleep" => variant.relocks \in Lists(one, other)
Back(q) == Relocks(q)' /\ pc'[q] \in {"calling", "asleep"}

LEMMA DroppingKeeps ==
  ASSUME NEW one, NEW other, \A p \in Procs : Ordered(p, one, other), variant' = variant,
         \A l \in Locks : lock'[l] \in {lock[l], Nobody},
         \A q \in Procs : Same(q) \/ Dropped(q, one, other) \/ Back(q)
  PROVE  \A p \in Procs : Ordered(p, one, other)'
<1> SUFFICES ASSUME NEW q \in Procs PROVE Ordered(q, one, other)'
  OBVIOUS
<1>1. CASE Same(q)
  <2>1. \A l \in Locks : lock'[l] = q => lock[l] = q
    BY NameAssumption
  <2>2. Relocks(q)' = Relocks(q)
    BY <1>1 DEF Same, Relocks
  <2>3. Disciplined(q, one, other) => Disciplined(q, one, other)'
    BY <1>1, <2>1 DEF Same, Disciplined
  <2> QED BY <1>1, <2>2, <2>3 DEF Same, Ordered
<1>2. CASE Dropped(q, one, other)
  BY <1>2 DEF Dropped, Ordered, Disciplined
<1>3. CASE Back(q)
  BY <1>3 DEF Back, Ordered
<1> QED BY <1>1, <1>2, <1>3

LEMMA SpinKeeps ==
  ASSUME TypeOK, NEW one, NEW other, \A q \in Procs : Ordered(q, one, other),
         NEW p \in Procs, Spin(p)
  PROVE  \A q \in Procs : Ordered(q, one, other)'
<1>1. /\ pc[p] = "calling" /\ todo[p] # <<>>
      /\ lock' = [lock EXCEPT ![Next_(p)] = p]
      /\ todo' = [todo EXCEPT ![p] = Tail(@)]
      /\ UNCHANGED <<pc, mtx, op, variant>>
  BY DEF Spin
<1>2. \A q \in Procs : Relocks(q)' = Relocks(q)
  BY <1>1 DEF Relocks
<1>3. ASSUME NEW q \in Procs \ {p} PROVE Ordered(q, one, other)'
  <2>1. \A l \in Locks : lock'[l] = q => lock[l] = q
    BY <1>1 DEF TypeOK
  <2>2. Disciplined(q, one, other) => Disciplined(q, one, other)'
    BY <1>1, <2>1 DEF Disciplined, TypeOK
  <2> QED BY <1>1, <1>2, <2>2 DEF Ordered
<1>4. ASSUME Disciplined(p, one, other) PROVE Disciplined(p, one, other)'
  <2>1. todo[p] \in Lists(one, other) \ {<<>>}
    BY <1>1, <1>4 DEF Disciplined
  <2>2. CASE todo[p] = <<one, other>>
    <3>1. \A l \in Locks : lock[l] # p
      BY <1>1, <1>4, <2>2, ListFacts DEF Disciplined
    <3>2. \A l \in Locks : lock'[l] = p => l = Next_(p)
      BY <3>1, <1>1 DEF TypeOK
    <3>3. Next_(p) = LockNamed(one, mtx[p]) /\ todo'[p] = <<other>>
      BY <2>2, <1>1, ListFacts DEF Next_, TypeOK
    <3> QED BY <3>2, <3>3, <1>1 DEF Disciplined, Lists
  <2>3. CASE todo[p] = <<one>> \/ todo[p] = <<other>>
    <3>1. todo'[p] = <<>>
      BY <2>3, <1>1, ListFacts DEF TypeOK
    <3> QED BY <3>1, <1>1 DEF Disciplined, Lists
  <2> QED BY <2>1, <2>2, <2>3 DEF Lists
<1>5. Ordered(p, one, other)'
  BY <1>1, <1>2, <1>4 DEF Ordered
<1> QED BY <1>3, <1>5

LEMMA UnlockedDrops ==
  ASSUME TypeOK, NEW p \in Procs, lock' = Unlocked(p)
  PROVE  /\ \A l \in Locks : lock'[l] \in {lock[l], Nobody}
         /\ \A l \in Locks : lock'[l] # p
  BY NameAssumption DEF Unlocked

LEMMA WakingKeeps ==
  ASSUME NEW one, NEW other, variant' = variant, NEW q \in Procs, Ordered(q, one, other),
         \A l \in Locks : lock'[l] \in {lock[l], Nobody},
         pc[q] = "asleep", pc'[q] = "calling", todo'[q] = variant.relocks, op'[q] = op[q]
  PROVE  Dropped(q, one, other) \/ Back(q)
<1>1. CASE Relocks(q)
  BY <1>1 DEF Back, Relocks
<1>2. CASE ~Relocks(q)
  <2>1. (\A l \in Locks : lock[l] # q) /\ variant.relocks \in Lists(one, other)
    BY <1>2 DEF Ordered, Disciplined
  <2> QED BY <2>1, NameAssumption DEF Dropped
<1> QED BY <1>1, <1>2

LEMMA StepKeepsOrder ==
  ASSUME TypeOK, NEW one, NEW other, {one, other} = {"table", "mutex"},
         OneOrder(variant, one, other), \A q \in Procs : Ordered(q, one, other),
         NEW p \in Procs, Step(p), variant' = variant
  PROVE  \A q \in Procs : Ordered(q, one, other)'
<1>1. /\ variant.acquires \in Lists(one, other) /\ variant.releases \in Lists(one, other)
      /\ variant.destroys \in Lists(one, other)
      /\ variant.relocks \in Lists(one, other) \/ Backwards(variant)
  BY DEF OneOrder, Orders, Lists
<1>2. <<"table">> \in Lists(one, other) /\ <<"mutex">> \in Lists(one, other)
  BY DEF Lists
<1>3. CASE CallCreate(p) \/ CallAcquire(p) \/ CallRelease(p) \/ CallDestroy(p)
  <2>1. PICK s \in Lists(one, other), m \in Mutexes,
             o \in {"create", "acquire", "release", "destroy"} : Enter(p, o, m, s)
    BY <1>1, <1>2, <1>3 DEF CallCreate, CallAcquire, CallRelease, CallDestroy, ReleaseOrder
  <2>2. \A l \in Locks : lock'[l] = lock[l] /\ lock[l] # p
    BY <2>1 DEF Enter, Ordered, Disciplined
  <2>3. \A q \in Procs \ {p} : Same(q)
    BY <2>1 DEF Enter, TypeOK, Same
  <2>4. todo'[p] \in Lists(one, other) /\ pc'[p] = "calling"
    BY <2>1 DEF Enter, TypeOK
  <2>5. Dropped(p, one, other)
    BY <2>2, <2>4 DEF Dropped
  <2> QED BY <2>2, <2>3, <2>5, DroppingKeeps
<1>4. CASE Spin(p)
  BY <1>4, SpinKeeps
<1>5. CASE Create(p)
  <2>1. \A l \in Locks : lock'[l] \in {Unlocked(p)[l], Nobody}
    BY <1>5, UnlockedType DEF Create
  <2>2. \A l \in Locks : lock'[l] \in {lock[l], Nobody} /\ lock'[l] # p
    BY <2>1, NameAssumption DEF Unlocked
  <2>3. pc'[p] = "user"
    BY <1>5 DEF Create, TypeOK
  <2>4. \A q \in Procs \ {p} : Same(q)
    BY <1>5 DEF Create, TypeOK, Same
  <2>5. Dropped(p, one, other)
    BY <2>2, <2>3 DEF Dropped
  <2> QED BY <2>2, <2>4, <2>5, DroppingKeeps
<1>6. CASE AcquireFail(p) \/ ReleaseFail(p) \/ DestroyFail(p) \/ AcquireTake(p) \/ Destroy(p)
  <2>1. /\ lock' = Unlocked(p) /\ pc'[p] = "user"
        /\ \A q \in Procs \ {p} : Same(q)
    BY <1>6 DEF AcquireFail, ReleaseFail, DestroyFail, AcquireTake, Destroy, Return, TypeOK, Same
  <2>2. Dropped(p, one, other)
    BY <2>1, UnlockedDrops DEF Dropped
  <2> QED BY <2>1, <2>2, UnlockedDrops, DroppingKeeps
<1>7. CASE AcquireSleep(p)
  <2>1. /\ lock' = Unlocked(p) /\ pc'[p] = "asleep"
        /\ op'[p] = IF variant.acquireCheck = "loop" THEN "acquire" ELSE "lock"
        /\ \A q \in Procs \ {p} : Same(q)
    BY <1>7 DEF AcquireSleep, TypeOK, Same
  <2>2. CASE variant.relocks \in Lists(one, other)
    <3>1. Dropped(p, one, other)
      BY <2>1, <2>2, UnlockedDrops DEF Dropped
    <3> QED BY <2>1, <3>1, UnlockedDrops, DroppingKeeps
  <2>3. CASE Backwards(variant)
    <3>1. Back(p)
      BY <2>1, <2>3 DEF Back, Relocks, Backwards
    <3> QED BY <2>1, <3>1, UnlockedDrops, DroppingKeeps
  <2> QED BY <1>1, <2>2, <2>3
<1>8. CASE Probe(p)
  <2>1. /\ lock' = Unlocked(p) /\ todo'[p] = <<"mutex">> /\ pc'[p] = "calling"
        /\ \A q \in Procs \ {p} : Same(q)
    BY <1>8 DEF Probe, Ready, TypeOK, Same
  <2>2. Dropped(p, one, other)
    BY <2>1, <1>2, UnlockedDrops DEF Dropped
  <2> QED BY <2>1, <2>2, UnlockedDrops, DroppingKeeps
<1>9. CASE Release(p)
  <2>1. lock' = Unlocked(p) /\ pc[p] = "calling" /\ mtx' = mtx
    BY <1>9 DEF Release, Ready
  <2>2. pc'[p] \in {"waking", "user"}
    BY <1>9, <2>1 DEF Release, Sleepers
  <2>3. ASSUME NEW q \in Procs \ {p}, ~Same(q)
        PROVE  pc[q] = "asleep" /\ pc'[q] = "calling" /\ todo'[q] = variant.relocks /\ op'[q] = op[q]
    BY <2>1, <2>3, <1>9 DEF Release, Sleepers, Same, TypeOK
  <2>4. Dropped(p, one, other)
    BY <2>1, <2>2, UnlockedDrops DEF Dropped
  <2>5. \A q \in Procs \ {p} : Same(q) \/ Dropped(q, one, other) \/ Back(q)
    BY <2>1, <2>3, UnlockedDrops, WakingKeeps
  <2> QED BY <2>1, <2>4, <2>5, UnlockedDrops, DroppingKeeps
<1>10. CASE LateWakeup(p)
  <2>1. lock' = lock /\ mtx' = mtx /\ op' = op /\ pc[p] = "waking"
    BY <1>10 DEF LateWakeup
  <2>2. p \notin Sleepers(mtx[p])
    BY <2>1 DEF Sleepers
  <2>3. pc'[p] = "user"
    BY <1>10, <2>2 DEF LateWakeup
  <2>4. Dropped(p, one, other)
    BY <2>1, <2>3 DEF Dropped, Ordered, Disciplined
  <2>5. ASSUME NEW q \in Procs \ {p}, ~Same(q)
        PROVE  pc[q] = "asleep" /\ pc'[q] = "calling" /\ todo'[q] = variant.relocks /\ op'[q] = op[q]
    BY <2>1, <2>5, <1>10 DEF LateWakeup, Sleepers, Same
  <2>6. \A q \in Procs \ {p} : Same(q) \/ Dropped(q, one, other) \/ Back(q)
    BY <2>1, <2>5, WakingKeeps
  <2> QED BY <2>1, <2>4, <2>6, DroppingKeeps
<1>11. CASE Kill(p)
  <2>1. /\ lock' = lock /\ pc[p] = "asleep" /\ pc'[p] = "calling"
        /\ todo'[p] = variant.relocks /\ op'[p] = op[p]
        /\ \A q \in Procs \ {p} : Same(q)
    BY <1>11 DEF Kill, TypeOK, Same
  <2>2. Dropped(p, one, other) \/ Back(p)
    BY <2>1, WakingKeeps
  <2> QED BY <2>1, <2>2, DroppingKeeps
<1>12. CASE Exit(p)
  <2>1. /\ lock' = lock /\ pc[p] = "user" /\ pc'[p] = "gone"
        /\ \A q \in Procs \ {p} : Same(q)
    BY <1>12 DEF Exit, TypeOK, Same
  <2>2. Dropped(p, one, other)
    BY <2>1 DEF Dropped, Ordered, Disciplined
  <2> QED BY <2>1, <2>2, DroppingKeeps
<1> QED BY <1>3, <1>4, <1>5, <1>6, <1>7, <1>8, <1>9, <1>10, <1>11, <1>12 DEF Step

LEMMA VariantKept == [Next]_vars => UNCHANGED variant
  BY DEF Next, Step, vars, CallCreate, CallAcquire, CallRelease, CallDestroy, Enter, Spin, Create,
         AcquireFail, Probe, AcquireSleep, AcquireTake, ReleaseFail, Release, LateWakeup,
         DestroyFail, Destroy, Kill, Exit

LEMMA NextKeepsOrder ==
  ASSUME TypeOK, NEW one, NEW other, {one, other} = {"table", "mutex"},
         LocksInOrder(one, other), [Next]_vars
  PROVE  LocksInOrder(one, other)'
<1> SUFFICES ASSUME OneOrder(variant, one, other)
             PROVE  \A p \in Procs : Ordered(p, one, other)'
  BY VariantKept DEF LocksInOrder
<1>1. CASE UNCHANGED vars
  BY <1>1 DEF vars, LocksInOrder, Ordered, Disciplined, Relocks
<1>2. CASE \E p \in Procs : Step(p)
  BY <1>2, StepKeepsOrder, VariantKept DEF LocksInOrder
<1> QED BY <1>1, <1>2 DEF Next

LEMMA LockInvHolds == Spec => []LockInv
<1>1. Init => LockInv
  <2> SUFFICES ASSUME Init PROVE LockInv
    OBVIOUS
  <2>1. ASSUME NEW p \in Procs, NEW one, NEW other PROVE Ordered(p, one, other)
    BY NameAssumption DEF Init, Ordered, Disciplined
  <2> QED BY <2>1, InitTyped DEF LockInv, LocksInOrder
<1>2. LockInv /\ [Next]_vars => LockInv'
  <2> SUFFICES ASSUME LockInv, [Next]_vars PROVE LockInv'
    OBVIOUS
  <2>1. TypeOK'
    BY StepTyped DEF LockInv
  <2>2. LocksInOrder("table", "mutex")'
    BY NextKeepsOrder DEF LockInv
  <2>3. {"mutex", "table"} = {"table", "mutex"}
    OBVIOUS
  <2>4. LocksInOrder("mutex", "table")'
    BY <2>3, NextKeepsOrder DEF LockInv
  <2> QED BY <2>1, <2>2, <2>4 DEF LockInv
<1> QED BY <1>1, <1>2, PTL DEF Spec

(* Two processes never spin for each other, unless one of them is back from a  *)
(* sleep that turns the order of its locks round.                              *)
THEOREM NoSpinDeadlockHolds == Spec => []NoSpinDeadlock
<1>1. ASSUME TypeOK, NEW one, NEW other, {one, other} = {"table", "mutex"},
             NEW p \in Procs, NEW q \in Procs, SpinsFor(p, q), SpinsFor(q, p),
             Disciplined(p, one, other), Disciplined(q, one, other)
      PROVE  FALSE
  <2>1. \A l \in Locks : lock[l] = q => todo[q] = <<other>> /\ l = LockNamed(one, mtx[q])
    BY <1>1 DEF SpinsFor, Disciplined
  <2>2. \A l \in Locks : lock[l] = p => l = LockNamed(one, mtx[p])
    BY <1>1 DEF SpinsFor, Disciplined
  <2>3. Next_(p) \in Locks /\ Next_(q) \in Locks
    BY <1>1 DEF Next_, LockNamed, Locks, TypeOK
  <2>4. Next_(q) = LockNamed(one, mtx[p])
    BY <2>2, <2>3, <1>1 DEF SpinsFor
  <2>5. todo[q] = <<other>>
    BY <2>1, <2>3, <1>1 DEF SpinsFor
  <2>6. Next_(q) = LockNamed(other, mtx[q])
    BY <2>5, ListFacts DEF Next_
  <2>7. \/ one = "table" /\ other = "mutex"
        \/ one = "mutex" /\ other = "table"
    BY <1>1
  <2>8. mtx[p] \in Mutexes /\ mtx[q] \in Mutexes
    BY <1>1 DEF TypeOK
  <2> QED BY <2>4, <2>6, <2>7, <2>8, NameAssumption DEF LockNamed
<1>2. LockInv => NoSpinDeadlock
  <2> SUFFICES ASSUME LockInv, NEW p \in Procs, NEW q \in Procs, SpinsFor(p, q), SpinsFor(q, p),
                      ~Relocks(p), ~Relocks(q)
               PROVE  FALSE
    BY DEF NoSpinDeadlock
  <2>1. OneOrder(variant, "table", "mutex") \/ OneOrder(variant, "mutex", "table")
    BY OrderAssumption DEF LockInv, TypeOK
  <2>2. {"mutex", "table"} = {"table", "mutex"}
    OBVIOUS
  <2> QED BY <1>1, <2>1, <2>2 DEF LockInv, LocksInOrder, Ordered
<1> QED BY <1>2, LockInvHolds, PTL
=============================================================================
