----------------------------- MODULE Sched_proofs -----------------------------
(* What holds of the process table for any number of slots and processors and  *)
(* for every kernel that Variant describes.                                    *)
EXTENDS Sched, FunctionTheorems, FiniteSetTheorems, TLAPS

(* The inductive invariant. Besides the properties themselves it says where    *)
(* the lock can be, ...                                                        *)
LockPlace ==
  /\ \A p \in Slots : lock = p => Running(p)
  /\ \A c \in CPUs : lock = c => cpu[c] = NoProc

(* ... which states go with which stretch of code, ...                         *)
InKernelOrUser == {"user", "forking", "forked", "exiting", "napping", "napwoken"}
Stages ==
  \A p \in Slots :
    /\ pc[p] \in InKernelOrUser => state[p] \in {"RUNNABLE", "RUNNING"}
    /\ pc[p] = "fresh" => state[p] \in {"EMBRYO", "RUNNABLE", "RUNNING"}
    /\ pc[p] \in {"waiting", "napslept"} => state[p] \in {"SLEEPING", "RUNNABLE", "RUNNING"}
    /\ pc[p] = "none" => state[p] \in {"UNUSED", "ZOMBIE"}

(* ... what fork() has made so far of a child, which belongs to one fork(), ...*)
InFork(p) == pc[p] \in {"forking", "forked"}
Embryos ==
  \A p \in Slots : InFork(p) =>
    /\ np[p] \in Slots \ {InitProc}
    /\ state[np[p]] = "EMBRYO" /\ creator[np[p]] = pid[p]
    /\ parent[np[p]] = IF pc[p] = "forking" THEN NoProc ELSE p
    /\ \A q \in Slots : InFork(q) /\ np[q] = np[p] => q = p

(* ... that init stays, is first, and has no parent, that a free slot has none *)
(* and nobody is its own, ...                                                  *)
InitStays ==
  /\ parent[InitProc] = NoProc /\ pid[InitProc] = 1 /\ ~killed[InitProc]
  /\ pc[InitProc] \notin {"exiting", "none"} /\ state[InitProc] \notin {"UNUSED", "ZOMBIE"}
  /\ state[InitProc] = "EMBRYO" => \A q \in Slots \ {InitProc} : state[q] = "UNUSED"
Parents == \A p \in Slots : parent[p] # p /\ (state[p] = "UNUSED" => parent[p] = NoProc)

(* ... and that a process in wait() sleeps on its own slot, not killed, with a *)
(* child and no dead one, whoever holds the lock.                              *)
Waiters ==
  \A p \in Slots : state[p] = "SLEEPING" /\ pc[p] = "waiting" =>
    /\ chan[p] = p /\ ~killed[p] /\ Kids(p) # {}
    /\ \A q \in Kids(p) : state[q] # "ZOMBIE"

IInv ==
  /\ TypeOK /\ OneCpuEach /\ LockPlace /\ Stages /\ Embryos /\ InitStays
  /\ Parents /\ QueueExact /\ Waiters /\ Family

-----------------------------------------------------------------------------
(* Sequences without repetition, which is what a ready queue is.               *)
InSeq(p, q) == \E k \in DOMAIN q : q[k] = p
NoRepeat(q) == \A j, k \in DOMAIN q : q[j] = q[k] => j = k

LEMMA ConcatFacts ==
  ASSUME NEW q \in Seq(Slots), NEW s \in Seq(Slots), NoRepeat(q), NoRepeat(s),
         \A p \in Slots : ~(InSeq(p, q) /\ InSeq(p, s))
  PROVE  /\ q \o s \in Seq(Slots) /\ NoRepeat(q \o s)
         /\ \A p \in Slots : InSeq(p, q \o s) <=> InSeq(p, q) \/ InSeq(p, s)
<1> DEFINE r == q \o s
<1>1. r \in Seq(Slots) /\ DOMAIN r = 1 .. Len(q) + Len(s)
  OBVIOUS
<1>2. /\ \A k \in 1 .. Len(q) : r[k] = q[k]
      /\ \A k \in 1 .. Len(s) : r[Len(q) + k] = s[k]
  OBVIOUS
<1>3. \A k \in DOMAIN r : k \in 1 .. Len(q) \/ k - Len(q) \in 1 .. Len(s)
  BY <1>1
<1>4. /\ DOMAIN q = 1 .. Len(q) /\ DOMAIN s = 1 .. Len(s)
      /\ Len(q) \in Nat /\ Len(s) \in Nat
  OBVIOUS
<1>5. ASSUME NEW k \in 1 .. Len(s) PROVE Len(q) + k \in DOMAIN r
  BY <1>1, <1>4
<1>6. ASSUME NEW k \in DOMAIN r, k \notin 1 .. Len(q)
      PROVE  k - Len(q) \in 1 .. Len(s) /\ r[k] = s[k - Len(q)] /\ k \in Nat
  <2>1. k - Len(q) \in 1 .. Len(s) /\ k \in Nat /\ Len(q) + (k - Len(q)) = k
    BY <1>6, <1>3, <1>1, <1>4
  <2> QED BY <2>1, <1>2
<1> HIDE DEF r
<1>7. NoRepeat(r)
  <2> SUFFICES ASSUME NEW j \in DOMAIN r, NEW k \in DOMAIN r, r[j] = r[k] PROVE j = k
    BY DEF NoRepeat
  <2>1. CASE j \in 1 .. Len(q) /\ k \in 1 .. Len(q)
    BY <2>1, <1>2, <1>4 DEF NoRepeat
  <2>2. CASE j \notin 1 .. Len(q) /\ k \notin 1 .. Len(q)
    <3>1. j - Len(q) = k - Len(q)
      BY <2>2, <1>6, <1>4 DEF NoRepeat
    <3> QED BY <3>1, <2>2, <1>6, <1>4
  <2>3. CASE j \in 1 .. Len(q) /\ k \notin 1 .. Len(q)
    BY <2>3, <1>2, <1>4, <1>6 DEF InSeq
  <2>4. CASE j \notin 1 .. Len(q) /\ k \in 1 .. Len(q)
    BY <2>4, <1>2, <1>4, <1>6 DEF InSeq
  <2> QED BY <2>1, <2>2, <2>3, <2>4
<1>8. ASSUME NEW p \in Slots PROVE InSeq(p, r) <=> InSeq(p, q) \/ InSeq(p, s)
  <2>1. InSeq(p, q) => InSeq(p, r)
    BY <1>1, <1>2, <1>4 DEF InSeq
  <2>2. InSeq(p, s) => InSeq(p, r)
    BY <1>5, <1>2, <1>4 DEF InSeq
  <2>3. InSeq(p, r) => InSeq(p, q) \/ InSeq(p, s)
    BY <1>6, <1>2, <1>4 DEF InSeq
  <2> QED BY <2>1, <2>2, <2>3
<1> QED BY <1>1, <1>7, <1>8 DEF r

LEMMA TailFacts ==
  ASSUME NEW q \in Seq(Slots), q # <<>>, NoRepeat(q)
  PROVE  /\ Tail(q) \in Seq(Slots) /\ NoRepeat(Tail(q)) /\ 1 \in DOMAIN q
         /\ \A p \in Slots : InSeq(p, Tail(q)) <=> InSeq(p, q) /\ p # q[1]
<1> DEFINE r == Tail(q)
<1>1. /\ r \in Seq(Slots) /\ DOMAIN r = 1 .. Len(q) - 1 /\ DOMAIN q = 1 .. Len(q)
      /\ Len(q) \in Nat \ {0}
  OBVIOUS
<1>2. \A k \in 1 .. Len(q) - 1 : r[k] = q[k + 1]
  OBVIOUS
<1> HIDE DEF r
<1>3. NoRepeat(r)
  <2> SUFFICES ASSUME NEW j \in DOMAIN r, NEW k \in DOMAIN r, r[j] = r[k] PROVE j = k
    BY DEF NoRepeat
  <2>1. q[j + 1] = q[k + 1] /\ j + 1 \in DOMAIN q /\ k + 1 \in DOMAIN q
    BY <1>1, <1>2
  <2>2. j + 1 = k + 1
    BY <2>1 DEF NoRepeat
  <2> QED BY <2>2, <1>1
<1>4. ASSUME NEW p \in Slots PROVE InSeq(p, r) <=> InSeq(p, q) /\ p # q[1]
  <2>1. ASSUME NEW k \in DOMAIN r, r[k] = p PROVE InSeq(p, q) /\ p # q[1]
    <3>1. q[k + 1] = p /\ k + 1 \in DOMAIN q /\ 1 \in DOMAIN q /\ k + 1 # 1
      BY <2>1, <1>1, <1>2
    <3> QED BY <3>1 DEF InSeq, NoRepeat
  <2>2. ASSUME NEW k \in DOMAIN q, q[k] = p, p # q[1] PROVE InSeq(p, r)
    <3>1. k - 1 \in DOMAIN r /\ (k - 1) + 1 = k
      BY <2>2, <1>1
    <3> QED BY <3>1, <2>2, <1>1, <1>2 DEF InSeq
  <2> QED BY <2>1, <2>2 DEF InSeq
<1>5. 1 \in DOMAIN q
  BY <1>1
<1> QED BY <1>1, <1>3, <1>4, <1>5 DEF r

(* An order of a set of slots has each of them once.                           *)
LEMMA OrderFacts ==
  ASSUME NEW S \in SUBSET Slots, NEW s \in Orders(S)
  PROVE  /\ s \in Seq(Slots) /\ NoRepeat(s)
         /\ \A p \in Slots : InSeq(p, s) <=> p \in S
<1>1. IsFiniteSet(Slots)
  BY FS_Interval, TableAssumption DEF Slots
<1>2. IsFiniteSet(S) /\ Cardinality(S) \in Nat
  BY <1>1, FS_Subset, FS_CardinalityType
<1> DEFINE n == Cardinality(S)
<1>3. s \in [1 .. n -> S] /\ DOMAIN s = 1 .. n /\ NoRepeat(s)
  BY DEF Orders, NoRepeat
<1>4. s \in Injection(1 .. n, S)
  BY <1>3 DEF Injection, IsInjective, NoRepeat
<1>5. Cardinality(1 .. n) = n
  <2>1. n \in Nat /\ 1 \in Int /\ n \in Int
    BY <1>2
  <2>2. Cardinality(1 .. n) = IF 1 > n THEN 0 ELSE n - 1 + 1
    BY <2>1, FS_Interval
  <2> QED BY <2>1, <2>2
<1>6. s \in Surjection(1 .. n, S)
  BY <1>2, <1>4, <1>5, FS_Injection
<1>7. \A p \in S : InSeq(p, s)
  BY <1>3, <1>6 DEF Surjection, InSeq
<1>8. s \in Seq(Slots)
  BY <1>2, <1>3
<1>9. \A p : InSeq(p, s) => p \in S
  BY <1>3 DEF InSeq
<1> QED BY <1>3, <1>7, <1>8, <1>9

LEMMA TableOrder ==
  ASSUME NEW S \in SUBSET Slots, NEW s \in InTableOrder(S)
  PROVE  s \in Orders(S)
  BY DEF InTableOrder

-----------------------------------------------------------------------------
(* Small facts about the table and the processors.                             *)
LEMMA NoClash ==
  /\ NoProc \notin Slots /\ Lost \notin Slots /\ InitProc \in Slots
  /\ NoProc \notin CPUs /\ Lost \notin CPUs /\ \A c \in CPUs : c \notin Slots
  /\ Ticks \notin Slots
  BY TableAssumption, CpuAssumption DEF Slots, NoProc, Lost, InitProc, Ticks

LEMMA CpuOfRunning ==
  ASSUME NEW p, Running(p)
  PROVE  CpuOf(p) \in CPUs /\ cpu[CpuOf(p)] = p
  BY DEF Running, CpuOf

LEMMA PutType ==
  ASSUME TypeOK, NEW s \in Seq(Slots)
  PROVE  Put(s) \in Seq(Slots)
  BY DEF Put, TypeOK, KernelType

LEMMA BecomeType ==
  ASSUME TypeOK, NEW p, NEW s \in States, NEW W, Become(p, s, W)
  PROVE  state' \in [Slots -> States]
  BY DEF Become, TypeOK, TableType, States

LEMMA NudgeType ==
  ASSUME TypeOK, NEW call, NEW c, NEW W, Nudge(call, c) \/ NudgeFor(W, c) \/ UNCHANGED idle
  PROVE  idle' \in [CPUs -> {"on", "halting", "halted"}]
<1>1. CASE Nudge(call, c)
  BY <1>1 DEF Nudge, TypeOK, KernelType
<1>2. CASE NudgeFor(W, c)
  BY <1>2 DEF NudgeFor, Nudge, TypeOK, KernelType
<1>3. CASE UNCHANGED idle
  BY <1>3 DEF TypeOK, KernelType
<1> QED BY <1>1, <1>2, <1>3

LEMMA LeaveType ==
  ASSUME TypeOK, NEW p \in Slots, Running(p), ToScheduler(CpuOf(p))
  PROVE  /\ cpu' \in [CPUs -> Slots \cup {NoProc}] /\ lock' \in CPUs
         /\ at' \in {0} \cup Slots
  BY CpuOfRunning DEF ToScheduler, TypeOK, KernelType

(* The slots that have an interruptible process.                               *)
LEMMA AfterTrapType == \A p : AfterTrap(p) \in PCs
  BY DEF AfterTrap, PCs

-----------------------------------------------------------------------------
LEMMA InitTyped == Init => TypeOK
<1> SUFFICES ASSUME Init PROVE TypeOK
  OBVIOUS
<1>1. TableType
  BY NoClash, TableAssumption DEF Init, TableType, States
<1>2. variant \in Variant
  BY VariantAssumption DEF Init
<1>3. <<>> \in Seq(Slots) /\ nextpid \in 2 .. MaxPid + 1
  BY TableAssumption DEF Init
<1>4. KernelType
  BY <1>2, <1>3, TableAssumption DEF Init, KernelType, PCs
<1> QED BY <1>1, <1>4 DEF TypeOK

(* The steps of schedulers and of processes that stay on their CPU.            *)
LEMMA StayTyped ==
  ASSUME TypeOK, NEW p \in Slots, NEW c \in CPUs,
         \/ Release(c) \/ EmptyRound(c) \/ Halt(c) \/ Interrupt(c) \/ Resume(p) \/ SleepReturn(p)
         \/ ExitCall(p) \/ NapTest(p) \/ NapReturn(p) \/ ForkCopy(p) \/ ForkFail(p)
  PROVE  TypeOK'
<1> USE NoClash, AfterTrapType
<1>1. CASE Release(c) \/ EmptyRound(c) \/ Halt(c) \/ Interrupt(c)
  BY <1>1 DEF Release, EmptyRound, Halt, Interrupt, Stops, procVars, cpuVars, TypeOK, TableType, KernelType
<1>2. CASE Resume(p) \/ SleepReturn(p)
  BY <1>2 DEF Resume, SleepReturn, Go, procVars, cpuVars, TypeOK, TableType, KernelType, PCs
<1>3. CASE ExitCall(p) \/ NapTest(p) \/ NapReturn(p)
  BY <1>3 DEF ExitCall, NapTest, NapReturn, Go, procVars, cpuVars, TypeOK, TableType, KernelType, PCs
<1>4. CASE ForkCopy(p)
  BY <1>4 DEF ForkCopy, ParentFor, Go, cpuVars, TypeOK, TableType, KernelType, PCs
<1>5. CASE ForkFail(p)
  <2>1. TableType'
    BY <1>5 DEF ForkFail, TypeOK, TableType, States
  <2>2. pc' \in [Slots -> PCs]
    <3>1. AfterTrap(p) \in PCs /\ "none" \in PCs
      BY DEF PCs
    <3> QED BY <1>5, <3>1 DEF ForkFail, TypeOK, KernelType
  <2>3. creator' \in [Slots -> 0 .. MaxPid] /\ np' \in [Slots -> Slots \cup {NoProc}]
    <3>1. 0 \in 0 .. MaxPid
      BY TableAssumption
    <3> QED BY <1>5, <3>1 DEF ForkFail, TypeOK, KernelType
  <2>4. KernelType'
    BY <1>5, <2>2, <2>3 DEF ForkFail, cpuVars, TypeOK, KernelType
  <2> QED BY <2>1, <2>4 DEF TypeOK
<1> QED BY <1>1, <1>2, <1>3, <1>4, <1>5

LEMMA ForkTyped ==
  ASSUME TypeOK, Embryos, NEW p \in Slots, Fork(p) \/ ForkDone(p) \/ UserInit
  PROVE  TypeOK'
<1>1. CASE Fork(p)
  <2>1. PICK q \in FreeSlot({r \in Slots : state[r] = "UNUSED"}) :
          /\ state' = [state EXCEPT ![q] = "EMBRYO"]
          /\ pid' = [pid EXCEPT ![q] = nextpid]
          /\ np' = [np EXCEPT ![p] = q]
          /\ pc' = [pc EXCEPT ![p] = "forking", ![q] = "fresh"]
          /\ creator' = [creator EXCEPT ![q] = pid[p]]
    BY <1>1 DEF Fork
  <2>2. q \in Slots
    BY DEF FreeSlot, First
  <2>3. nextpid' \in 2 .. MaxPid + 1 /\ nextpid \in 0 .. MaxPid
    BY <1>1, TableAssumption DEF Fork, TypeOK, KernelType
  <2>4. TableType'
    BY <1>1, <2>1, <2>2, <2>3 DEF Fork, TypeOK, TableType, States
  <2>5. KernelType'
    BY <1>1, <2>1, <2>2, <2>3 DEF Fork, cpuVars, TypeOK, TableType, KernelType, PCs
  <2> QED BY <2>4, <2>5 DEF TypeOK
<1>2. CASE ForkDone(p)
  <2>1. ready' \in Seq(Slots)
    <3>1. <<np[p]>> \in Seq(Slots)
      BY <1>2 DEF ForkDone, Embryos, InFork
    <3> QED BY <3>1, <1>2, PutType DEF ForkDone
  <2>2. idle' \in [CPUs -> {"on", "halting", "halted"}]
    BY <1>2, NudgeType DEF ForkDone
  <2>3. TableType'
    BY <1>2 DEF ForkDone, TypeOK, TableType, States
  <2>4. KernelType'
    BY <1>2, <2>1, <2>2, AfterTrapType DEF ForkDone, Go, TypeOK, KernelType
  <2> QED BY <2>3, <2>4 DEF TypeOK
<1>3. CASE UserInit
  <2>1. ready' \in Seq(Slots)
    <3>1. <<InitProc>> \in Seq(Slots)
      BY NoClash
    <3> QED BY <3>1, <1>3, PutType DEF UserInit
  <2>2. idle' \in [CPUs -> {"on", "halting", "halted"}]
    BY <1>3, NudgeType DEF UserInit
  <2>3. TableType'
    BY <1>3 DEF UserInit, TypeOK, TableType, States
  <2>4. KernelType'
    BY <1>3, <2>1, <2>2 DEF UserInit, TypeOK, KernelType
  <2> QED BY <2>3, <2>4 DEF TypeOK
<1> QED BY <1>1, <1>2, <1>3

(* The steps in which a process leaves its CPU, or takes one.                  *)
LEMMA SwitchTyped ==
  ASSUME TypeOK, NEW p \in Slots, NEW c \in CPUs,
         Dispatch(c) \/ Yield(p) \/ Exit(p) \/ NapSleep(p)
  PROVE  TypeOK'
<1>1. CASE Dispatch(c)
  <2>1. PICK q \in NextUp : /\ cpu' = [cpu EXCEPT ![c] = q]
                            /\ lock' = q
                            /\ state' = [state EXCEPT ![q] = "RUNNING"]
    BY <1>1 DEF Dispatch
  <2>2. q \in Slots /\ ready' \in Seq(Slots)
    <3>1. CASE Scans
      BY <1>1, <3>1 DEF Dispatch, NextUp, First, Runnable, Rest, TypeOK, KernelType
    <3>2. CASE ~Scans
      <4>1. ready \in Seq(Slots) /\ 1 \in DOMAIN ready /\ q = ready[1]
        BY <3>2 DEF NextUp, TypeOK, KernelType
      <4>2. ready # <<>> /\ q \in Slots /\ Tail(ready) \in Seq(Slots)
        BY <4>1
      <4> QED BY <1>1, <3>2, <4>2 DEF Dispatch, Rest
    <3> QED BY <3>1, <3>2
  <2>3. TableType'
    BY <1>1, <2>1, <2>2 DEF Dispatch, TypeOK, TableType, States
  <2>4. KernelType'
    BY <1>1, <2>1, <2>2 DEF Dispatch, TypeOK, KernelType
  <2> QED BY <2>3, <2>4 DEF TypeOK
<1>2. CASE Yield(p)
  <2>1. ready' \in Seq(Slots)
    <3>1. <<p>> \in Seq(Slots)
      OBVIOUS
    <3> QED BY <1>2, <3>1, PutType DEF Yield
  <2>2. state' \in [Slots -> States]
    <3>1. "RUNNABLE" \in States
      BY DEF States
    <3> QED BY <1>2, <3>1, BecomeType DEF Yield
  <2>3. idle' \in [CPUs -> {"on", "halting", "halted"}]
    BY <1>2, NudgeType DEF Yield
  <2>4. /\ cpu' \in [CPUs -> Slots \cup {NoProc}] /\ lock' \in CPUs
        /\ at' \in {0} \cup Slots
    BY <1>2, LeaveType DEF Yield, Executing
  <2> QED BY <1>2, <2>1, <2>2, <2>3, <2>4 DEF Yield, TypeOK, TableType, KernelType
<1>3. CASE Exit(p)
  <2>1. PICK s \in InTableOrder(WokenParent(p)), t \in InTableOrder(WokenForOrphans(p) \ WokenParent(p)) :
          ready' = Put(s \o t)
    BY <1>3 DEF Exit
  <2>2. WokenParent(p) \in SUBSET Slots /\ WokenForOrphans(p) \ WokenParent(p) \in SUBSET Slots
    BY DEF WokenParent, WokenForOrphans, Asleep
  <2>3. s \in Seq(Slots) /\ t \in Seq(Slots)
    BY <2>2, TableOrder, OrderFacts
  <2>4. ready' \in Seq(Slots)
    <3>1. s \o t \in Seq(Slots)
      BY <2>3
    <3> QED BY <2>1, <3>1, PutType
  <2>5. state' \in [Slots -> States]
    <3>1. "ZOMBIE" \in States
      BY DEF States
    <3> QED BY <1>3, <3>1, BecomeType DEF Exit
  <2>6. idle' \in [CPUs -> {"on", "halting", "halted"}]
    BY <1>3, NudgeType DEF Exit
  <2>7. /\ cpu' \in [CPUs -> Slots \cup {NoProc}] /\ lock' \in CPUs
        /\ at' \in {0} \cup Slots
    BY <1>3, LeaveType DEF Exit, Executing
  <2>8. parent' \in [Slots -> Slots \cup {NoProc}]
    BY <1>3, NoClash DEF Exit, Reparented, TypeOK, TableType
  <2>9. pc' \in [Slots -> PCs]
    BY <1>3 DEF Exit, Go, TypeOK, KernelType, PCs
  <2> QED BY <1>3, <2>4, <2>5, <2>6, <2>7, <2>8, <2>9 DEF Exit, TypeOK, TableType, KernelType
<1>4. CASE NapSleep(p)
  <2>1. state' \in [Slots -> States]
    <3>1. "SLEEPING" \in States
      BY DEF States
    <3> QED BY <1>4, <3>1, BecomeType DEF NapSleep
  <2>2. /\ cpu' \in [CPUs -> Slots \cup {NoProc}] /\ lock' \in CPUs
        /\ at' \in {0} \cup Slots
    BY <1>4, LeaveType DEF NapSleep, Executing
  <2>3. pc' \in [Slots -> PCs]
    BY <1>4 DEF NapSleep, Go, TypeOK, KernelType, PCs
  <2>4. chan' \in [Slots -> Slots \cup {NoProc, Ticks}]
    BY <1>4 DEF NapSleep, TypeOK, TableType
  <2> QED BY <1>4, <2>1, <2>2, <2>3, <2>4 DEF NapSleep, TypeOK, TableType, KernelType
<1> QED BY <1>1, <1>2, <1>3, <1>4

LEMMA WaitTyped ==
  ASSUME TypeOK, NEW p \in Slots, Wait(p)
  PROVE  TypeOK'
<1>1. AfterTrap(p) \in PCs /\ "waiting" \in PCs
  BY AfterTrapType DEF PCs
<1>2. CASE Reap(p)
  <2>1. PICK q \in First({k \in Kids(p) : state[k] = "ZOMBIE"}) :
          /\ state' = [state EXCEPT ![q] = "UNUSED"]
          /\ pid' = [pid EXCEPT ![q] = 0]
          /\ parent' = [parent EXCEPT ![q] = NoProc]
          /\ killed' = [killed EXCEPT ![q] = FALSE]
          /\ creator' = [creator EXCEPT ![q] = 0]
    BY <1>2 DEF Reap
  <2>2. 0 \in 0 .. MaxPid /\ "UNUSED" \in States
    BY TableAssumption DEF States
  <2>3. state' \in [Slots -> States] /\ pid' \in [Slots -> 0 .. MaxPid]
    BY <2>1, <2>2 DEF TypeOK, TableType
  <2>4. parent' \in [Slots -> Slots \cup {NoProc}] /\ killed' \in [Slots -> BOOLEAN]
    BY <2>1 DEF TypeOK, TableType
  <2>5. creator' \in [Slots -> 0 .. MaxPid]
    BY <2>1, <2>2 DEF TypeOK, KernelType
  <2>6. /\ chan' = [chan EXCEPT ![p] = NoProc] /\ lock' = NoProc
        /\ pc' = [pc EXCEPT ![p] = AfterTrap(p)]
        /\ UNCHANGED <<cpuVars, np, ready, nextpid, variant>>
    BY <1>2 DEF Wait, Reap, Go
  <2>7. chan' \in [Slots -> Slots \cup {NoProc, Ticks}] /\ pc' \in [Slots -> PCs]
    BY <2>6, <1>1 DEF TypeOK, TableType, KernelType
  <2>8. at = 0
    BY NoClash DEF Wait, TypeOK, KernelType
  <2> QED BY <2>3, <2>4, <2>5, <2>6, <2>7, <2>8 DEF cpuVars, TypeOK, TableType, KernelType
<1>3. CASE GiveUp(p)
  BY <1>3, <1>1, NoClash DEF Wait, GiveUp, Go, cpuVars, TypeOK, TableType, KernelType
<1>4. CASE WaitSleep(p)
  <2>1. state' \in [Slots -> States]
    <3>1. "SLEEPING" \in States
      BY DEF States
    <3> QED BY <1>4, <3>1, BecomeType DEF WaitSleep
  <2>2. /\ cpu' \in [CPUs -> Slots \cup {NoProc}] /\ lock' \in CPUs
        /\ at' \in {0} \cup Slots
    BY <1>4, LeaveType DEF Wait, WaitSleep
  <2>3. pc' \in [Slots -> PCs]
    BY <1>4, <1>1 DEF WaitSleep, Go, TypeOK, KernelType
  <2> QED BY <1>4, <2>1, <2>2, <2>3 DEF Wait, WaitSleep, TypeOK, TableType, KernelType
<1> QED BY <1>2, <1>3, <1>4 DEF Wait

(* The steps that wake sleepers.                                               *)
LEMMA WakeTyped ==
  ASSUME TypeOK, NEW p \in Slots, NEW k \in Nat, Tick \/ Kill(p, k) \/ KillJobs
  PROVE  TypeOK'
<1>0. "RUNNABLE" \in States
  BY DEF States
<1>1. CASE Tick
  <2>1. ready' \in Seq(Slots)
    <3>1. Asleep(Ticks) \in SUBSET Slots
      BY DEF Asleep
    <3>2. PICK s \in InTableOrder(Asleep(Ticks)) : ready' = Put(s)
      BY <1>1 DEF Tick
    <3>3. s \in Seq(Slots)
      BY <3>1, TableOrder, OrderFacts
    <3> QED BY <3>2, <3>3, PutType
  <2>2. state' \in [Slots -> States]
    BY <1>0, <1>1, BecomeType DEF Tick
  <2>3. idle' \in [CPUs -> {"on", "halting", "halted"}]
    BY <1>1, NudgeType DEF Tick
  <2> QED BY <1>1, <2>1, <2>2, <2>3 DEF Tick, TypeOK, TableType, KernelType
<1>2. CASE Kill(p, k)
  <2>1. PICK q \in First({r \in Slots : pid[r] = k}) :
          /\ killed' = [killed EXCEPT ![q] = TRUE]
          /\ Become(NoProc, "RUNNABLE", WokenByKill(q))
          /\ \E s \in InTableOrder(WokenByKill(q)) : ready' = Put(s)
          /\ lock' = IF variant.killReleases \/ state[q] = "SLEEPING" THEN NoProc ELSE Lost
          /\ IF WokenByKill(q) # {} THEN Nudge("kill", CpuOf(p)) ELSE UNCHANGED idle
    BY <1>2 DEF Kill
  <2>2. WokenByKill(q) \in SUBSET Slots
    BY DEF WokenByKill, First
  <2>3. ready' \in Seq(Slots)
    <3>1. PICK s \in InTableOrder(WokenByKill(q)) : ready' = Put(s)
      BY <2>1
    <3>2. s \in Seq(Slots)
      BY <2>2, TableOrder, OrderFacts
    <3> QED BY <3>1, <3>2, PutType
  <2>4. state' \in [Slots -> States]
    BY <1>0, <2>1, BecomeType
  <2>5. idle' \in [CPUs -> {"on", "halting", "halted"}]
    BY <2>1, NudgeType
  <2>6. killed' \in [Slots -> BOOLEAN] /\ lock' \in Slots \cup CPUs \cup {NoProc, Lost}
    BY <2>1 DEF TypeOK, TableType
  <2>7. at = 0
    BY <1>2, NoClash DEF Kill, TypeOK, KernelType
  <2> QED BY <1>2, <2>3, <2>4, <2>5, <2>6, <2>7 DEF Kill, TypeOK, TableType, KernelType
<1>3. CASE KillJobs
  <2>1. PICK jobs, asleep \in SUBSET Slots :
          /\ killed' = [q \in Slots |-> killed[q] \/ q \in jobs]
          /\ Become(NoProc, "RUNNABLE", asleep)
          /\ \E s \in Orders(asleep) : ready' = Put(s)
    <3>1. PICK S : LET j == Below({q \in Slots : state[q] # "UNUSED" /\ parent[q] \in S \cup Shells})
                       a == {q \in j : state[q] = "SLEEPING"}
                   IN /\ killed' = [q \in Slots |-> killed[q] \/ q \in j]
                      /\ Become(NoProc, "RUNNABLE", a)
                      /\ \E s \in Orders(a) : ready' = Put(s)
      BY <1>3 DEF KillJobs
    <3> DEFINE j == Below({q \in Slots : state[q] # "UNUSED" /\ parent[q] \in S \cup Shells})
               a == {q \in j : state[q] = "SLEEPING"}
    <3>2. j \in SUBSET Slots /\ a \in SUBSET Slots
      BY DEF Below
    <3> QED BY <3>1, <3>2
  <2>2. ready' \in Seq(Slots)
    <3>1. PICK s \in Orders(asleep) : ready' = Put(s)
      BY <2>1
    <3>2. s \in Seq(Slots)
      BY OrderFacts
    <3> QED BY <3>1, <3>2, PutType
  <2>3. state' \in [Slots -> States]
    BY <1>0, <2>1, BecomeType
  <2>4. killed' \in [Slots -> BOOLEAN]
    BY <2>1 DEF TypeOK, TableType
  <2> QED BY <1>3, <2>2, <2>3, <2>4 DEF KillJobs, cpuVars, TypeOK, TableType, KernelType
<1> QED BY <1>1, <1>2, <1>3

-----------------------------------------------------------------------------
(* Processors and lock.                                                        *)
LEMMA RunningState ==
  ASSUME OneCpuEach, NEW p \in Slots, Running(p)
  PROVE  state[p] = "RUNNING"
  BY DEF OneCpuEach

LEMMA StayPlaced ==
  ASSUME IInv, TypeOK', cpu' = cpu, lock' \in {lock, NoProc, Lost},
         \A q \in Slots : state'[q] = "RUNNING" <=> state[q] = "RUNNING"
  PROVE  OneCpuEach' /\ LockPlace'
<1>1. OneCpuEach'
  BY DEF IInv, OneCpuEach, Running
<1>2. LockPlace'
  BY NoClash DEF IInv, LockPlace, Running
<1> QED BY <1>1, <1>2

LEMMA LeavePlaced ==
  ASSUME IInv, TypeOK', NEW p \in Slots, Running(p), ToScheduler(CpuOf(p)), state'[p] # "RUNNING",
         \A q \in Slots \ {p} : state'[q] = "RUNNING" <=> state[q] = "RUNNING"
  PROVE  OneCpuEach' /\ LockPlace'
<1> DEFINE c == CpuOf(p)
<1>1. c \in CPUs /\ cpu[c] = p /\ cpu' = [cpu EXCEPT ![c] = NoProc] /\ lock' = c
  BY CpuOfRunning DEF ToScheduler
<1> HIDE DEF c
<1>2. \A d \in CPUs : cpu'[d] = IF d = c THEN NoProc ELSE cpu[d]
  BY <1>1 DEF IInv, TypeOK, KernelType
<1>3. \A d \in CPUs : cpu[d] = p => d = c
  BY <1>1, NoClash DEF IInv, OneCpuEach
<1>4. \A q \in Slots : Running(q)' <=> Running(q) /\ q # p
  BY <1>1, <1>2, <1>3, NoClash DEF Running
<1>5. OneCpuEach'
  <2>1. \A q \in Slots : state'[q] = "RUNNING" <=> Running(q)'
    BY <1>4 DEF IInv, OneCpuEach
  <2>2. \A d, e \in CPUs : cpu'[d] = cpu'[e] /\ cpu'[d] # NoProc => d = e
    BY <1>2 DEF IInv, OneCpuEach
  <2> QED BY <2>1, <2>2 DEF OneCpuEach
<1>6. LockPlace'
  BY <1>1, <1>2, NoClash DEF LockPlace
<1> QED BY <1>5, <1>6

-----------------------------------------------------------------------------
(* The ready queue.                                                            *)
LEMMA QueueFacts ==
  QueueExact <=> /\ ~Scans => \A p \in Slots : state[p] = "RUNNABLE" <=> InSeq(p, ready)
                 /\ NoRepeat(ready)
  BY DEF QueueExact, InSeq, NoRepeat

LEMMA QueueFactsNext ==
  QueueExact' <=> /\ ~Scans' => \A p \in Slots : state'[p] = "RUNNABLE" <=> InSeq(p, ready')
                  /\ NoRepeat(ready')
  BY DEF QueueExact, InSeq, NoRepeat

LEMMA QueueStays ==
  ASSUME QueueExact, ready' = ready, variant' = variant,
         \A q \in Slots : state'[q] = "RUNNABLE" <=> state[q] = "RUNNABLE"
  PROVE  QueueExact'
  BY DEF QueueExact, Scans

LEMMA Enqueued ==
  ASSUME TypeOK, QueueExact, variant' = variant, NEW W, NEW s \in Seq(Slots), NoRepeat(s),
         \A q \in Slots : InSeq(q, s) <=> q \in W,
         \A q \in Slots : q \in W => state[q] # "RUNNABLE",
         ready' = Put(s),
         \A q \in Slots : state'[q] = "RUNNABLE" <=> state[q] = "RUNNABLE" \/ q \in W
  PROVE  QueueExact'
<1>1. Scans' <=> Scans
  BY DEF Scans
<1>2. CASE Scans
  BY <1>1, <1>2, QueueFacts, QueueFactsNext DEF Put
<1>3. CASE ~Scans
  <2>1. ready' = ready \o s
    BY <1>3 DEF Put
  <2>2. ready \in Seq(Slots) /\ NoRepeat(ready)
    BY QueueFacts DEF TypeOK, KernelType
  <2>3. \A q \in Slots : ~(InSeq(q, ready) /\ InSeq(q, s))
    BY <1>3, QueueFacts
  <2>4. NoRepeat(ready') /\ \A q \in Slots : InSeq(q, ready') <=> InSeq(q, ready) \/ InSeq(q, s)
    BY <2>1, <2>2, <2>3, ConcatFacts
  <2> QED BY <1>1, <1>3, <2>4, QueueFacts, QueueFactsNext
<1> QED BY <1>2, <1>3

LEMMA OneQueued ==
  ASSUME NEW p \in Slots
  PROVE  <<p>> \in Seq(Slots) /\ NoRepeat(<<p>>) /\ \A q \in Slots : InSeq(q, <<p>>) <=> q \in {p}
  BY DEF NoRepeat, InSeq

(* wakeup1() and kill(): sleepers join the queue.                              *)
LEMMA WokenQueued ==
  ASSUME TypeOK, QueueExact, variant' = variant, NEW W \in SUBSET Slots,
         \A q \in W : state[q] = "SLEEPING", Become(NoProc, "RUNNABLE", W),
         \E s \in Orders(W) : ready' = Put(s)
  PROVE  QueueExact'
<1>1. PICK s \in Orders(W) : ready' = Put(s)
  OBVIOUS
<1>2. s \in Seq(Slots) /\ NoRepeat(s) /\ \A q \in Slots : InSeq(q, s) <=> q \in W
  BY OrderFacts
<1>3. \A q \in Slots : state'[q] = "RUNNABLE" <=> state[q] = "RUNNABLE" \/ q \in W
  BY NoClash DEF Become, TypeOK, TableType
<1> QED BY <1>1, <1>2, <1>3, Enqueued

-----------------------------------------------------------------------------
(* The process table. What all steps keep in which no process begins or ends.  *)
TableInv == Stages /\ Embryos /\ InitStays /\ Parents /\ Waiters /\ Family

LEMMA LivingOn ==
  ASSUME IInv, TypeOK', UNCHANGED <<pid, parent, np, creator>>,
         \A q \in Slots : \/ state'[q] = state[q]
                          \/ Live(q) /\ state'[q] \in {"RUNNABLE", "RUNNING"},
         \A q \in Slots : \/ pc'[q] = pc[q]
                          \/ /\ pc'[q] \in InKernelOrUser \ {"forking", "forked"}
                             /\ state'[q] \in {"RUNNABLE", "RUNNING"},
         \A q \in Slots : state'[q] = "SLEEPING" => chan'[q] = chan[q] /\ (killed'[q] => killed[q]),
         ~killed'[InitProc] /\ pc'[InitProc] # "exiting"
  PROVE  TableInv'
<1>1. Stages'
  BY DEF IInv, Stages, Live, InKernelOrUser
<1>2. \A q \in Slots : InFork(q)' => InFork(q) /\ pc'[q] = pc[q]
  BY DEF InFork, InKernelOrUser
<1>3. Embryos'
  <2> SUFFICES ASSUME NEW p \in Slots, InFork(p)'
               PROVE  /\ np'[p] \in Slots \ {InitProc}
                      /\ state'[np'[p]] = "EMBRYO" /\ creator'[np'[p]] = pid'[p]
                      /\ parent'[np'[p]] = IF pc'[p] = "forking" THEN NoProc ELSE p
                      /\ \A q \in Slots : InFork(q)' /\ np'[q] = np'[p] => q = p
    BY DEF Embryos
  <2>1. InFork(p) /\ pc'[p] = pc[p]
    BY <1>2
  <2>2. np[p] \in Slots \ {InitProc} /\ state[np[p]] = "EMBRYO" /\ creator[np[p]] = pid[p]
    BY <2>1 DEF IInv, Embryos
  <2>3. state'[np[p]] = "EMBRYO"
    BY <2>2 DEF Live
  <2>4. parent[np[p]] = IF pc[p] = "forking" THEN NoProc ELSE p
    BY <2>1 DEF IInv, Embryos
  <2>5. \A q \in Slots : InFork(q) /\ np[q] = np[p] => q = p
    BY <2>1 DEF IInv, Embryos
  <2> QED BY <1>2, <2>1, <2>2, <2>3, <2>4, <2>5
<1>4. InitStays'
  <2>1. InitProc \in Slots
    BY NoClash
  <2>2. pc'[InitProc] # "none" /\ state'[InitProc] \notin {"UNUSED", "ZOMBIE"}
    BY <2>1 DEF IInv, InitStays, InKernelOrUser
  <2>3. state'[InitProc] = "EMBRYO" => state[InitProc] = "EMBRYO"
    BY <2>1
  <2>4. state[InitProc] = "EMBRYO" => \A q \in Slots \ {InitProc} : state'[q] = "UNUSED"
    BY DEF IInv, InitStays, Live
  <2> QED BY <2>2, <2>3, <2>4 DEF IInv, InitStays
<1>5. Parents'
  BY DEF IInv, Parents
<1>6. Waiters'
  <2> SUFFICES ASSUME NEW p \in Slots, state'[p] = "SLEEPING", pc'[p] = "waiting"
               PROVE  /\ chan'[p] = p /\ ~killed'[p] /\ Kids(p)' # {}
                      /\ \A q \in Kids(p)' : state'[q] # "ZOMBIE"
    BY DEF Waiters
  <2>1. state[p] = "SLEEPING" /\ pc[p] = "waiting"
    BY DEF InKernelOrUser
  <2>2. Kids(p)' = Kids(p)
    BY DEF Kids
  <2>3. \A q \in Slots : state'[q] = "ZOMBIE" => state[q] = "ZOMBIE"
    OBVIOUS
  <2> QED BY <2>1, <2>2, <2>3 DEF IInv, Waiters, Kids
<1>7. Family'
  <2>1. \A q \in Slots : Live(q) <=> Live(q)'
    BY DEF Live
  <2>2. \A q \in Slots : state'[q] = "ZOMBIE" => state[q] = "ZOMBIE"
    OBVIOUS
  <2>3. \A q \in Slots : parent[q] # NoProc => parent[q] \in Slots
    BY DEF IInv, TypeOK, TableType
  <2> QED BY <2>1, <2>2, <2>3 DEF IInv, Family
<1> QED BY <1>1, <1>3, <1>4, <1>5, <1>6, <1>7 DEF TableInv

LEMMA Parts ==
  IInv' <=> TypeOK' /\ OneCpuEach' /\ LockPlace' /\ QueueExact' /\ TableInv'
  BY DEF IInv, TableInv

(* init is never killed: it is neither the pid asked for nor below a shell.    *)
LEMMA InitNoJob ==
  ASSUME IInv, NEW S \in SUBSET Slots
  PROVE  InitProc \notin Below({q \in Slots : state[q] # "UNUSED" /\ parent[q] \in S})
<1> DEFINE T == {q \in Slots : state[q] # "UNUSED" /\ parent[q] \in S}
           C == Slots \ {InitProc}
<1>1. parent[InitProc] \notin Slots
  BY NoClash DEF IInv, InitStays
<1>2. C \in SUBSET Slots /\ T \subseteq C /\ Descends(C) /\ InitProc \notin C
  BY <1>1 DEF Descends
<1> HIDE DEF C, T
<1>3. InitProc \notin Below(T)
  BY <1>2 DEF Below
<1> QED BY <1>3 DEF T

(* Steps of a scheduler.                                                       *)
LEMMA SchedulerKeeps ==
  ASSUME IInv, TypeOK', NEW c \in CPUs,
         Release(c) \/ EmptyRound(c) \/ Halt(c) \/ Interrupt(c)
  PROVE  IInv'
<1>1. /\ UNCHANGED <<procVars, pc, np, ready, cpu, variant, creator>>
      /\ lock' \in {lock, NoProc}
  BY DEF Release, EmptyRound, Halt, Interrupt, Stops
<1>2. OneCpuEach' /\ LockPlace'
  BY <1>1, StayPlaced DEF procVars
<1>3. QueueExact'
  BY <1>1, QueueStays DEF IInv, procVars
<1>4. TableInv'
  <2>1. ~killed'[InitProc] /\ pc'[InitProc] # "exiting"
    BY <1>1 DEF procVars, IInv, InitStays
  <2> QED BY <1>1, <2>1, LivingOn DEF procVars
<1> QED BY <1>2, <1>3, <1>4, Parts

LEMMA DispatchKeeps ==
  ASSUME IInv, TypeOK', NEW c \in CPUs, Dispatch(c)
  PROVE  IInv'
<1>1. PICK p \in NextUp : /\ cpu' = [cpu EXCEPT ![c] = p]
                          /\ lock' = p
                          /\ state' = [state EXCEPT ![p] = "RUNNING"]
  BY DEF Dispatch
<1>2. /\ cpu[c] = NoProc
      /\ UNCHANGED <<pid, parent, chan, killed, pc, np, variant, creator>>
      /\ ready' = Rest
  BY DEF Dispatch
<1>3. p \in Slots /\ state[p] = "RUNNABLE"
  <2>1. CASE Scans
    BY <2>1 DEF NextUp, First, Runnable
  <2>2. CASE ~Scans
    <3>1. 1 \in DOMAIN ready /\ p = ready[1] /\ ready \in Seq(Slots)
      BY <2>2 DEF NextUp, IInv, TypeOK, KernelType
    <3>2. p \in Slots /\ InSeq(p, ready)
      BY <3>1 DEF InSeq
    <3> QED BY <2>2, <3>2, QueueFacts DEF IInv
  <2> QED BY <2>1, <2>2
<1>4. \A q \in Slots : state'[q] = IF q = p THEN "RUNNING" ELSE state[q]
  BY <1>1 DEF IInv, TypeOK, TableType
<1>5. OneCpuEach' /\ LockPlace'
  <2>1. \A d \in CPUs : cpu[d] # p
    BY <1>3 DEF IInv, OneCpuEach, Running
  <2>2. \A d \in CPUs : cpu'[d] = IF d = c THEN p ELSE cpu[d]
    BY <1>1 DEF IInv, TypeOK, KernelType
  <2>3. \A q \in Slots : Running(q)' <=> Running(q) \/ q = p
    BY <1>2, <2>2, NoClash DEF Running
  <2>4. \A q \in Slots : state'[q] = "RUNNING" <=> Running(q)'
    BY <1>4, <2>3 DEF IInv, OneCpuEach
  <2>5. \A d, e \in CPUs : cpu'[d] = cpu'[e] /\ cpu'[d] # NoProc => d = e
    BY <2>1, <2>2 DEF IInv, OneCpuEach
  <2>6. OneCpuEach'
    BY <2>4, <2>5 DEF OneCpuEach
  <2>7. LockPlace'
    BY <1>1, <1>3, <2>3, NoClash DEF LockPlace
  <2> QED BY <2>6, <2>7
<1>6. QueueExact'
  <2>1. Scans' <=> Scans
    BY <1>2 DEF Scans
  <2>2. CASE Scans
    BY <2>1, <2>2, <1>2, QueueFacts, QueueFactsNext DEF Rest, IInv
  <2>3. CASE ~Scans
    <3>1. 1 \in DOMAIN ready /\ p = ready[1] /\ ready \in Seq(Slots) /\ ready' = Tail(ready)
      BY <2>3, <1>2 DEF NextUp, Rest, IInv, TypeOK, KernelType
    <3>2. ready # <<>> /\ NoRepeat(ready)
      BY <3>1, QueueFacts DEF IInv
    <3>3. NoRepeat(ready') /\ \A q \in Slots : InSeq(q, ready') <=> InSeq(q, ready) /\ q # p
      BY <3>1, <3>2, TailFacts
    <3>4. \A q \in Slots : state[q] = "RUNNABLE" <=> InSeq(q, ready)
      BY <2>3, QueueFacts DEF IInv
    <3> QED BY <3>3, <3>4, <1>4, QueueFactsNext
  <2> QED BY <2>2, <2>3
<1>7. TableInv'
  <2>1. \A q \in Slots : \/ state'[q] = state[q]
                         \/ Live(q) /\ state'[q] \in {"RUNNABLE", "RUNNING"}
    BY <1>3, <1>4 DEF Live
  <2>2. ~killed'[InitProc] /\ pc'[InitProc] # "exiting"
    BY <1>2 DEF IInv, InitStays
  <2> QED BY <1>2, <2>1, <2>2, LivingOn
<1> QED BY <1>5, <1>6, <1>7, Parts

(* Steps of a process that stays on its CPU and changes only itself.           *)
LEMMA OwnStepKeeps ==
  ASSUME IInv, TypeOK', NEW p \in Slots, p # InitProc \/ ~ExitCall(p),
         \/ Resume(p) \/ SleepReturn(p) \/ ExitCall(p) \/ NapTest(p) \/ NapReturn(p)
         \/ Wait(p) /\ GiveUp(p)
  PROVE  IInv'
<1>1. Running(p)
  BY DEF IInv, LockPlace, Resume, SleepReturn, ExitCall, NapTest, NapReturn, Wait, Executing
<1>2. state[p] = "RUNNING"
  BY <1>1, RunningState DEF IInv
<1>3. /\ UNCHANGED <<state, pid, parent, killed, np, ready, cpu, variant, creator>>
      /\ lock' \in {lock, NoProc}
      /\ \A q \in Slots \ {p} : chan'[q] = chan[q] /\ pc'[q] = pc[q]
  BY DEF IInv, TypeOK, TableType, KernelType, procVars, cpuVars, Go,
         Resume, SleepReturn, ExitCall, NapTest, NapReturn, Wait, GiveUp
<1>4. pc'[p] = pc[p] \/ pc'[p] \in InKernelOrUser \ {"forking", "forked"}
  BY DEF IInv, TypeOK, KernelType, Go, AfterTrap, InKernelOrUser,
         Resume, SleepReturn, ExitCall, NapTest, NapReturn, Wait, GiveUp
<1>5. pc'[InitProc] # "exiting"
  <2>1. pc[InitProc] # "exiting" /\ ~killed[InitProc]
    BY DEF IInv, InitStays
  <2>2. CASE p = InitProc
    BY <2>1, <2>2 DEF IInv, TypeOK, KernelType, Go, AfterTrap,
         Resume, SleepReturn, NapTest, NapReturn, Wait, GiveUp
  <2>3. CASE p # InitProc
    BY <2>1, <2>3, <1>3, NoClash
  <2> QED BY <2>2, <2>3
<1>6. OneCpuEach' /\ LockPlace'
  BY <1>3, StayPlaced
<1>7. QueueExact'
  BY <1>3, QueueStays DEF IInv
<1>8. TableInv'
  <2>1. ~killed'[InitProc]
    BY <1>3 DEF IInv, InitStays
  <2>2. \A q \in Slots : state'[q] = "SLEEPING" => chan'[q] = chan[q]
    BY <1>2, <1>3
  <2> QED BY <1>2, <1>3, <1>4, <1>5, <2>1, <2>2, LivingOn
<1> QED BY <1>6, <1>7, <1>8, Parts

LEMMA YieldKeeps ==
  ASSUME IInv, TypeOK', NEW p \in Slots, Yield(p)
  PROVE  IInv'
<1>1. /\ Running(p) /\ ready' = Put(<<p>>) /\ ToScheduler(CpuOf(p))
      /\ UNCHANGED <<pid, parent, chan, killed, pc, np, variant, creator>>
  BY DEF Yield, Executing
<1>2. state[p] = "RUNNING"
  BY <1>1, RunningState DEF IInv
<1>3. \A q \in Slots : state'[q] = IF q = p THEN "RUNNABLE" ELSE state[q]
  BY DEF Yield, Become
<1>4. OneCpuEach' /\ LockPlace'
  BY <1>1, <1>3, LeavePlaced
<1>5. QueueExact'
  BY <1>1, <1>2, <1>3, OneQueued, Enqueued DEF IInv
<1>6. TableInv'
  <2>1. ~killed'[InitProc] /\ pc'[InitProc] # "exiting"
    BY <1>1 DEF IInv, InitStays
  <2>2. Live(p)
    BY <1>2 DEF Live
  <2> QED BY <1>1, <1>3, <2>1, <2>2, LivingOn
<1> QED BY <1>4, <1>5, <1>6, Parts

(* Steps that wake sleepers and may mark them killed.                          *)
LEMMA WakingKeeps ==
  ASSUME IInv, TypeOK', NEW W \in SUBSET Slots, \A q \in W : state[q] = "SLEEPING",
         Become(NoProc, "RUNNABLE", W), \E s \in Orders(W) : ready' = Put(s),
         UNCHANGED <<pid, parent, chan, pc, np, cpu, variant, creator>>,
         lock' \in {lock, NoProc, Lost}, ~killed'[InitProc],
         \A q \in Slots : killed'[q] /\ ~killed[q] /\ state[q] = "SLEEPING" => q \in W
  PROVE  IInv'
<1>1. \A q \in Slots : state'[q] = IF q \in W THEN "RUNNABLE" ELSE state[q]
  BY NoClash DEF Become
<1>2. OneCpuEach' /\ LockPlace'
  BY <1>1, StayPlaced
<1>3. QueueExact'
  BY WokenQueued DEF IInv
<1>4. TableInv'
  <2>1. pc'[InitProc] # "exiting"
    BY DEF IInv, InitStays
  <2>2. \A q \in W : Live(q)
    BY DEF Live
  <2>3. \A q \in Slots : state'[q] = "SLEEPING" => (killed'[q] => killed[q])
    BY <1>1 DEF IInv, TypeOK, TableType
  <2> QED BY <1>1, <2>1, <2>2, <2>3, LivingOn
<1> QED BY <1>2, <1>3, <1>4, Parts

LEMMA TickKeeps ==
  ASSUME IInv, TypeOK', Tick
  PROVE  IInv'
<1> DEFINE W == Asleep(Ticks)
<1>1. W \in SUBSET Slots /\ \A q \in W : state[q] = "SLEEPING"
  BY DEF Asleep
<1>2. \E s \in Orders(W) : ready' = Put(s)
  BY <1>1, TableOrder DEF Tick
<1>3. /\ Become(NoProc, "RUNNABLE", W)
      /\ UNCHANGED <<pid, parent, chan, killed, pc, np, cpu, variant, creator, lock>>
  BY DEF Tick
<1>4. ~killed'[InitProc]
  BY <1>3 DEF IInv, InitStays
<1> QED BY <1>1, <1>2, <1>3, <1>4, WakingKeeps

LEMMA KillKeeps ==
  ASSUME IInv, TypeOK', NEW p \in Slots, NEW k \in Nat, k # 1, Kill(p, k)
  PROVE  IInv'
<1>1. PICK q \in First({r \in Slots : pid[r] = k}) :
        /\ killed' = [killed EXCEPT ![q] = TRUE]
        /\ Become(NoProc, "RUNNABLE", WokenByKill(q))
        /\ \E s \in InTableOrder(WokenByKill(q)) : ready' = Put(s)
        /\ lock' = IF variant.killReleases \/ state[q] = "SLEEPING" THEN NoProc ELSE Lost
  BY DEF Kill
<1>2. q \in Slots /\ pid[q] = k
  BY DEF First
<1>3. /\ WokenByKill(q) \in SUBSET Slots /\ \A r \in WokenByKill(q) : state[r] = "SLEEPING"
      /\ state[q] = "SLEEPING" => q \in WokenByKill(q)
  BY <1>2 DEF WokenByKill
<1>4. \E s \in Orders(WokenByKill(q)) : ready' = Put(s)
  BY <1>1, <1>3, TableOrder
<1>5. UNCHANGED <<pid, parent, chan, pc, np, cpu, variant, creator>>
  BY DEF Kill
<1>6. ~killed'[InitProc]
  <2>1. q # InitProc
    BY <1>2 DEF IInv, InitStays
  <2> QED BY <2>1, <1>1, NoClash DEF IInv, TypeOK, TableType, InitStays
<1>7. \A r \in Slots : killed'[r] /\ ~killed[r] /\ state[r] = "SLEEPING" => r \in WokenByKill(q)
  BY <1>1, <1>3 DEF IInv, TypeOK, TableType
<1>8. lock' \in {lock, NoProc, Lost}
  BY <1>1
<1> QED BY <1>1, <1>3, <1>4, <1>5, <1>6, <1>7, <1>8, WakingKeeps

LEMMA KillJobsKeeps ==
  ASSUME IInv, TypeOK', KillJobs
  PROVE  IInv'
<1>1. PICK S \in SUBSET MayBeShells :
        LET j == Below({q \in Slots : state[q] # "UNUSED" /\ parent[q] \in S \cup Shells})
            a == {q \in j : state[q] = "SLEEPING"}
        IN /\ killed' = [q \in Slots |-> killed[q] \/ q \in j]
           /\ Become(NoProc, "RUNNABLE", a)
           /\ \E s \in Orders(a) : ready' = Put(s)
  BY DEF KillJobs
<1> DEFINE j == Below({q \in Slots : state[q] # "UNUSED" /\ parent[q] \in S \cup Shells})
           a == {q \in j : state[q] = "SLEEPING"}
<1>2. S \cup Shells \in SUBSET Slots
  BY DEF MayBeShells, Shells
<1>3. InitProc \notin j
  BY <1>2, InitNoJob
<1>4. /\ killed' = [q \in Slots |-> killed[q] \/ q \in j]
      /\ Become(NoProc, "RUNNABLE", a)
      /\ \E s \in Orders(a) : ready' = Put(s)
  BY <1>1
<1>5. j \subseteq Slots
  BY DEF Below
<1> HIDE DEF j
<1>6. a \in SUBSET Slots /\ \A q \in a : state[q] = "SLEEPING"
  BY <1>5
<1>7. ~killed'[InitProc]
  BY <1>3, <1>4, NoClash DEF IInv, InitStays
<1>8. \A q \in Slots : killed'[q] /\ ~killed[q] /\ state[q] = "SLEEPING" => q \in a
  BY <1>4
<1>9. UNCHANGED <<pid, parent, chan, pc, np, cpu, variant, creator, lock>>
  BY DEF KillJobs, cpuVars
<1> QED BY <1>4, <1>6, <1>7, <1>8, <1>9, WakingKeeps

-----------------------------------------------------------------------------
(* Steps in which a process begins or ends, or goes to sleep. When any process *)
(* runs, init is past its own beginning.                                       *)
LEMMA InitLives ==
  ASSUME IInv, NEW p \in Slots, state[p] = "RUNNING"
  PROVE  Live(InitProc)
<1>1. state[InitProc] # "EMBRYO"
  BY DEF IInv, InitStays
<1>2. state[InitProc] \in States
  BY NoClash DEF IInv, TypeOK, TableType
<1> QED BY <1>1, <1>2 DEF IInv, InitStays, Live, States

LEMMA EmbryosNext ==
  Embryos' <=>
    \A p \in Slots : InFork(p)' =>
      /\ np'[p] \in Slots \ {InitProc}
      /\ state'[np'[p]] = "EMBRYO" /\ creator'[np'[p]] = pid'[p]
      /\ parent'[np'[p]] = IF pc'[p] = "forking" THEN NoProc ELSE p
      /\ \A q \in Slots : InFork(q)' /\ np'[q] = np'[p] => q = p
  BY DEF Embryos

(* What fork() has of a child stays as it is when other slots change.          *)
LEMMA ForksUndisturbed ==
  ASSUME Embryos, NEW p \in Slots, InFork(p),
         np'[p] = np[p], pc'[p] = pc[p], pid'[p] = pid[p],
         state'[np[p]] = state[np[p]], creator'[np[p]] = creator[np[p]], parent'[np[p]] = parent[np[p]]
  PROVE  /\ np'[p] \in Slots \ {InitProc}
         /\ state'[np'[p]] = "EMBRYO" /\ creator'[np'[p]] = pid'[p]
         /\ parent'[np'[p]] = IF pc'[p] = "forking" THEN NoProc ELSE p
  BY DEF Embryos

LEMMA UserInitKeeps ==
  ASSUME IInv, TypeOK', UserInit
  PROVE  IInv'
<1>1. /\ state[InitProc] = "EMBRYO" /\ ready' = Put(<<InitProc>>)
      /\ UNCHANGED <<lock, pid, parent, chan, killed, pc, np, cpu, variant, creator>>
      /\ \A q \in Slots : state'[q] = IF q = InitProc THEN "RUNNABLE" ELSE state[q]
  BY DEF UserInit, IInv, TypeOK, TableType
<1>2. InitProc \in Slots /\ \A q \in Slots \ {InitProc} : state'[q] = "UNUSED"
  BY <1>1, NoClash DEF IInv, InitStays
<1>3. OneCpuEach' /\ LockPlace'
  BY <1>1, StayPlaced
<1>4. QueueExact'
  BY <1>1, <1>2, OneQueued, Enqueued DEF IInv
<1>5. \A q \in Slots : ~InFork(q)'
  BY <1>1, <1>2 DEF IInv, Stages, InFork, InKernelOrUser
<1>6. Stages'
  BY <1>1 DEF IInv, Stages, InitStays, InKernelOrUser
<1>7. Embryos' /\ InitStays' /\ Parents'
  BY <1>1, <1>2, <1>5, EmbryosNext DEF IInv, InitStays, Parents
<1>8. Waiters' /\ Family'
  BY <1>1, <1>2 DEF Waiters, Family, Live
<1> QED BY <1>3, <1>4, <1>6, <1>7, <1>8, Parts DEF TableInv

LEMMA ForkKeeps ==
  ASSUME IInv, TypeOK', NEW p \in Slots, Fork(p)
  PROVE  IInv'
<1>1. PICK n \in FreeSlot({r \in Slots : state[r] = "UNUSED"}) :
        /\ state' = [state EXCEPT ![n] = "EMBRYO"]
        /\ pid' = [pid EXCEPT ![n] = nextpid]
        /\ np' = [np EXCEPT ![p] = n]
        /\ pc' = [pc EXCEPT ![p] = "forking", ![n] = "fresh"]
        /\ creator' = [creator EXCEPT ![n] = pid[p]]
  BY DEF Fork
<1>2. /\ UNCHANGED <<lock, parent, chan, killed, ready, cpu, variant>>
      /\ Running(p)
  BY DEF Fork, Executing, cpuVars
<1>3. n \in Slots /\ state[n] = "UNUSED" /\ state[p] = "RUNNING"
  BY <1>2, RunningState DEF FreeSlot, First, IInv
<1>4. n # p /\ n # InitProc
  BY <1>3 DEF IInv, InitStays
<1>5. /\ \A q \in Slots : state'[q] = IF q = n THEN "EMBRYO" ELSE state[q]
      /\ \A q \in Slots : pid'[q] = IF q = n THEN nextpid ELSE pid[q]
      /\ \A q \in Slots : np'[q] = IF q = p THEN n ELSE np[q]
      /\ \A q \in Slots : pc'[q] = IF q = p THEN "forking" ELSE IF q = n THEN "fresh" ELSE pc[q]
      /\ \A q \in Slots : creator'[q] = IF q = n THEN pid[p] ELSE creator[q]
  BY <1>1, <1>4 DEF IInv, TypeOK, TableType, KernelType
<1> HIDE <1>1
<1>6. OneCpuEach' /\ LockPlace'
  BY <1>2, <1>3, <1>5, StayPlaced
<1>7. QueueExact'
  BY <1>2, <1>3, <1>5, QueueStays DEF IInv
<1>8. Stages'
  BY <1>3, <1>4, <1>5 DEF IInv, Stages, InKernelOrUser
<1>9. Embryos'
  <2>1. ASSUME NEW r \in Slots, r # p, InFork(r)'
        PROVE  /\ InFork(r) /\ np[r] # n /\ r # n
               /\ np'[r] = np[r] /\ pc'[r] = pc[r] /\ pid'[r] = pid[r] /\ np[r] \in Slots
    <3>1. r # n /\ InFork(r)
      BY <2>1, <1>5 DEF InFork
    <3> QED BY <2>1, <3>1, <1>3, <1>5 DEF IInv, Embryos
  <2>2. ASSUME NEW r \in Slots, r # p, InFork(r)'
        PROVE  /\ np'[r] \in Slots \ {InitProc}
               /\ state'[np'[r]] = "EMBRYO" /\ creator'[np'[r]] = pid'[r]
               /\ parent'[np'[r]] = IF pc'[r] = "forking" THEN NoProc ELSE r
    BY <2>1, <2>2, <1>2, <1>5, ForksUndisturbed DEF IInv
  <2>3. /\ np'[p] = n /\ pc'[p] = "forking" /\ state'[n] = "EMBRYO"
        /\ creator'[n] = pid'[p] /\ parent'[n] = NoProc
    BY <1>2, <1>3, <1>4, <1>5 DEF IInv, Parents
  <2>4. ASSUME NEW r \in Slots, NEW q \in Slots, InFork(r)', InFork(q)', np'[q] = np'[r]
        PROVE  q = r
    BY <2>1, <2>3, <2>4 DEF IInv, Embryos
  <2> QED BY <1>3, <1>4, <2>2, <2>3, <2>4, EmbryosNext
<1>10. InitStays'
  BY <1>2, <1>3, <1>4, <1>5, InitLives, NoClash DEF IInv, InitStays, Live
<1>11. Parents'
  BY <1>2, <1>5 DEF IInv, Parents
<1>12. Waiters'
  <2> SUFFICES ASSUME NEW r \in Slots, state'[r] = "SLEEPING", pc'[r] = "waiting"
               PROVE  /\ chan'[r] = r /\ ~killed'[r] /\ Kids(r)' # {}
                      /\ \A q \in Kids(r)' : state'[q] # "ZOMBIE"
    BY DEF Waiters
  <2>1. state[r] = "SLEEPING" /\ pc[r] = "waiting" /\ Kids(r)' = Kids(r)
    BY <1>2, <1>3, <1>5 DEF Kids
  <2> QED BY <2>1, <1>2, <1>5 DEF IInv, Waiters, Kids
<1>13. Family'
  <2> SUFFICES ASSUME NEW r \in Slots, Live(r)' \/ state'[r] = "ZOMBIE", r # InitProc
               PROVE  /\ parent'[r] # NoProc /\ Live(parent[r])'
                      /\ parent'[r] = InitProc \/ pid'[parent'[r]] = creator'[r]
    BY DEF Family
  <2>1. r # n /\ (Live(r) \/ state[r] = "ZOMBIE")
    BY <1>5 DEF Live
  <2>2. /\ parent[r] # NoProc /\ Live(parent[r])
        /\ parent[r] = InitProc \/ pid[parent[r]] = creator[r]
    BY <2>1 DEF IInv, Family
  <2>3. parent[r] \in Slots /\ parent[r] # n
    BY <2>2, <1>3 DEF IInv, TypeOK, TableType, Live
  <2> QED BY <2>1, <2>2, <2>3, <1>2, <1>5 DEF Live
<1> QED BY <1>6, <1>7, <1>8, <1>9, <1>10, <1>11, <1>12, <1>13, Parts DEF TableInv

LEMMA ForkFailKeeps ==
  ASSUME IInv, TypeOK', NEW p \in Slots, ForkFail(p)
  PROVE  IInv'
<1> DEFINE n == np[p]
<1>1. /\ UNCHANGED <<lock, pid, parent, chan, killed, ready, cpu, variant>>
      /\ Running(p) /\ InFork(p) /\ pc[p] = "forking"
  BY DEF ForkFail, Executing, cpuVars, InFork
<1>2. /\ n \in Slots \ {InitProc} /\ state[n] = "EMBRYO" /\ state[p] = "RUNNING"
      /\ parent[n] = NoProc
  BY <1>1, RunningState DEF IInv, Embryos
<1>3. n # p
  BY <1>2
<1>4. /\ \A q \in Slots : state'[q] = IF q = n THEN "UNUSED" ELSE state[q]
      /\ \A q \in Slots : np'[q] = IF q = p THEN NoProc ELSE np[q]
      /\ \A q \in Slots : pc'[q] = IF q = n THEN "none" ELSE IF q = p THEN AfterTrap(p) ELSE pc[q]
      /\ \A q \in Slots : creator'[q] = IF q = n THEN 0 ELSE creator[q]
  BY <1>2 DEF ForkFail, IInv, TypeOK, TableType, KernelType
<1>5. \A q \in Slots : InFork(q) /\ np[q] = n => q = p
  BY <1>1 DEF IInv, Embryos
<1> HIDE DEF n
<1>6. AfterTrap(p) \in {"user", "exiting"}
  BY DEF AfterTrap
<1>7. OneCpuEach' /\ LockPlace'
  BY <1>1, <1>2, <1>4, StayPlaced
<1>8. QueueExact'
  BY <1>1, <1>2, <1>4, QueueStays DEF IInv
<1>9. Stages'
  BY <1>2, <1>3, <1>4, <1>6 DEF IInv, Stages, InKernelOrUser
<1>10. Embryos'
  <2>1. ASSUME NEW r \in Slots, InFork(r)'
        PROVE  /\ InFork(r) /\ r # p /\ r # n /\ np[r] \in Slots
               /\ np'[r] = np[r] /\ pc'[r] = pc[r] /\ pid'[r] = pid[r] /\ np[r] # n
    <3>1. r # p /\ r # n /\ InFork(r)
      BY <2>1, <1>4, <1>6, <1>3 DEF InFork
    <3> QED BY <3>1, <1>1, <1>4, <1>5 DEF IInv, Embryos
  <2>2. ASSUME NEW r \in Slots, InFork(r)'
        PROVE  /\ np'[r] \in Slots \ {InitProc}
               /\ state'[np'[r]] = "EMBRYO" /\ creator'[np'[r]] = pid'[r]
               /\ parent'[np'[r]] = IF pc'[r] = "forking" THEN NoProc ELSE r
    BY <2>1, <2>2, <1>1, <1>4, ForksUndisturbed DEF IInv
  <2>3. ASSUME NEW r \in Slots, NEW q \in Slots, InFork(r)', InFork(q)', np'[q] = np'[r]
        PROVE  q = r
    BY <2>1, <2>3 DEF IInv, Embryos
  <2> QED BY <2>2, <2>3, EmbryosNext
<1>11. InitStays'
  <2>1. /\ InitProc \in Slots /\ InitProc # n /\ ~killed[InitProc]
        /\ pc[InitProc] \notin {"exiting", "none"}
    BY <1>2, NoClash DEF IInv, InitStays
  <2>2. pc'[InitProc] \notin {"exiting", "none"}
    BY <2>1, <1>4 DEF AfterTrap
  <2> QED BY <1>1, <1>2, <1>4, <2>1, <2>2, InitLives DEF IInv, InitStays, Live
<1>12. Parents'
  BY <1>1, <1>2, <1>4 DEF IInv, Parents
<1>13. Waiters'
  <2> SUFFICES ASSUME NEW r \in Slots, state'[r] = "SLEEPING", pc'[r] = "waiting"
               PROVE  /\ chan'[r] = r /\ ~killed'[r] /\ Kids(r)' # {}
                      /\ \A q \in Kids(r)' : state'[q] # "ZOMBIE"
    BY DEF Waiters
  <2>1. state[r] = "SLEEPING" /\ pc[r] = "waiting" /\ Kids(r)' = Kids(r)
    BY <1>1, <1>3, <1>4, <1>6 DEF Kids
  <2> QED BY <2>1, <1>1, <1>4 DEF IInv, Waiters, Kids
<1>14. Family'
  <2> SUFFICES ASSUME NEW r \in Slots, Live(r)' \/ state'[r] = "ZOMBIE", r # InitProc
               PROVE  /\ parent'[r] # NoProc /\ Live(parent[r])'
                      /\ parent'[r] = InitProc \/ pid'[parent'[r]] = creator'[r]
    BY DEF Family
  <2>1. r # n /\ (Live(r) \/ state[r] = "ZOMBIE")
    BY <1>4 DEF Live
  <2>2. /\ parent[r] # NoProc /\ Live(parent[r])
        /\ parent[r] = InitProc \/ pid[parent[r]] = creator[r]
    BY <2>1 DEF IInv, Family
  <2>3. parent[r] \in Slots /\ parent[r] # n
    BY <2>2, <1>2 DEF IInv, TypeOK, TableType, Live
  <2> QED BY <2>1, <2>2, <2>3, <1>1, <1>4 DEF Live
<1> QED BY <1>7, <1>8, <1>9, <1>10, <1>11, <1>12, <1>13, <1>14, Parts DEF TableInv

LEMMA ForkCopyKeeps ==
  ASSUME IInv, TypeOK', NEW p \in Slots, ForkCopy(p)
  PROVE  IInv'
<1> DEFINE n == np[p]
<1>1. /\ UNCHANGED <<lock, state, pid, chan, killed, np, ready, cpu, variant, creator>>
      /\ Running(p) /\ InFork(p) /\ pc[p] = "forking"
  BY DEF ForkCopy, Executing, cpuVars, InFork
<1>2. /\ n \in Slots \ {InitProc} /\ state[n] = "EMBRYO" /\ state[p] = "RUNNING"
      /\ parent[n] = NoProc /\ creator[n] = pid[p]
      /\ \A q \in Slots : InFork(q) /\ np[q] = n => q = p
  BY <1>1, RunningState DEF IInv, Embryos
<1>3. n # p
  BY <1>2
<1>4. /\ \A q \in Slots : parent'[q] = IF q = n THEN p ELSE parent[q]
      /\ \A q \in Slots : pc'[q] = IF q = p THEN "forked" ELSE pc[q]
  BY <1>2 DEF ForkCopy, Go, ParentFor, IInv, TypeOK, TableType, KernelType
<1>5. np[p] = n
  OBVIOUS
<1> HIDE DEF n
<1>6. OneCpuEach' /\ LockPlace'
  BY <1>1, StayPlaced
<1>7. QueueExact'
  BY <1>1, QueueStays DEF IInv
<1>8. Stages'
  BY <1>1, <1>2, <1>4 DEF IInv, Stages, InKernelOrUser
<1>9. Embryos'
  <2>1. \A r \in Slots : InFork(r)' => InFork(r)
    BY <1>1, <1>4 DEF InFork
  <2>2. ASSUME NEW r \in Slots, r # p, InFork(r)'
        PROVE  /\ np'[r] \in Slots \ {InitProc}
               /\ state'[np'[r]] = "EMBRYO" /\ creator'[np'[r]] = pid'[r]
               /\ parent'[np'[r]] = IF pc'[r] = "forking" THEN NoProc ELSE r
    <3>1. InFork(r) /\ np[r] # n /\ np[r] \in Slots
      BY <2>1, <2>2, <1>2 DEF IInv, Embryos
    <3> QED BY <2>2, <3>1, <1>1, <1>4, ForksUndisturbed DEF IInv
  <2>3. /\ np'[p] = n /\ pc'[p] = "forked" /\ state'[n] = "EMBRYO"
        /\ creator'[n] = pid'[p] /\ parent'[n] = p
    BY <1>1, <1>2, <1>4, <1>5
  <2>4. ASSUME NEW r \in Slots, NEW q \in Slots, InFork(r)', InFork(q)', np'[q] = np'[r]
        PROVE  q = r
    BY <2>1, <2>4, <1>1 DEF IInv, Embryos
  <2> QED BY <1>2, <2>2, <2>3, <2>4, EmbryosNext
<1>10. InitStays'
  BY <1>1, <1>2, <1>4, NoClash DEF IInv, InitStays
<1>11. Parents'
  BY <1>1, <1>2, <1>3, <1>4 DEF IInv, Parents
<1>12. Waiters'
  <2> SUFFICES ASSUME NEW r \in Slots, state'[r] = "SLEEPING", pc'[r] = "waiting"
               PROVE  /\ chan'[r] = r /\ ~killed'[r] /\ Kids(r)' # {}
                      /\ \A q \in Kids(r)' : state'[q] # "ZOMBIE"
    BY DEF Waiters
  <2>1. state[r] = "SLEEPING" /\ pc[r] = "waiting" /\ r # p
    BY <1>1, <1>2, <1>4
  <2>2. Kids(r)' = Kids(r)
    BY <2>1, <1>2, <1>4, NoClash DEF Kids
  <2> QED BY <2>1, <2>2, <1>1 DEF IInv, Waiters, Kids
<1>13. Family'
  <2> SUFFICES ASSUME NEW r \in Slots, Live(r)' \/ state'[r] = "ZOMBIE", r # InitProc
               PROVE  /\ parent'[r] # NoProc /\ Live(parent[r])'
                      /\ parent'[r] = InitProc \/ pid'[parent'[r]] = creator'[r]
    BY DEF Family
  <2>1. r # n /\ (Live(r) \/ state[r] = "ZOMBIE")
    BY <1>1, <1>2 DEF Live
  <2> QED BY <2>1, <1>1, <1>4 DEF IInv, Family, Live
<1> QED BY <1>6, <1>7, <1>8, <1>9, <1>10, <1>11, <1>12, <1>13, Parts DEF TableInv

LEMMA ForkDoneKeeps ==
  ASSUME IInv, TypeOK', NEW p \in Slots, ForkDone(p)
  PROVE  IInv'
<1> DEFINE n == np[p]
<1>1. /\ UNCHANGED <<lock, pid, parent, chan, killed, cpu, variant, creator>>
      /\ Running(p) /\ InFork(p) /\ pc[p] = "forked" /\ ready' = Put(<<n>>)
  BY DEF ForkDone, Executing, cpuVars, InFork
<1>2. /\ n \in Slots \ {InitProc} /\ state[n] = "EMBRYO" /\ state[p] = "RUNNING"
      /\ parent[n] = p /\ creator[n] = pid[p]
      /\ \A q \in Slots : InFork(q) /\ np[q] = n => q = p
  BY <1>1, RunningState DEF IInv, Embryos
<1>3. n # p /\ Live(p)
  BY <1>2 DEF Live
<1>4. /\ \A q \in Slots : state'[q] = IF q = n THEN "RUNNABLE" ELSE state[q]
      /\ \A q \in Slots : np'[q] = IF q = p THEN NoProc ELSE np[q]
      /\ \A q \in Slots : pc'[q] = IF q = p THEN AfterTrap(p) ELSE pc[q]
  BY <1>2 DEF ForkDone, Go, IInv, TypeOK, TableType, KernelType
<1> HIDE DEF n
<1>5. AfterTrap(p) \in {"user", "exiting"}
  BY DEF AfterTrap
<1>6. OneCpuEach' /\ LockPlace'
  BY <1>1, <1>2, <1>4, StayPlaced
<1>7. QueueExact'
  <2>1. <<n>> \in Seq(Slots) /\ NoRepeat(<<n>>) /\ \A q \in Slots : InSeq(q, <<n>>) <=> q \in {n}
    BY <1>2, OneQueued
  <2>2. /\ \A q \in Slots : q \in {n} => state[q] # "RUNNABLE"
        /\ \A q \in Slots : state'[q] = "RUNNABLE" <=> state[q] = "RUNNABLE" \/ q \in {n}
    BY <1>2, <1>4
  <2>3. TypeOK /\ QueueExact
    BY DEF IInv
  <2> QED BY <1>1, <2>1, <2>2, <2>3, Enqueued
<1>8. pc[n] = "fresh"
  BY <1>2, NoClash DEF IInv, Stages, InKernelOrUser, TypeOK, KernelType, PCs
<1>9. Stages'
  BY <1>2, <1>3, <1>4, <1>5, <1>8 DEF IInv, Stages, InKernelOrUser
<1>10. Embryos'
  <2>1. ASSUME NEW r \in Slots, InFork(r)'
        PROVE  /\ InFork(r) /\ r # p /\ np[r] \in Slots
               /\ np'[r] = np[r] /\ pc'[r] = pc[r] /\ pid'[r] = pid[r] /\ np[r] # n
    <3>1. r # p /\ InFork(r)
      BY <2>1, <1>4, <1>5 DEF InFork
    <3> QED BY <3>1, <1>1, <1>2, <1>4 DEF IInv, Embryos
  <2>2. ASSUME NEW r \in Slots, InFork(r)'
        PROVE  /\ np'[r] \in Slots \ {InitProc}
               /\ state'[np'[r]] = "EMBRYO" /\ creator'[np'[r]] = pid'[r]
               /\ parent'[np'[r]] = IF pc'[r] = "forking" THEN NoProc ELSE r
    BY <2>1, <2>2, <1>1, <1>4, ForksUndisturbed DEF IInv
  <2>3. ASSUME NEW r \in Slots, NEW q \in Slots, InFork(r)', InFork(q)', np'[q] = np'[r]
        PROVE  q = r
    BY <2>1, <2>3 DEF IInv, Embryos
  <2> QED BY <2>2, <2>3, EmbryosNext
<1>11. InitStays'
  <2>1. /\ InitProc \in Slots /\ InitProc # n /\ ~killed[InitProc]
        /\ pc[InitProc] \notin {"exiting", "none"}
    BY <1>2, NoClash DEF IInv, InitStays
  <2>2. pc'[InitProc] \notin {"exiting", "none"}
    BY <2>1, <1>4 DEF AfterTrap
  <2> QED BY <1>1, <1>2, <1>4, <2>1, <2>2, InitLives DEF IInv, InitStays, Live
<1>12. Parents'
  BY <1>1, <1>2, <1>4 DEF IInv, Parents
<1>13. Waiters'
  <2> SUFFICES ASSUME NEW r \in Slots, state'[r] = "SLEEPING", pc'[r] = "waiting"
               PROVE  /\ chan'[r] = r /\ ~killed'[r] /\ Kids(r)' # {}
                      /\ \A q \in Kids(r)' : state'[q] # "ZOMBIE"
    BY DEF Waiters
  <2>1. state[r] = "SLEEPING" /\ pc[r] = "waiting" /\ Kids(r)' = Kids(r)
    BY <1>1, <1>3, <1>4, <1>5 DEF Kids
  <2> QED BY <2>1, <1>1, <1>4 DEF IInv, Waiters, Kids
<1>14. Family'
  <2> SUFFICES ASSUME NEW r \in Slots, Live(r)' \/ state'[r] = "ZOMBIE", r # InitProc
               PROVE  /\ parent'[r] # NoProc /\ Live(parent[r])'
                      /\ parent'[r] = InitProc \/ pid'[parent'[r]] = creator'[r]
    BY DEF Family
  <2>1. CASE r = n
    BY <2>1, <1>1, <1>2, <1>3, <1>4, NoClash DEF Live
  <2>2. CASE r # n
    <3>1. Live(r) \/ state[r] = "ZOMBIE"
      BY <2>2, <1>4 DEF Live
    <3>2. /\ parent[r] # NoProc /\ Live(parent[r])
          /\ parent[r] = InitProc \/ pid[parent[r]] = creator[r]
      BY <3>1 DEF IInv, Family
    <3>3. parent[r] \in Slots /\ parent[r] # n
      BY <3>2, <1>2 DEF IInv, TypeOK, TableType, Live
    <3> QED BY <3>1, <3>2, <3>3, <1>1, <1>4 DEF Live
  <2> QED BY <2>1, <2>2
<1> QED BY <1>6, <1>7, <1>9, <1>10, <1>11, <1>12, <1>13, <1>14, Parts DEF TableInv

(* A process leaves its CPU as a zombie, or to sleep.                          *)
LEMMA ExitKeeps ==
  ASSUME IInv, TypeOK', NEW p \in Slots, Exit(p)
  PROVE  IInv'
<1> DEFINE first == WokenParent(p)
           second == WokenForOrphans(p) \ first
           W == first \cup second
<1>1. /\ UNCHANGED <<pid, chan, killed, np, variant, creator>>
      /\ Running(p) /\ pc[p] = "exiting" /\ ToScheduler(CpuOf(p))
      /\ parent' = Reparented(p) /\ Become(p, "ZOMBIE", W)
      /\ \E s \in InTableOrder(first), t \in InTableOrder(second) : ready' = Put(s \o t)
  BY DEF Exit, Executing
<1>2. state[p] = "RUNNING" /\ p # InitProc
  BY <1>1, RunningState DEF IInv, InitStays
<1>3. /\ first \in SUBSET Slots /\ second \in SUBSET Slots /\ W \in SUBSET Slots
      /\ \A q \in W : state[q] = "SLEEPING"
      /\ first \cap second = {}
  BY DEF WokenParent, WokenForOrphans, Asleep
<1>4. /\ \A q \in Slots : state[q] = "SLEEPING" /\ chan[q] = parent[p] => q \in W
      /\ (\E k \in Kids(p) : state[k] = "ZOMBIE") =>
           \A q \in Slots : state[q] = "SLEEPING" /\ chan[q] = InitProc => q \in W
  BY DEF WokenParent, WokenForOrphans, Asleep
<1> HIDE DEF first, second, W
<1>5. p \notin W
  BY <1>2, <1>3
<1>6. /\ \A q \in Slots : state'[q] = IF q = p THEN "ZOMBIE" ELSE IF q \in W THEN "RUNNABLE" ELSE state[q]
      /\ \A q \in Slots : parent'[q] = IF parent[q] = p THEN InitProc ELSE parent[q]
      /\ \A q \in Slots : pc'[q] = IF q = p THEN "none" ELSE pc[q]
  <2>1. pc' = [pc EXCEPT ![p] = "none"]
    BY DEF Exit, Go
  <2> QED BY <1>1, <2>1 DEF Become, Reparented, IInv, TypeOK, KernelType
<1>7. OneCpuEach' /\ LockPlace'
  BY <1>1, <1>3, <1>6, LeavePlaced
<1>8. QueueExact'
  <2>1. PICK s \in InTableOrder(first), t \in InTableOrder(second) : ready' = Put(s \o t)
    BY <1>1
  <2>2. /\ s \in Seq(Slots) /\ NoRepeat(s) /\ \A q \in Slots : InSeq(q, s) <=> q \in first
        /\ t \in Seq(Slots) /\ NoRepeat(t) /\ \A q \in Slots : InSeq(q, t) <=> q \in second
    BY <1>3, TableOrder, OrderFacts
  <2>3. \A q \in Slots : ~(InSeq(q, s) /\ InSeq(q, t))
    BY <2>2, <1>3
  <2>4. /\ s \o t \in Seq(Slots) /\ NoRepeat(s \o t)
        /\ \A q \in Slots : InSeq(q, s \o t) <=> InSeq(q, s) \/ InSeq(q, t)
    BY <2>2, <2>3, ConcatFacts
  <2>5. \A q \in Slots : InSeq(q, s \o t) <=> q \in W
    BY <2>2, <2>4 DEF W
  <2>6. /\ \A q \in Slots : q \in W => state[q] # "RUNNABLE"
        /\ \A q \in Slots : state'[q] = "RUNNABLE" <=> state[q] = "RUNNABLE" \/ q \in W
    BY <1>2, <1>3, <1>6
  <2>7. TypeOK /\ QueueExact
    BY DEF IInv
  <2> QED BY <1>1, <2>1, <2>4, <2>5, <2>6, <2>7, Enqueued
<1>9. Stages'
  BY <1>3, <1>6 DEF IInv, Stages, InKernelOrUser
<1>10. Live(InitProc) /\ InitProc # p /\ InitProc \in Slots
  BY <1>2, InitLives, NoClash
<1>11. \A q \in Slots : q # p /\ Live(q) => Live(q)'
  BY <1>6 DEF Live
<1>12. Embryos'
  <2>1. ASSUME NEW r \in Slots, InFork(r)'
        PROVE  /\ InFork(r) /\ r # p /\ np[r] \in Slots /\ np'[r] = np[r] /\ pc'[r] = pc[r]
               /\ state[np[r]] = "EMBRYO" /\ parent[np[r]] # p
    <3>1. r # p /\ InFork(r)
      BY <2>1, <1>6 DEF InFork
    <3> QED BY <3>1, <1>1, <1>6, NoClash DEF IInv, Embryos
  <2>2. ASSUME NEW r \in Slots, InFork(r)'
        PROVE  /\ np'[r] \in Slots \ {InitProc}
               /\ state'[np'[r]] = "EMBRYO" /\ creator'[np'[r]] = pid'[r]
               /\ parent'[np'[r]] = IF pc'[r] = "forking" THEN NoProc ELSE r
    <3>1. np[r] # p /\ np[r] \notin W
      BY <2>1, <2>2, <1>2, <1>3
    <3> QED BY <2>1, <2>2, <3>1, <1>1, <1>6, ForksUndisturbed DEF IInv
  <2>3. ASSUME NEW r \in Slots, NEW q \in Slots, InFork(r)', InFork(q)', np'[q] = np'[r]
        PROVE  q = r
    BY <2>1, <2>3 DEF IInv, Embryos
  <2> QED BY <2>2, <2>3, EmbryosNext
<1>13. InitStays'
  <2>1. Live(InitProc)'
    BY <1>10, <1>11
  <2> QED BY <1>1, <1>2, <1>6, <1>10, <2>1, NoClash DEF IInv, InitStays, Live
<1>14. Parents'
  <2>1. parent[InitProc] # p
    BY NoClash DEF IInv, InitStays
  <2>2. \A q \in Slots : state'[q] = "UNUSED" => state[q] = "UNUSED"
    BY <1>6
  <2> QED BY <1>6, <2>1, <2>2, NoClash DEF IInv, Parents
<1>15. Waiters'
  <2> SUFFICES ASSUME NEW r \in Slots, state'[r] = "SLEEPING", pc'[r] = "waiting"
               PROVE  /\ chan'[r] = r /\ ~killed'[r] /\ Kids(r)' # {}
                      /\ \A q \in Kids(r)' : state'[q] # "ZOMBIE"
    BY DEF Waiters
  <2>1. state[r] = "SLEEPING" /\ pc[r] = "waiting" /\ r # p /\ r \notin W
    BY <1>6
  <2>2. chan[r] = r /\ ~killed[r] /\ Kids(r) # {} /\ \A q \in Kids(r) : state[q] # "ZOMBIE"
    BY <2>1 DEF IInv, Waiters
  <2>3. parent[p] # r
    BY <2>1, <2>2, <1>4
  <2>4. Kids(r) \subseteq Kids(r)'
    BY <2>1, <1>6 DEF Kids
  <2>5. ASSUME NEW q \in Kids(r)' PROVE state'[q] # "ZOMBIE"
    <3>1. q \in Slots /\ parent'[q] = r
      BY <2>5 DEF Kids
    <3>2. CASE parent[q] = r
      BY <3>1, <3>2, <2>2, <2>3, <1>6 DEF Kids
    <3>3. CASE parent[q] = p
      <4>1. r = InitProc /\ q \in Kids(p)
        BY <3>1, <3>3, <1>6 DEF Kids
      <4>2. state[q] # "ZOMBIE"
        BY <4>1, <2>1, <2>2, <1>4
      <4>3. q # p
        BY <3>3, <1>2 DEF IInv, Parents
      <4> QED BY <3>1, <4>2, <4>3, <1>6
    <3> QED BY <3>1, <3>2, <3>3, <1>6
  <2> QED BY <2>1, <2>2, <2>4, <2>5, <1>1
<1>16. Family'
  <2> SUFFICES ASSUME NEW r \in Slots, Live(r)' \/ state'[r] = "ZOMBIE", r # InitProc
               PROVE  /\ parent'[r] # NoProc /\ Live(parent[r])'
                      /\ parent'[r] = InitProc \/ pid'[parent'[r]] = creator'[r]
    BY DEF Family
  <2>1. Live(r) \/ state[r] = "ZOMBIE"
    BY <1>2, <1>3, <1>6 DEF Live
  <2>2. /\ parent[r] \in Slots /\ Live(parent[r])
        /\ parent[r] = InitProc \/ pid[parent[r]] = creator[r]
    BY <2>1 DEF IInv, Family, TypeOK, TableType
  <2>3. CASE parent[r] = p
    <3>1. parent'[r] = InitProc /\ Live(InitProc)'
      BY <2>3, <1>6, <1>10, <1>11
    <3> QED BY <3>1, NoClash DEF Live
  <2>4. CASE parent[r] # p
    <3>1. parent'[r] = parent[r] /\ Live(parent[r])'
      <4>1. state'[parent[r]] = IF parent[r] \in W THEN "RUNNABLE" ELSE state[parent[r]]
        BY <2>2, <2>4, <1>6
      <4> QED BY <2>2, <2>4, <4>1, <1>6 DEF Live
    <3> QED BY <2>2, <3>1, <1>1, NoClash
  <2> QED BY <2>3, <2>4
<1> QED BY <1>7, <1>8, <1>9, <1>12, <1>13, <1>14, <1>15, <1>16, Parts DEF TableInv

LEMMA NapSleepKeeps ==
  ASSUME IInv, TypeOK', NEW p \in Slots, NapSleep(p) \/ (Wait(p) /\ WaitSleep(p))
  PROVE  IInv'
<1>1. /\ UNCHANGED <<pid, parent, killed, np, ready, variant, creator>>
      /\ Running(p) /\ ToScheduler(CpuOf(p)) /\ Become(p, "SLEEPING", {})
  BY DEF NapSleep, Wait, WaitSleep, Executing
<1>2. state[p] = "RUNNING"
  BY <1>1, RunningState DEF IInv
<1>3. \/ pc[p] = "napping" /\ pc'[p] = "napslept"
      \/ /\ pc[p] \in {"user", "waiting"} /\ pc'[p] = "waiting" /\ chan'[p] = p
         /\ ~killed[p] /\ Kids(p) # {} /\ \A q \in Kids(p) : state[q] # "ZOMBIE"
  BY DEF NapSleep, Wait, WaitSleep, NothingToWaitFor, Go, IInv, TypeOK, TableType, KernelType
<1>4. /\ \A q \in Slots : state'[q] = IF q = p THEN "SLEEPING" ELSE state[q]
      /\ \A q \in Slots \ {p} : pc'[q] = pc[q] /\ chan'[q] = chan[q]
  BY <1>1 DEF NapSleep, Wait, WaitSleep, Become, Go, IInv, TypeOK, TableType, KernelType
<1>5. OneCpuEach' /\ LockPlace'
  BY <1>1, <1>4, LeavePlaced
<1>6. QueueExact'
  BY <1>1, <1>2, <1>4, QueueStays DEF IInv
<1>7. Stages'
  BY <1>3, <1>4 DEF IInv, Stages, InKernelOrUser
<1>8. Embryos'
  <2>1. ASSUME NEW r \in Slots, InFork(r)'
        PROVE  InFork(r) /\ pc'[r] = pc[r] /\ np[r] \in Slots /\ state[np[r]] = "EMBRYO"
    <3>1. r # p /\ InFork(r)
      BY <2>1, <1>3, <1>4 DEF InFork
    <3> QED BY <3>1, <1>4 DEF IInv, Embryos
  <2>2. ASSUME NEW r \in Slots, InFork(r)'
        PROVE  /\ np'[r] \in Slots \ {InitProc}
               /\ state'[np'[r]] = "EMBRYO" /\ creator'[np'[r]] = pid'[r]
               /\ parent'[np'[r]] = IF pc'[r] = "forking" THEN NoProc ELSE r
    <3>1. np[r] # p
      BY <2>1, <2>2, <1>2
    <3> QED BY <2>1, <2>2, <3>1, <1>1, <1>4, ForksUndisturbed DEF IInv
  <2>3. ASSUME NEW r \in Slots, NEW q \in Slots, InFork(r)', InFork(q)', np'[q] = np'[r]
        PROVE  q = r
    BY <2>1, <2>3, <1>1 DEF IInv, Embryos
  <2> QED BY <2>2, <2>3, EmbryosNext
<1>9. InitStays'
  BY <1>1, <1>2, <1>3, <1>4, NoClash DEF IInv, InitStays
<1>10. Parents'
  BY <1>1, <1>4 DEF IInv, Parents
<1>11. Waiters'
  <2> SUFFICES ASSUME NEW r \in Slots, state'[r] = "SLEEPING", pc'[r] = "waiting"
               PROVE  /\ chan'[r] = r /\ ~killed'[r] /\ Kids(r)' # {}
                      /\ \A q \in Kids(r)' : state'[q] # "ZOMBIE"
    BY DEF Waiters
  <2>1. Kids(r)' = Kids(r)
    BY <1>1 DEF Kids
  <2>2. chan'[r] = r /\ ~killed[r] /\ Kids(r) # {} /\ \A q \in Kids(r) : state[q] # "ZOMBIE"
    BY <1>3, <1>4 DEF IInv, Waiters
  <2> QED BY <2>1, <2>2, <1>1, <1>4 DEF Kids
<1>12. Family'
  <2>1. \A q \in Slots : Live(q) <=> Live(q)'
    BY <1>2, <1>4 DEF Live
  <2>2. \A q \in Slots : state'[q] = "ZOMBIE" => state[q] = "ZOMBIE"
    BY <1>4
  <2>3. \A q \in Slots : parent[q] # NoProc => parent[q] \in Slots
    BY DEF IInv, TypeOK, TableType
  <2> QED BY <2>1, <2>2, <2>3, <1>1 DEF IInv, Family
<1> QED BY <1>5, <1>6, <1>7, <1>8, <1>9, <1>10, <1>11, <1>12, Parts DEF TableInv

LEMMA ReapKeeps ==
  ASSUME IInv, TypeOK', NEW p \in Slots, Wait(p), Reap(p)
  PROVE  IInv'
<1>1. PICK q \in First({k \in Kids(p) : state[k] = "ZOMBIE"}) :
        /\ state' = [state EXCEPT ![q] = "UNUSED"]
        /\ pid' = [pid EXCEPT ![q] = 0]
        /\ parent' = [parent EXCEPT ![q] = NoProc]
        /\ killed' = [killed EXCEPT ![q] = FALSE]
        /\ creator' = [creator EXCEPT ![q] = 0]
  BY DEF Reap
<1>2. /\ UNCHANGED <<np, ready, cpu, variant>> /\ lock' = NoProc
      /\ Running(p) /\ pc[p] \in {"user", "waiting"}
  BY DEF Wait, Reap, cpuVars
<1>3. q \in Slots /\ parent[q] = p /\ state[q] = "ZOMBIE" /\ state[p] = "RUNNING"
  BY <1>2, RunningState DEF First, Kids, IInv
<1>4. q # p /\ q # InitProc
  BY <1>3 DEF IInv, InitStays
<1>5. /\ \A r \in Slots : state'[r] = IF r = q THEN "UNUSED" ELSE state[r]
      /\ \A r \in Slots : pid'[r] = IF r = q THEN 0 ELSE pid[r]
      /\ \A r \in Slots : parent'[r] = IF r = q THEN NoProc ELSE parent[r]
      /\ \A r \in Slots : killed'[r] = IF r = q THEN FALSE ELSE killed[r]
      /\ \A r \in Slots : creator'[r] = IF r = q THEN 0 ELSE creator[r]
      /\ \A r \in Slots : pc'[r] = IF r = p THEN AfterTrap(p) ELSE pc[r]
      /\ \A r \in Slots \ {p} : chan'[r] = chan[r]
  <2>1. pc' = [pc EXCEPT ![p] = AfterTrap(p)] /\ chan' = [chan EXCEPT ![p] = NoProc]
    BY DEF Reap, Go
  <2> QED BY <1>1, <2>1 DEF IInv, TypeOK, TableType, KernelType
<1> HIDE <1>1
<1>6. AfterTrap(p) \in {"user", "exiting"}
  BY DEF AfterTrap
<1>7. pc[q] = "none"
  BY <1>3 DEF IInv, Stages, InKernelOrUser, TypeOK, KernelType, PCs
<1>8. OneCpuEach' /\ LockPlace'
  BY <1>2, <1>3, <1>5, StayPlaced
<1>9. QueueExact'
  BY <1>2, <1>3, <1>5, QueueStays DEF IInv
<1>10. Stages'
  BY <1>3, <1>4, <1>5, <1>6, <1>7 DEF IInv, Stages, InKernelOrUser
<1>11. Embryos'
  <2>1. ASSUME NEW r \in Slots, InFork(r)'
        PROVE  /\ InFork(r) /\ r # q /\ np[r] \in Slots /\ np'[r] = np[r] /\ pc'[r] = pc[r]
               /\ pid'[r] = pid[r] /\ state[np[r]] = "EMBRYO"
    <3>1. r # p /\ r # q /\ InFork(r)
      BY <2>1, <1>5, <1>6, <1>7, <1>4 DEF InFork
    <3> QED BY <3>1, <1>2, <1>5 DEF IInv, Embryos
  <2>2. ASSUME NEW r \in Slots, InFork(r)'
        PROVE  /\ np'[r] \in Slots \ {InitProc}
               /\ state'[np'[r]] = "EMBRYO" /\ creator'[np'[r]] = pid'[r]
               /\ parent'[np'[r]] = IF pc'[r] = "forking" THEN NoProc ELSE r
    <3>1. np[r] # q
      BY <2>1, <2>2, <1>3
    <3> QED BY <2>1, <2>2, <3>1, <1>5, ForksUndisturbed DEF IInv
  <2>3. ASSUME NEW r \in Slots, NEW s \in Slots, InFork(r)', InFork(s)', np'[s] = np'[r]
        PROVE  s = r
    BY <2>1, <2>3 DEF IInv, Embryos
  <2> QED BY <2>2, <2>3, EmbryosNext
<1>12. InitStays'
  <2>1. /\ InitProc \in Slots /\ ~killed[InitProc]
        /\ pc[InitProc] \notin {"exiting", "none"}
    BY NoClash DEF IInv, InitStays
  <2>2. pc'[InitProc] \notin {"exiting", "none"}
    BY <2>1, <1>5 DEF AfterTrap
  <2> QED BY <1>3, <1>4, <1>5, <2>1, <2>2, InitLives DEF IInv, InitStays, Live
<1>13. Parents'
  BY <1>5, NoClash DEF IInv, Parents
<1>14. Waiters'
  <2> SUFFICES ASSUME NEW r \in Slots, state'[r] = "SLEEPING", pc'[r] = "waiting"
               PROVE  /\ chan'[r] = r /\ ~killed'[r] /\ Kids(r)' # {}
                      /\ \A k \in Kids(r)' : state'[k] # "ZOMBIE"
    BY DEF Waiters
  <2>1. state[r] = "SLEEPING" /\ pc[r] = "waiting" /\ r # p /\ r # q
    BY <1>3, <1>5, <1>6
  <2>2. Kids(r)' = Kids(r)
    BY <2>1, <1>3, <1>5, NoClash DEF Kids
  <2> QED BY <2>1, <2>2, <1>5 DEF IInv, Waiters, Kids
<1>15. Family'
  <2> SUFFICES ASSUME NEW r \in Slots, Live(r)' \/ state'[r] = "ZOMBIE", r # InitProc
               PROVE  /\ parent'[r] # NoProc /\ Live(parent[r])'
                      /\ parent'[r] = InitProc \/ pid'[parent'[r]] = creator'[r]
    BY DEF Family
  <2>1. r # q /\ (Live(r) \/ state[r] = "ZOMBIE")
    BY <1>5 DEF Live
  <2>2. /\ parent[r] # NoProc /\ Live(parent[r])
        /\ parent[r] = InitProc \/ pid[parent[r]] = creator[r]
    BY <2>1 DEF IInv, Family
  <2>3. parent[r] \in Slots /\ parent[r] # q
    BY <2>2, <1>3 DEF IInv, TypeOK, TableType, Live
  <2> QED BY <2>1, <2>2, <2>3, <1>5 DEF Live
<1> QED BY <1>8, <1>9, <1>10, <1>11, <1>12, <1>13, <1>14, <1>15, Parts DEF TableInv

-----------------------------------------------------------------------------
LEMMA InitInv == Init => IInv
<1> SUFFICES ASSUME Init PROVE IInv
  OBVIOUS
<1>1. TypeOK
  BY InitTyped
<1>2. OneCpuEach /\ LockPlace
  BY NoClash DEF Init, OneCpuEach, LockPlace, Running
<1>3. Stages /\ Embryos /\ InitStays /\ Parents
  BY NoClash DEF Init, Stages, Embryos, InFork, InKernelOrUser, InitStays, Parents
<1>4. QueueExact
  <2>1. DOMAIN ready = {}
    BY DEF Init
  <2> QED BY <2>1 DEF Init, QueueExact
<1>5. Waiters /\ Family
  BY NoClash DEF Init, Waiters, Family, Live
<1> QED BY <1>1, <1>2, <1>3, <1>4, <1>5 DEF IInv

(* One step per action, the type first.                                        *)
LEMMA StepInv == IInv /\ [Next]_vars => IInv'
<1> SUFFICES ASSUME IInv, [Next]_vars PROVE IInv'
  OBVIOUS
<1>0. TypeOK /\ Embryos
  BY DEF IInv
<1>1. CASE UNCHANGED vars
  BY <1>1 DEF vars, procVars, cpuVars, IInv, TypeOK, TableType, KernelType, OneCpuEach, LockPlace,
              Running, Stages, Embryos, InFork, InitStays, Parents, QueueExact, Scans, Waiters,
              Kids, Family, Live
<1>2. CASE UserInit
  BY <1>0, <1>2, NoClash, ForkTyped, UserInitKeeps
<1>3. CASE Tick
  BY <1>0, <1>3, NoClash, WakeTyped, TickKeeps
<1>4. CASE KillJobs
  BY <1>0, <1>4, NoClash, WakeTyped, KillJobsKeeps
<1>5. ASSUME NEW c \in CPUs, Dispatch(c)
      PROVE  IInv'
  BY <1>0, <1>5, NoClash, SwitchTyped, DispatchKeeps
<1>6. ASSUME NEW c \in CPUs, Release(c) \/ EmptyRound(c) \/ Halt(c) \/ Interrupt(c)
      PROVE  IInv'
  BY <1>0, <1>6, NoClash, StayTyped, SchedulerKeeps
<1>7. ASSUME NEW p \in Slots, Return(p) \/ Work(p) \/ NapAgain(p) \/ Yield(p) \/ User(p)
      PROVE  IInv'
  <2>1. Running(p)
    BY <1>7 DEF IInv, LockPlace, Return, Work, NapAgain, User, Resume, SleepReturn, Wait, ForkFail,
                ForkCopy, ForkDone, Exit, NapReturn, NapSleep, NapTest, Yield, Fork, ExitCall,
                Kill, Executing
  <2>2. CpuOf(p) \in CPUs
    BY <2>1, CpuOfRunning
  <2>3. CASE Wait(p)
    <3>1. TypeOK'
      BY <1>0, <2>3, WaitTyped
    <3>2. Reap(p) \/ GiveUp(p) \/ WaitSleep(p)
      BY <2>3 DEF Wait
    <3>3. CASE Reap(p)
      BY <2>3, <3>1, <3>3, ReapKeeps
    <3>4. CASE GiveUp(p)
      <4>1. ~ExitCall(p) \/ p # InitProc
        BY <2>3, <3>4, NoClash DEF ExitCall, Executing, Wait, GiveUp, Go, IInv, TypeOK, KernelType,
                          AfterTrap, InitStays
      <4> QED BY <2>3, <3>1, <3>4, <4>1, OwnStepKeeps
    <3>5. CASE WaitSleep(p)
      BY <2>3, <3>1, <3>5, NapSleepKeeps
    <3> QED BY <3>2, <3>3, <3>4, <3>5
  <2>4. CASE Resume(p) \/ SleepReturn(p) \/ NapTest(p) \/ NapReturn(p)
    <3>1. TypeOK'
      BY <1>0, <2>2, <2>4, StayTyped
    <3>2. p # InitProc \/ ~ExitCall(p)
      BY <2>4, NoClash DEF ExitCall, Executing, Resume, SleepReturn, NapTest, NapReturn, Go, IInv,
                  TypeOK, KernelType, AfterTrap, InitStays
    <3> QED BY <2>4, <3>1, <3>2, OwnStepKeeps
  <2>5. CASE p # InitProc /\ ExitCall(p)
    BY <1>0, <2>2, <2>5, StayTyped, OwnStepKeeps
  <2>6. CASE ForkFail(p)
    BY <1>0, <2>2, <2>6, StayTyped, ForkFailKeeps
  <2>7. CASE ForkCopy(p)
    BY <1>0, <2>2, <2>7, StayTyped, ForkCopyKeeps
  <2>8. CASE ForkDone(p)
    BY <1>0, <2>8, ForkTyped, ForkDoneKeeps
  <2>9. CASE Exit(p)
    BY <1>0, <2>2, <2>9, SwitchTyped, ExitKeeps
  <2>10. CASE NapSleep(p)
    BY <1>0, <2>2, <2>10, SwitchTyped, NapSleepKeeps
  <2>11. CASE Yield(p)
    BY <1>0, <2>2, <2>11, SwitchTyped, YieldKeeps
  <2>12. CASE Fork(p)
    BY <1>0, <2>12, ForkTyped, ForkKeeps
  <2>13. ASSUME NEW k \in (0 .. MaxPid) \ {1}, Kill(p, k)
         PROVE  IInv'
    BY <1>0, <2>13, TableAssumption, WakeTyped, KillKeeps
  <2>14. \/ Wait(p) \/ Resume(p) \/ SleepReturn(p) \/ NapTest(p) \/ NapReturn(p)
         \/ (p # InitProc /\ ExitCall(p)) \/ ForkFail(p) \/ ForkCopy(p) \/ ForkDone(p)
         \/ Exit(p) \/ NapSleep(p) \/ Yield(p) \/ Fork(p)
         \/ \E k \in (0 .. MaxPid) \ {1} : Kill(p, k)
    BY <1>7 DEF Return, Work, NapAgain, User
  <2> QED BY <2>3, <2>4, <2>5, <2>6, <2>7, <2>8, <2>9, <2>10, <2>11, <2>12, <2>13, <2>14
<1> QED BY <1>1, <1>2, <1>3, <1>4, <1>5, <1>6, <1>7 DEF Next

LEMMA InvHolds == Spec => []IInv
<1>1. Init => IInv
  BY InitInv
<1>2. IInv /\ [Next]_vars => IInv'
  BY StepInv
<1> QED BY <1>1, <1>2, PTL DEF Spec

-----------------------------------------------------------------------------
(* Every variable keeps its type, for any table, any processors, any kernel.   *)
THEOREM TypeCorrect == Spec => []TypeOK
<1>1. IInv => TypeOK
  BY DEF IInv
<1> QED BY <1>1, InvHolds, PTL

(* No process ever runs on two processors, and no processor believes to run    *)
(* one that is not RUNNING: swtch() hands the lock over so that nobody takes   *)
(* a process from the queue, or the table, while its kernel stack is in use.   *)
THEOREM OneCpuEachHolds == Spec => []OneCpuEach
<1>1. IInv => OneCpuEach
  BY DEF IInv
<1> QED BY <1>1, InvHolds, PTL

(* The ready queue holds exactly the RUNNABLE processes, each once, through    *)
(* userinit, fork, yield, wakeup, kill, exit and the scheduler; exit() may     *)
(* wake two sets of processes, which the proof shows disjoint.                 *)
THEOREM QueueExactHolds == Spec => []QueueExact
<1>1. IInv => QueueExact
  BY DEF IInv
<1> QED BY <1>1, InvHolds, PTL

(* wait() never sleeps through an exit, nor with nothing to wait for. IInv     *)
(* has the stronger form, which holds whoever has the lock: a sleeper in       *)
(* wait() sleeps on its own slot, where exit() looks for it.                   *)
THEOREM NoMissedExitHolds == Spec => []NoMissedExit
<1>1. IInv => NoMissedExit
  BY DEF IInv, Waiters, NoMissedExit
<1> QED BY <1>1, InvHolds, PTL

(* No slot is reused while a child still points to it as its parent, so        *)
(* nobody reaps a stranger's child; exit() needs init to be alive for that,    *)
(* and fork() its embryo for itself.                                           *)
THEOREM FamilyHolds == Spec => []Family
<1>1. IInv => Family
  BY DEF IInv
<1> QED BY <1>1, InvHolds, PTL

(* kill() and Control-C leave nobody asleep in wait(): killed is set and       *)
(* tested under the same lock.                                                 *)
THEOREM KilledLeavesWaitHolds == Spec => []KilledLeavesWait
<1>1. IInv => KilledLeavesWait
  BY DEF IInv, Waiters, KilledLeavesWait
<1> QED BY <1>1, InvHolds, PTL

-----------------------------------------------------------------------------
(* Whatever sequence the code adds, the queue grows at its end or not at all.  *)
LEMMA PutJoins ==
  ASSUME TypeOK, QueueExact', NEW s \in Seq(Slots), ready' = Put(s)
  PROVE  Queue!Join \/ ready' = ready
<1>1. CASE Scans \/ s = <<>>
  BY <1>1 DEF Put, TypeOK, KernelType
<1>2. CASE ~Scans /\ s # <<>>
  <2>1. ready \in Seq(Slots) /\ ready' = ready \o s
    BY <1>2 DEF Put, TypeOK, KernelType
  <2>2. Len(ready') > Len(ready) /\ SubSeq(ready', 1, Len(ready)) = ready
    <3>1. Len(s) \in Nat /\ Len(ready) \in Nat /\ Len(s) # 0
      BY <1>2, <2>1
    <3>2. Len(ready') = Len(ready) + Len(s)
      BY <2>1
    <3>3. SubSeq(ready \o s, 1, Len(ready)) = ready
      BY <2>1
    <3> QED BY <2>1, <3>1, <3>2, <3>3
  <2>3. Queue!NoRepeats(ready')
    BY QueueFactsNext DEF Queue!NoRepeats, NoRepeat
  <2> QED BY <2>2, <2>3 DEF Queue!Join
<1> QED BY <1>1, <1>2

LEMMA StepQueues ==
  ASSUME IInv, IInv', Next
  PROVE  Queue!Join \/ Queue!Leave \/ ready' = ready
<1>0. TypeOK /\ QueueExact' /\ \A p \in Slots : <<p>> \in Seq(Slots)
  BY DEF IInv
<1>1. ASSUME NEW W \in SUBSET Slots, \E s \in Orders(W) : ready' = Put(s)
      PROVE  Queue!Join \/ ready' = ready
  BY <1>0, <1>1, OrderFacts, PutJoins
<1>2. CASE UserInit
  BY <1>0, <1>2, NoClash, PutJoins DEF UserInit
<1>3. CASE Tick
  <2>1. Asleep(Ticks) \in SUBSET Slots
    BY DEF Asleep
  <2> QED BY <1>1, <1>3, <2>1, TableOrder DEF Tick
<1>4. CASE KillJobs
  <2>1. PICK S : LET j == Below({q \in Slots : state[q] # "UNUSED" /\ parent[q] \in S \cup Shells})
                     a == {q \in j : state[q] = "SLEEPING"}
                 IN \E s \in Orders(a) : ready' = Put(s)
    BY <1>4 DEF KillJobs
  <2>2. {q \in Below({q \in Slots : state[q] # "UNUSED" /\ parent[q] \in S \cup Shells}) :
           state[q] = "SLEEPING"} \in SUBSET Slots
    BY DEF Below
  <2> QED BY <1>1, <2>1, <2>2
<1>5. ASSUME NEW c \in CPUs, Dispatch(c)
      PROVE  Queue!Leave \/ ready' = ready
  <2>1. CASE Scans
    BY <1>5, <2>1 DEF Dispatch, Rest
  <2>2. CASE ~Scans
    <3>1. ready # <<>> /\ ready' = Tail(ready)
      BY <1>5, <2>2 DEF Dispatch, Rest, NextUp
    <3> QED BY <3>1 DEF Queue!Leave
  <2> QED BY <2>1, <2>2
<1>6. ASSUME NEW p \in Slots, Exit(p)
      PROVE  Queue!Join \/ ready' = ready
  <2>1. PICK s \in InTableOrder(WokenParent(p)), t \in InTableOrder(WokenForOrphans(p) \ WokenParent(p)) :
          ready' = Put(s \o t)
    BY <1>6 DEF Exit
  <2>2. WokenParent(p) \in SUBSET Slots /\ WokenForOrphans(p) \ WokenParent(p) \in SUBSET Slots
    BY DEF WokenParent, WokenForOrphans, Asleep
  <2>3. s \in Seq(Slots) /\ t \in Seq(Slots)
    BY <2>2, TableOrder, OrderFacts
  <2>4. s \o t \in Seq(Slots)
    BY <2>3
  <2> QED BY <1>0, <2>1, <2>4, PutJoins
<1>7. ASSUME NEW p \in Slots, NEW k, Kill(p, k)
      PROVE  Queue!Join \/ ready' = ready
  <2>1. PICK q \in First({r \in Slots : pid[r] = k}) :
          \E s \in InTableOrder(WokenByKill(q)) : ready' = Put(s)
    BY <1>7 DEF Kill
  <2>2. WokenByKill(q) \in SUBSET Slots
    BY DEF WokenByKill, First
  <2> QED BY <1>1, <2>1, <2>2, TableOrder
<1>8. ASSUME NEW p \in Slots, ForkDone(p)
      PROVE  Queue!Join \/ ready' = ready
  <2>1. np[p] \in Slots
    BY <1>8 DEF ForkDone, IInv, Embryos, InFork
  <2> QED BY <1>0, <1>8, <2>1, PutJoins DEF ForkDone
<1>9. ASSUME NEW p \in Slots, Yield(p)
      PROVE  Queue!Join \/ ready' = ready
  BY <1>0, <1>9, PutJoins DEF Yield
<1>10. ASSUME NEW c \in CPUs, Release(c) \/ EmptyRound(c) \/ Halt(c) \/ Interrupt(c)
       PROVE  ready' = ready
  BY <1>10 DEF Release, EmptyRound, Halt, Interrupt, Stops
<1>11. ASSUME NEW p \in Slots, \/ Return(p) \/ NapAgain(p) \/ NapReturn(p) \/ NapSleep(p)
                               \/ ForkFail(p) \/ ForkCopy(p) \/ Fork(p) \/ Wait(p) \/ ExitCall(p) \/ NapTest(p)
       PROVE  ready' = ready
  BY <1>11 DEF Return, NapAgain, NapReturn, NapSleep, ForkFail, ForkCopy, Fork, Wait, ExitCall, NapTest,
               Resume, SleepReturn
<1> QED BY <1>2, <1>3, <1>4, <1>5, <1>6, <1>7, <1>8, <1>9, <1>10, <1>11 DEF Next, Work, User

(* The ready queue of the process table, safety part: the oldest leaves, and   *)
(* whoever a call makes runnable lines up at the end, in its turn. (A table    *)
(* that is scanned has an empty queue for ever.) That it never stands still is *)
(* left to TLC.                                                                *)
THEOREM ReadyIsFifo == Spec => Queue!FifoSpec
<1>1. Init => Queue!FifoInit
  BY DEF Init, Queue!FifoInit
<1>2. IInv /\ [Next]_vars => [Queue!Join \/ Queue!Leave]_ready
  <2> SUFFICES ASSUME IInv, [Next]_vars PROVE [Queue!Join \/ Queue!Leave]_ready
    OBVIOUS
  <2>1. IInv'
    BY StepInv
  <2>2. CASE Next
    BY <2>1, <2>2, StepQueues
  <2>3. CASE UNCHANGED vars
    BY <2>3 DEF vars
  <2> QED BY <2>2, <2>3
<1> QED BY <1>1, <1>2, InvHolds, PTL DEF Spec, Queue!FifoSpec
=============================================================================
