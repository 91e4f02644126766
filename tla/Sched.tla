-------------------------------- MODULE Sched --------------------------------
(* Process lifecycle and scheduling (the proc.c of assignments 2, 4, 6 and 7   *)
(* and of one final project): the process table, fork, exit, wait, kill, sleep *)
(* and wakeup, Control-C, and a scheduler per processor that takes processes   *)
(* from a ready queue or scans the table, all under ptable.lock, which swtch() *)
(* hands from the scheduler to the process and back. The queue is a sequence   *)
(* here; module ReadyQueue shows how each student links it.                    *)
EXTENDS Integers, Sequences, FiniteSets

CONSTANTS
  NPROC,     \* slots of the process table
  CPUs,      \* processors
  MaxPid,    \* bound: last pid that allocproc hands out
  Variants   \* behaviours of the proc.c under study, see SchedVariants

(* What the kernels' control differs in. discipline: "queue", one process from *)
(* the ready queue per turn of the lock; "drain", the lock is kept while the   *)
(* queue has processes; "scan", while the scan of the table meets runnable     *)
(* ones. halts: a processor that ran nothing stops until an interrupt. nudges: *)
(* the calls that interrupt the other processors when they make a process      *)
(* runnable. killReleases: kill() lets ptable.lock go on every path. killsJobs:*)
(* Control-C kills what the shell runs.                                        *)
Nudging == {"userinit", "fork", "yield", "wakeup", "kill"}
Variant == [discipline : {"queue", "drain", "scan"}, halts : BOOLEAN,
            nudges : SUBSET Nudging, killReleases : BOOLEAN, killsJobs : BOOLEAN]

Slots == 1 .. NPROC
NoProc == 0            \* a null struct proc pointer
Lost == -1             \* ptable.lock left locked by a process that went on without it
InitProc == 1          \* initproc: the slot userinit() takes
Ticks == NPROC + 1     \* the channel &ticks; other channels are slots

ASSUME TableAssumption == NPROC \in Nat \ {0} /\ MaxPid \in Nat \ {0}
ASSUME CpuAssumption == CPUs \cap (Slots \cup {NoProc, Lost}) = {}
ASSUME VariantAssumption == Variants \subseteq Variant

VARIABLES
  lock,     \* holder of ptable.lock between steps: a slot just dispatched, the
            \* scheduler of a CPU, Lost, or NoProc
  state,    \* p->state
  pid,      \* p->pid
  parent,   \* p->parent
  chan,     \* p->chan
  killed,   \* p->killed
  pc,       \* where the process of a slot goes on, see PCs
  np,       \* fork()'s local np
  ready,    \* the ready queue, oldest first
  cpu,      \* c->proc
  at,       \* the slot where the scheduler that holds the lock scans on, or 0
  idle,     \* "on"; "halting", about to halt; "halted"
  nextpid,  \* nextpid
  variant,  \* the proc.c under study
  creator   \* history: pid of the process whose fork() made this one

procVars == <<state, pid, parent, chan, killed>>
cpuVars == <<cpu, at, idle>>
vars == <<lock, procVars, pc, np, ready, cpuVars, nextpid, variant, creator>>

(* "none": no process. "fresh": to start in forkret. "user": user mode.        *)
(* "forking": in fork after allocproc. "forked": np->parent is set.            *)
(* "exiting": in exit before its acquire. "napping": in sys_sleep, holding     *)
(* tickslock, the test made. "napslept": asleep on &ticks. "napwoken": to take *)
(* tickslock again. "waiting": asleep in wait.                                 *)
PCs == {"none", "fresh", "user", "forking", "forked", "exiting", "napping",
        "napslept", "napwoken", "waiting"}
Interruptible == {"user", "forking", "forked", "exiting", "napwoken"}

States == {"UNUSED", "EMBRYO", "SLEEPING", "RUNNABLE", "RUNNING", "ZOMBIE"}
Live(p) == state[p] \in {"SLEEPING", "RUNNABLE", "RUNNING"}
Kids(p) == {q \in Slots : parent[q] = p}
First(S) == {x \in S : \A y \in S : x <= y}   \* where a scan of the table stops

Running(p) == \E c \in CPUs : cpu[c] = p
Executing(p) == Running(p) /\ lock # p   \* past the release that follows swtch()
CpuOf(p) == CHOOSE c \in CPUs : cpu[c] = p
TicksHeld == \E p \in Slots : pc[p] = "napping"

Go(p, to) == pc' = [pc EXCEPT ![p] = to]
(* trap() makes a killed process exit on its way back to user mode.            *)
AfterTrap(p) == IF killed[p] THEN "exiting" ELSE "user"

-----------------------------------------------------------------------------
(* pinit(), and userinit() up to its acquire: the first process is an embryo.  *)
Init ==
  /\ lock = NoProc
  /\ state = [p \in Slots |-> IF p = InitProc THEN "EMBRYO" ELSE "UNUSED"]
  /\ pid = [p \in Slots |-> IF p = InitProc THEN 1 ELSE 0]
  /\ parent = [p \in Slots |-> NoProc]
  /\ chan = [p \in Slots |-> NoProc]
  /\ killed = [p \in Slots |-> FALSE]
  /\ pc = [p \in Slots |-> IF p = InitProc THEN "fresh" ELSE "none"]
  /\ np = [p \in Slots |-> NoProc]
  /\ ready = <<>>
  /\ cpu = [c \in CPUs |-> NoProc]
  /\ at = 0
  /\ idle = [c \in CPUs |-> "on"]
  /\ nextpid = 2
  /\ variant \in Variants
  /\ creator = [p \in Slots |-> 0]

(* A set of processes in any order, and in the one in which a scan of          *)
(* ptable.proc meets them.                                                     *)
Orders(S) ==
  {s \in [1 .. Cardinality(S) -> S] : \A a, b \in DOMAIN s : s[a] = s[b] => a = b}
InTableOrder(S) == {s \in Orders(S) : \A a, b \in DOMAIN s : a < b => s[a] < s[b]}

(* Adding to the ready queue. A scheduler that scans the table has none.       *)
Scans == variant.discipline = "scan"
PutFirst(s) == IF Scans THEN ready ELSE s \o ready   \* mutant: a stack
Put(s) == IF Scans THEN ready ELSE ready \o s

(* The processes that wakeup1(ch) makes RUNNABLE.                              *)
OnChannel(ch) == {q \in Slots : chan[q] = ch}   \* mutant: state not looked at
Asleep(ch) == {q \in Slots : state[q] = "SLEEPING" /\ chan[q] = ch}

(* p leaves its CPU in state s, and the processes of W become RUNNABLE. sched()*)
(* switches to the scheduler, which holds ptable.lock from then on.            *)
Become(p, s, W) ==
  state' = [q \in Slots |-> IF q = p THEN s ELSE IF q \in W THEN "RUNNABLE" ELSE state[q]]
ToScheduler(c) ==
  /\ cpu' = [cpu EXCEPT ![c] = NoProc] /\ lock' = c
  /\ at' = IF Scans THEN cpu[c] ELSE 0

(* lapicwakeup(), by processor c: a halted processor goes round again. One     *)
(* that has found nothing to run but not halted yet takes the interrupt too,   *)
(* and halts after it.                                                         *)
Nudge(call, c) ==
  idle' = IF call \in variant.nudges
            THEN [d \in CPUs |-> IF d # c /\ idle[d] = "halted" THEN "on" ELSE idle[d]]
            ELSE idle
NudgeFor(W, c) == IF W # {} THEN Nudge("wakeup", c) ELSE UNCHANGED idle

UserInit ==
  /\ state[InitProc] = "EMBRYO" /\ lock = NoProc
  /\ state' = [state EXCEPT ![InitProc] = "RUNNABLE"]
  /\ ready' = Put(<<InitProc>>)
  /\ Nudge("userinit", NoProc)
  /\ UNCHANGED <<lock, pid, parent, chan, killed, pc, np, cpu, at, nextpid, variant, creator>>

-----------------------------------------------------------------------------
(* scheduler(): take the oldest process of the ready queue, or the next        *)
(* runnable one of the table, and hand it the lock.                            *)
Runnable == {p \in Slots : state[p] = "RUNNABLE"}
NextUp ==
  IF Scans THEN First({p \in Runnable : p > at})
           ELSE {ready[k] : k \in DOMAIN ready \cap {1}}

StillQueued == ready                    \* mutant: the process stays in the queue
Rest == IF Scans THEN ready ELSE Tail(ready)

Dispatch(c) ==
  /\ cpu[c] = NoProc /\ idle[c] = "on"
  /\ lock = NoProc \/ (lock = c /\ variant.discipline # "queue")
  /\ \E p \in NextUp :
       /\ cpu' = [cpu EXCEPT ![c] = p]
       /\ lock' = p
       /\ state' = [state EXCEPT ![p] = "RUNNING"]
  /\ ready' = Rest
  /\ at' = 0
  /\ UNCHANGED <<pid, parent, chan, killed, pc, np, idle, nextpid, variant, creator>>

Release(c) ==
  /\ lock = c
  /\ variant.discipline # "queue" => NextUp = {}
  /\ lock' = NoProc
  /\ at' = 0
  /\ UNCHANGED <<procVars, pc, np, ready, cpu, idle, nextpid, variant, creator>>

(* A round that ran nothing, and the halt that follows it, interrupts on; any  *)
(* interrupt ends that.                                                        *)
Stops(c, from, to) ==
  /\ variant.halts /\ idle[c] = from
  /\ idle' = [idle EXCEPT ![c] = to]
  /\ UNCHANGED <<lock, procVars, pc, np, ready, cpu, at, nextpid, variant, creator>>

EmptyRound(c) ==
  /\ cpu[c] = NoProc /\ lock = NoProc /\ Runnable = {}
  /\ Stops(c, "on", "halting")
Halt(c) == Stops(c, "halting", "halted")
Interrupt(c) == Stops(c, "halted", "on")

(* A process runs again: forkret(), or the end of yield(), and back to what    *)
(* the timer interrupted ...                                                   *)
Resume(p) ==
  /\ lock = p /\ pc[p] \in Interruptible \cup {"fresh"}
  /\ lock' = NoProc
  /\ Go(p, CASE pc[p] = "fresh" -> "user"
             [] pc[p] = "user"  -> AfterTrap(p)
             [] OTHER           -> pc[p])
  /\ UNCHANGED <<procVars, np, ready, cpuVars, nextpid, variant, creator>>

(* ... or the end of sleep(&ticks, &tickslock).                                *)
SleepReturn(p) ==
  /\ lock = p /\ pc[p] = "napslept"
  /\ chan' = [chan EXCEPT ![p] = NoProc]
  /\ lock' = NoProc
  /\ Go(p, "napwoken")
  /\ UNCHANGED <<state, pid, parent, killed, np, ready, cpuVars, nextpid, variant, creator>>

(* yield(), from the timer interrupt, wherever interrupts are on.              *)
Yield(p) ==
  /\ Executing(p) /\ lock = NoProc /\ pc[p] \in Interruptible
  /\ Become(p, "RUNNABLE", {})
  /\ ready' = Put(<<p>>)
  /\ Nudge("yield", CpuOf(p))
  /\ ToScheduler(CpuOf(p))
  /\ UNCHANGED <<pid, parent, chan, killed, pc, np, nextpid, variant, creator>>

-----------------------------------------------------------------------------
PastTheTable(S) == {NPROC + 1}         \* mutant: the scan runs off the table
FreeSlot(S) == First(S)

(* fork(): allocproc() under the lock, ...                                     *)
Fork(p) ==
  /\ Executing(p) /\ pc[p] = "user" /\ ~killed[p] /\ lock = NoProc
  /\ nextpid <= MaxPid
  /\ \E q \in FreeSlot({r \in Slots : state[r] = "UNUSED"}) :
       /\ state' = [state EXCEPT ![q] = "EMBRYO"]
       /\ pid' = [pid EXCEPT ![q] = nextpid]
       /\ np' = [np EXCEPT ![p] = q]
       /\ pc' = [pc EXCEPT ![p] = "forking", ![q] = "fresh"]
       /\ creator' = [creator EXCEPT ![q] = pid[p]]
  /\ nextpid' = nextpid + 1
  /\ UNCHANGED <<lock, parent, chan, killed, ready, cpuVars, variant>>

(* ... the rest without it: no page for the kernel stack or the copy of the    *)
(* address space, and the slot is put back ...                                 *)
ForkFail(p) ==
  /\ Executing(p) /\ pc[p] = "forking"
  /\ state' = [state EXCEPT ![np[p]] = "UNUSED"]
  /\ pc' = [pc EXCEPT ![p] = AfterTrap(p), ![np[p]] = "none"]
  /\ creator' = [creator EXCEPT ![np[p]] = 0]
  /\ np' = [np EXCEPT ![p] = NoProc]
  /\ UNCHANGED <<lock, pid, parent, chan, killed, ready, cpuVars, nextpid, variant>>

ByPid(p) == pid[p]                      \* mutant: a pid where a slot is meant
ParentFor(p) == p

ForkCopy(p) ==
  /\ Executing(p) /\ pc[p] = "forking"
  /\ parent' = [parent EXCEPT ![np[p]] = ParentFor(p)]
  /\ Go(p, "forked")
  /\ UNCHANGED <<lock, state, pid, chan, killed, np, ready, cpuVars, nextpid, variant, creator>>

(* ... until the child is made runnable.                                       *)
ForkDone(p) ==
  /\ Executing(p) /\ pc[p] = "forked" /\ lock = NoProc
  /\ state' = [state EXCEPT ![np[p]] = "RUNNABLE"]
  /\ ready' = Put(<<np[p]>>)
  /\ np' = [np EXCEPT ![p] = NoProc]
  /\ Nudge("fork", CpuOf(p))
  /\ Go(p, AfterTrap(p))
  /\ UNCHANGED <<lock, pid, parent, chan, killed, cpu, at, nextpid, variant, creator>>

-----------------------------------------------------------------------------
(* exit(), called or forced by trap() on a killed process, closes files ...    *)
ExitCall(p) ==
  /\ Executing(p) /\ pc[p] = "user"
  /\ Go(p, "exiting")
  /\ UNCHANGED <<lock, procVars, np, ready, cpuVars, nextpid, variant, creator>>

OrphansKept(p) == parent                \* mutant: children keep a dead parent
Reparented(p) == [q \in Slots |-> IF parent[q] = p THEN InitProc ELSE parent[q]]

NobodyForOrphans(p) == {}               \* mutant: init is not told of zombies
WokenForOrphans(p) ==
  IF \E q \in Kids(p) : state[q] = "ZOMBIE" THEN Asleep(InitProc) ELSE {}

ParentForgotten(p) == {}                \* mutant: wakeup1(parent) is missing
WokenParent(p) == Asleep(parent[p])

(* ... and under the lock wakes its parent, gives its children to init, waking *)
(* it for a child that is a zombie already, and leaves the CPU as a ZOMBIE.    *)
Exit(p) ==
  /\ Executing(p) /\ pc[p] = "exiting" /\ lock = NoProc
  /\ LET first  == WokenParent(p)
         second == WokenForOrphans(p) \ first
     IN /\ \E s \in InTableOrder(first), t \in InTableOrder(second) : ready' = Put(s \o t)
        /\ Become(p, "ZOMBIE", first \cup second)
        /\ NudgeFor(first \cup second, CpuOf(p))
  /\ parent' = Reparented(p)
  /\ Go(p, "none")
  /\ ToScheduler(CpuOf(p))
  /\ UNCHANGED <<pid, chan, killed, np, nextpid, variant, creator>>

DeafWait(p) == Kids(p) = {}             \* mutant: wait() ignores killed
NothingToWaitFor(p) == Kids(p) = {} \/ killed[p]

(* One round of wait()'s loop by p on CPU c, entered from user mode or after a *)
(* sleep: free a dead child, or give up, or sleep on p's own slot.             *)
Reap(p) ==
  /\ \E q \in First({k \in Kids(p) : state[k] = "ZOMBIE"}) :
       /\ state' = [state EXCEPT ![q] = "UNUSED"]
       /\ pid' = [pid EXCEPT ![q] = 0]
       /\ parent' = [parent EXCEPT ![q] = NoProc]
       /\ killed' = [killed EXCEPT ![q] = FALSE]
       /\ creator' = [creator EXCEPT ![q] = 0]
  /\ chan' = [chan EXCEPT ![p] = NoProc]
  /\ lock' = NoProc
  /\ Go(p, AfterTrap(p))
  /\ UNCHANGED cpuVars

GiveUp(p) ==
  /\ \A k \in Kids(p) : state[k] # "ZOMBIE"
  /\ NothingToWaitFor(p)
  /\ chan' = [chan EXCEPT ![p] = NoProc]
  /\ lock' = NoProc
  /\ Go(p, AfterTrap(p))
  /\ UNCHANGED <<state, pid, parent, killed, creator, cpuVars>>

WaitSleep(p) ==
  /\ \A k \in Kids(p) : state[k] # "ZOMBIE"
  /\ ~NothingToWaitFor(p)
  /\ chan' = [chan EXCEPT ![p] = p]
  /\ Become(p, "SLEEPING", {})
  /\ Go(p, "waiting")
  /\ ToScheduler(CpuOf(p))
  /\ UNCHANGED <<pid, parent, killed, idle, creator>>

Wait(p) ==
  /\ Running(p)
  /\ \/ pc[p] = "user" /\ ~killed[p] /\ lock = NoProc
     \/ pc[p] = "waiting" /\ lock = p
  /\ Reap(p) \/ GiveUp(p) \/ WaitSleep(p)
  /\ UNCHANGED <<np, ready, nextpid, variant>>

-----------------------------------------------------------------------------
(* sys_sleep(n): with tickslock, return -1 if killed, or 0 if the time is up,  *)
(* or sleep on &ticks; the count of ticks is left out.                         *)
NapTest(p) ==
  /\ Executing(p) /\ ~TicksHeld
  /\ pc[p] \in {"user", "napwoken"}
  /\ ~killed[p]
  /\ Go(p, "napping")
  /\ UNCHANGED <<lock, procVars, np, ready, cpuVars, nextpid, variant, creator>>

NapReturn(p) ==
  /\ Executing(p) /\ ~TicksHeld /\ pc[p] = "napwoken"
  /\ Go(p, AfterTrap(p))
  /\ UNCHANGED <<lock, procVars, np, ready, cpuVars, nextpid, variant, creator>>

NapSleep(p) ==
  /\ Executing(p) /\ pc[p] = "napping" /\ lock = NoProc
  /\ chan' = [chan EXCEPT ![p] = Ticks]
  /\ Become(p, "SLEEPING", {})
  /\ Go(p, "napslept")
  /\ ToScheduler(CpuOf(p))
  /\ UNCHANGED <<pid, parent, killed, np, ready, idle, nextpid, variant, creator>>

(* The clock interrupt: wakeup(&ticks) with tickslock held, on a processor     *)
(* that the interrupt itself has woken.                                        *)
Tick ==
  /\ ~TicksHeld /\ lock = NoProc
  /\ Become(NoProc, "RUNNABLE", Asleep(Ticks))
  /\ \E s \in InTableOrder(Asleep(Ticks)) : ready' = Put(s)
  /\ NudgeFor(Asleep(Ticks), NoProc)
  /\ UNCHANGED <<lock, pid, parent, chan, killed, pc, np, cpu, at, nextpid, variant, creator>>

(* kill(k): the first slot with that pid, in any state. grubb releases the     *)
(* lock only where the process was asleep (killReleases is FALSE).             *)
NotWoken(q) == {}                       \* mutant: a sleeper is left asleep
WokenByKill(q) == IF state[q] = "SLEEPING" THEN {q} ELSE {}

Kill(p, k) ==
  /\ Executing(p) /\ pc[p] = "user" /\ ~killed[p] /\ lock = NoProc
  /\ \E q \in First({r \in Slots : pid[r] = k}) :
       /\ killed' = [killed EXCEPT ![q] = TRUE]
       /\ Become(NoProc, "RUNNABLE", WokenByKill(q))
       /\ \E s \in InTableOrder(WokenByKill(q)) : ready' = Put(s)
       /\ lock' = IF variant.killReleases \/ state[q] = "SLEEPING" THEN NoProc ELSE Lost
       /\ IF WokenByKill(q) # {} THEN Nudge("kill", CpuOf(p)) ELSE UNCHANGED idle
  /\ UNCHANGED <<pid, parent, chan, pc, np, cpu, at, nextpid, variant, creator>>

(* Control-C: killjobs() from the console's interrupt kills the children of    *)
(* every process named "sh", and all below them. What init forks is a shell    *)
(* (init.c of xv6); any other process may have the name from its parent or     *)
(* from exec, which tells only for those not below a shell already.            *)
Descends(C) == \A q \in Slots : state[q] # "UNUSED" /\ parent[q] \in C => q \in C
Below(S) == {q \in Slots : \A C \in SUBSET Slots : S \subseteq C /\ Descends(C) => q \in C}
Shells == {q \in Slots : parent[q] = InitProc /\ creator[q] = pid[InitProc]}
MayBeShells == {q \in Slots : state[q] # "UNUSED"} \ ({InitProc} \cup Below(Shells))

KillJobs ==
  /\ variant.killsJobs /\ lock = NoProc
  /\ {c \in CPUs : cpu[c] = NoProc \/ pc[cpu[c]] \in Interruptible} # {}
  /\ \E S \in SUBSET MayBeShells :
     LET jobs   == Below({q \in Slots : state[q] # "UNUSED" /\ parent[q] \in S \cup Shells})
         asleep == {q \in jobs : state[q] = "SLEEPING"}
     IN /\ killed' = [q \in Slots |-> killed[q] \/ q \in jobs]
        /\ Become(NoProc, "RUNNABLE", asleep)
        /\ \E s \in Orders(asleep) : ready' = Put(s)
  /\ UNCHANGED <<lock, pid, parent, chan, pc, np, cpuVars, nextpid, variant, creator>>

-----------------------------------------------------------------------------
(* The kernel's own steps for a process, as opposed to what a user asks for:   *)
(* back from swtch(), and on with the work it was doing.                       *)
Return(p) == Resume(p) \/ SleepReturn(p) \/ (pc[p] = "waiting" /\ Wait(p))
Work(p) ==
  \/ ForkFail(p) \/ ForkCopy(p) \/ ForkDone(p) \/ Exit(p)
  \/ NapReturn(p) \/ NapSleep(p)
NapAgain(p) == pc[p] = "napwoken" /\ NapTest(p)

(* init.c of xv6 only forks a shell and waits; it never exits.                 *)
User(p) ==
  \/ Fork(p)
  \/ pc[p] = "user" /\ Wait(p)
  \/ /\ p # InitProc
     /\ \/ ExitCall(p) \/ (pc[p] = "user" /\ NapTest(p))
        \/ \E k \in (0 .. MaxPid) \ {1} : Kill(p, k)   \* killing init panics

Next ==
  \/ UserInit \/ Tick \/ KillJobs
  \/ \E c \in CPUs : Dispatch(c) \/ Release(c) \/ EmptyRound(c) \/ Halt(c) \/ Interrupt(c)
  \/ \E p \in Slots : Return(p) \/ Work(p) \/ NapAgain(p) \/ Yield(p) \/ User(p)

Spec == Init /\ [][Next]_vars

(* Schedulers loop for ever, the timer interrupts every CPU for ever but       *)
(* leaves a process time for a step in between, and a CPU that spins on a lock *)
(* gets it if it comes free again and again. init calls wait() again and again *)
(* (init.c of xv6). Other users owe nothing.                                   *)
Fairness ==
  /\ WF_vars(UserInit) /\ SF_vars(Tick)
  /\ \A c \in CPUs :
       /\ SF_vars(Dispatch(c)) /\ WF_vars(Release(c))
       /\ WF_vars(Halt(c) \/ Interrupt(c))
  /\ \A p \in Slots : WF_vars(Return(p)) /\ SF_vars(Work(p)) /\ SF_vars(Yield(p))
  /\ SF_vars(pc[InitProc] = "user" /\ Wait(InitProc))

FairSpec == Spec /\ Fairness

-----------------------------------------------------------------------------
(* Properties.                                                                 *)

TableType ==
  /\ state \in [Slots -> States] /\ pid \in [Slots -> 0 .. MaxPid]
  /\ parent \in [Slots -> Slots \cup {NoProc}]
  /\ chan \in [Slots -> Slots \cup {NoProc, Ticks}]
  /\ killed \in [Slots -> BOOLEAN]
KernelType ==
  /\ lock \in Slots \cup CPUs \cup {NoProc, Lost}
  /\ pc \in [Slots -> PCs] /\ np \in [Slots -> Slots \cup {NoProc}]
  /\ ready \in Seq(Slots) /\ cpu \in [CPUs -> Slots \cup {NoProc}]
  /\ nextpid \in 2 .. MaxPid + 1
  /\ at \in {0} \cup Slots /\ (at # 0 => lock \in CPUs)
  /\ idle \in [CPUs -> {"on", "halting", "halted"}]
  /\ variant \in Variant /\ creator \in [Slots -> 0 .. MaxPid]
TypeOK == TableType /\ KernelType

(* Every RUNNABLE process is in the ready queue exactly once, and nothing else *)
(* is. The queue and p->state are updated side by side in userinit, fork,      *)
(* yield, wakeup1, kill and scheduler; a process queued twice would corrupt    *)
(* the links, one left out would never run again.                              *)
QueueExact ==
  /\ ~Scans => \A p \in Slots : state[p] = "RUNNABLE" <=> \E k \in DOMAIN ready : ready[k] = p
  /\ \A j, k \in DOMAIN ready : ready[j] = ready[k] => j = k

(* A RUNNING process is on exactly one CPU, and a CPU runs no other: two CPUs  *)
(* on one kernel stack would destroy it.                                       *)
OneCpuEach ==
  /\ \A p \in Slots : state[p] = "RUNNING" <=> Running(p)
  /\ \A c, d \in CPUs : cpu[c] = cpu[d] /\ cpu[c] # NoProc => c = d

(* No missed exit: with the lock free, a parent asleep in wait() has a child   *)
(* to wait for, and none that is dead already; wait() and exit() of several    *)
(* children and of a parent between them must never leave it so.               *)
NoMissedExit ==
  lock = NoProc =>
    \A p \in Slots : state[p] = "SLEEPING" /\ pc[p] = "waiting" =>
      /\ Kids(p) # {}
      /\ \A q \in Kids(p) : state[q] # "ZOMBIE"

(* The parent of a process is alive, and it is the process that forked it or   *)
(* init: no slot is reused while a p->parent still points to it, so nobody     *)
(* waits for, or reaps, a stranger's child.                                    *)
Family ==
  \A p \in Slots : (Live(p) \/ state[p] = "ZOMBIE") /\ p # InitProc =>
    /\ parent[p] # NoProc /\ Live(parent[p])
    /\ parent[p] = InitProc \/ pid[parent[p]] = creator[p]

(* kill() gets its victim out of wait(), whatever the order of kill, the test  *)
(* of killed and the sleep. (From sys_sleep it may have to wait for a tick:    *)
(* killed is tested before ptable.lock is taken.)                              *)
KilledLeavesWait ==
  \A p \in Slots : killed[p] /\ state[p] = "SLEEPING" => pc[p] # "waiting"

(* The ready queue is first in, first out, nobody is in it twice, and it never *)
(* stands still. Without a queue, the slot that a scan of the table meets last *)
(* gets its turn too, whether the processors halt in between or not.           *)
Queue == INSTANCE Fifo WITH waiting <- ready
LastSlotRuns == state[NPROC] = "RUNNABLE" ~> state[NPROC] = "RUNNING"
ReadyIsFairFifo == Queue!FairFifoSpec /\ LastSlotRuns

(* A zombie that is init's child, from the start or since its parent exited,   *)
(* is eventually freed.                                                        *)
OrphansReaped ==
  \A p \in Slots \ {InitProc} :
    state[p] = "ZOMBIE" /\ parent[p] = InitProc ~> state[p] = "UNUSED"

(* A killed process eventually exits, asleep or not when it was killed.        *)
KilledExits ==
  \A p \in Slots \ {InitProc} :
    killed[p] /\ Live(p) ~> state[p] \in {"ZOMBIE", "UNUSED"}

(* A process is not born killed: kill() marks the process with the given pid.  *)
BornAlive ==
  [][\A p \in Slots : state[p] = "UNUSED" /\ state'[p] = "EMBRYO" => ~killed'[p]]_vars
=============================================================================
