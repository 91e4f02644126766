-------------------------------- MODULE Mutex --------------------------------
(* The kernel mutexes of assignment 4: a table of mutexes that any process may *)
(* create, acquire, release and destroy by number. Each mutex is a flag (or    *)
(* the pid of its holder) under a spinlock; processes that find it set sleep   *)
(* on it. The students' versions differ in what they check, under which locks, *)
(* and in the order they take them. A call spins for its locks one after the   *)
(* other, does its work, and lets go of them; interrupts are off meanwhile, so *)
(* that a process with a spinlock keeps its processor.                         *)
EXTENDS Integers, Sequences, FiniteSets

CONSTANTS
  Procs,     \* processes
  Mutexes,   \* numbers of mutexes, the valid range of the table
  Nobody,
  Table,     \* names the spinlock of the table
  Variants   \* the mutex.c under study, see MutexVariants

ASSUME NameAssumption == Nobody \notin Procs /\ Table \notin Mutexes
ASSUME IndexAssumption == Mutexes \subseteq Nat /\ 0 \in Mutexes

(* acquires, relocks, releases, destroys: the spinlocks taken by each call, in *)
(* order, and again after sleep(). acquireCheck: the mutex is known to exist   *)
(* never, before any lock, under the table's lock that is then let go, once    *)
(* under the locks, or at each turn of the loop; "notMine" asks only whether   *)
(* the caller holds it. releaseCheck: that it exists, before or under the      *)
(* locks; is held; or is the caller's. destroyCheck: that it exists, is free,  *)
(* or was created by the caller.                                               *)
Variant == [acquires : Seq({"mutex", "table"}), relocks : Seq({"mutex", "table"}),
            releases : Seq({"mutex", "table"}), destroys : Seq({"mutex", "table"}),
            acquireCheck : {"none", "early", "probe", "first", "loop", "notMine"},
            releaseCheck : {"early", "locked", "held", "lockedHeld", "mineEarly", "mine"},
            destroyCheck : {"creator", "early", "locked", "free"},
            destroyClears : BOOLEAN, createClears : BOOLEAN, createResetsLock : BOOLEAN,
            byName : BOOLEAN, lateWakeup : BOOLEAN]
ASSUME VariantAssumption == Variants \subseteq Variant

(* Only willghatch's create clears the holder, and there it is clear already.  *)
ASSUME ClearingAssumption ==
  \A v \in Variants : v.createClears =>
    /\ v.byName /\ v.acquireCheck = "loop"
    /\ v.releaseCheck = "mine" /\ v.destroyCheck = "free"

(* All calls of a kernel that take both spinlocks take them in the same order, *)
(* but for anthonyw's acquire, which has them the other way round after sleep()*)
(* (and does not start again then).                                            *)
Orders(one, other) == {<<one>>, <<other>>, <<one, other>>}
Backwards(v) == v.relocks = <<"mutex", "table">> /\ v.acquireCheck # "loop"
OneOrder(v, one, other) ==
  /\ {v.acquires, v.releases, v.destroys} \subseteq Orders(one, other)
  /\ v.relocks \in Orders(one, other) \/ Backwards(v)
ASSUME OrderAssumption ==
  \A v \in Variants : OneOrder(v, "table", "mutex") \/ OneOrder(v, "mutex", "table")

VARIABLES
  exists,    \* state, ref, in_use, alloted_pid # 0
  creator,   \* alloted_pid
  held,      \* the process that set the flag, or whose pid is stored
  lock,      \* holder of each spinlock
  pc, op, mtx, todo,  \* of a process: where, in which call, on what, locks to take
  variant,
  has,       \* history: the processes whose acquire returned 0, until they release
  abused     \* history: released by a process without it, or destroyed while held

mutexVars == <<exists, creator, held>>
vars == <<mutexVars, lock, pc, op, mtx, todo, variant, has, abused>>

Locks == Mutexes \cup {Table}

(* The first of a set of table entries.                                        *)
Lowest(S) == CHOOSE x \in S : \A y \in S : x <= y

LockNamed(kind, m) == IF kind = "table" THEN Table ELSE m
Next_(p) == LockNamed(Head(todo[p]), mtx[p])

Init ==
  /\ exists = [m \in Mutexes |-> FALSE]
  /\ creator = [m \in Mutexes |-> Nobody]
  /\ held = [m \in Mutexes |-> Nobody]
  /\ lock = [l \in Locks |-> Nobody]
  /\ pc = [p \in Procs |-> "user"]
  /\ op = [p \in Procs |-> "none"]
  /\ mtx = [p \in Procs |-> Lowest(Mutexes)]
  /\ todo = [p \in Procs |-> <<>>]
  /\ variant \in Variants
  /\ has = [m \in Mutexes |-> {}]
  /\ abused = [m \in Mutexes |-> FALSE]

-----------------------------------------------------------------------------
(* A system call, up to its first spinlock: the tests it makes without one.    *)
(* A call that fails there returns -1 and changes nothing.                     *)
EarlyAcquire(p, m) ==
  /\ variant.acquireCheck = "early" => exists[m]
  /\ variant.acquireCheck = "notMine" => held[m] # p
EarlyRelease(p, m) ==
  /\ variant.releaseCheck = "early" => exists[m]
  /\ variant.releaseCheck = "mineEarly" => held[m] = p
EarlyDestroy(p, m) ==
  /\ variant.destroyCheck = "early" => exists[m]
  /\ variant.destroyCheck = "creator" => creator[m] = p

Enter(p, o, m, locks) ==
  /\ pc[p] = "user"
  /\ pc' = [pc EXCEPT ![p] = "calling"]
  /\ op' = [op EXCEPT ![p] = o]
  /\ mtx' = [mtx EXCEPT ![p] = m]
  /\ todo' = [todo EXCEPT ![p] = locks]
  /\ UNCHANGED <<mutexVars, lock, variant, has, abused>>

Swapped == <<"mutex", "table">>          \* mutant: the locks in the other order
ReleaseOrder == variant.releases

CallCreate(p) == \E m \in Mutexes : (variant.byName \/ m = Lowest(Mutexes)) /\ Enter(p, "create", m, <<"table">>)
CallAcquire(p) == \E m \in Mutexes : EarlyAcquire(p, m) /\ Enter(p, "acquire", m, variant.acquires)
CallRelease(p) == \E m \in Mutexes : EarlyRelease(p, m) /\ Enter(p, "release", m, ReleaseOrder)
CallDestroy(p) == \E m \in Mutexes : EarlyDestroy(p, m) /\ Enter(p, "destroy", m, variant.destroys)

(* acquire() of the next spinlock.                                             *)
Spin(p) ==
  /\ pc[p] = "calling" /\ todo[p] # <<>>
  /\ lock[Next_(p)] = Nobody
  /\ lock' = [lock EXCEPT ![Next_(p)] = p]
  /\ todo' = [todo EXCEPT ![p] = Tail(@)]
  /\ UNCHANGED <<mutexVars, pc, op, mtx, variant, has, abused>>

-----------------------------------------------------------------------------
Ready(p, o) == pc[p] = "calling" /\ todo[p] = <<>> /\ op[p] = o
Unlocked(p) == [l \in Locks |-> IF lock[l] = p THEN Nobody ELSE lock[l]]
Return(p) ==
  /\ pc' = [pc EXCEPT ![p] = "user"]
  /\ op' = [op EXCEPT ![p] = "none"]
  /\ lock' = Unlocked(p)

Choices(p) ==
  IF variant.byName THEN {mtx[p]} \ {m \in Mutexes : exists[m]}
  ELSE LET unused == {m \in Mutexes : ~exists[m]} IN IF unused = {} THEN {} ELSE {Lowest(unused)}

(* The first unused mutex, or the one of that name; -1 if there is none.       *)
Create(p) ==
  /\ Ready(p, "create")
  /\ \/ \E m \in Choices(p) :
          /\ exists' = [exists EXCEPT ![m] = TRUE]
          /\ creator' = [creator EXCEPT ![m] = p]
          /\ held' = IF variant.createClears THEN [held EXCEPT ![m] = Nobody] ELSE held
          /\ lock' = IF variant.createResetsLock THEN [Unlocked(p) EXCEPT ![m] = Nobody]
                     ELSE Unlocked(p)
     \/ Choices(p) = {} /\ lock' = Unlocked(p) /\ UNCHANGED mutexVars
  /\ pc' = [pc EXCEPT ![p] = "user"]
  /\ op' = [op EXCEPT ![p] = "none"]
  /\ UNCHANGED <<mtx, todo, variant, has, abused>>

(* acquire finds that the mutex does not exist, ...                            *)
NotChecked(p) == FALSE                   \* mutant: not looked at again after sleep()
Missing(p) == variant.acquireCheck \in {"probe", "first", "loop"} /\ ~exists[mtx[p]]

AcquireFail(p) ==
  /\ Ready(p, "acquire") /\ Missing(p)
  /\ Return(p)
  /\ UNCHANGED <<mutexVars, mtx, todo, variant, has, abused>>

(* ... or (anmol_vatsa) that it does, and changes from one lock to the other,  *)
Probe(p) ==
  /\ Ready(p, "acquire") /\ ~Missing(p) /\ variant.acquireCheck = "probe"
  /\ op' = [op EXCEPT ![p] = "lock"]
  /\ todo' = [todo EXCEPT ![p] = <<"mutex">>]
  /\ lock' = Unlocked(p)
  /\ UNCHANGED <<mutexVars, pc, mtx, variant, has, abused>>

(* ... and then sleeps while it is held, or takes it. After a sleep only the   *)
(* check of the loop is made again.                                            *)
Looking(p) ==
  \/ Ready(p, "lock")
  \/ Ready(p, "acquire") /\ ~Missing(p) /\ variant.acquireCheck # "probe"

AcquireSleep(p) ==
  /\ Looking(p) /\ held[mtx[p]] # Nobody
  /\ pc' = [pc EXCEPT ![p] = "asleep"]
  /\ op' = [op EXCEPT ![p] = IF variant.acquireCheck = "loop" THEN "acquire" ELSE "lock"]
  /\ lock' = Unlocked(p)
  /\ UNCHANGED <<mutexVars, mtx, todo, variant, has, abused>>

NotTested(p) == TRUE                     \* mutant: the flag is not looked at
Free(p) == held[mtx[p]] = Nobody

AcquireTake(p) ==
  /\ Looking(p) /\ Free(p)
  /\ held' = [held EXCEPT ![mtx[p]] = p]
  /\ has' = [has EXCEPT ![mtx[p]] = @ \cup {p}]
  /\ Return(p)
  /\ UNCHANGED <<exists, creator, mtx, todo, variant, abused>>

(* wakeup() of the processes asleep on m; they loop and take their locks again.*)
NobodyWoken(m) == {}                     \* mutant: release without wakeup
Sleepers(m) == {q \in Procs : pc[q] = "asleep" /\ mtx[q] = m}

ReleaseRefused(p) ==
  \/ variant.releaseCheck \in {"locked", "lockedHeld", "mine"} /\ ~exists[mtx[p]]
  \/ variant.releaseCheck \in {"held", "lockedHeld"} /\ held[mtx[p]] = Nobody
  \/ variant.releaseCheck = "mine" /\ held[mtx[p]] # p

ReleaseFail(p) ==
  /\ Ready(p, "release") /\ ReleaseRefused(p)
  /\ Return(p)
  /\ UNCHANGED <<mutexVars, mtx, todo, variant, has, abused>>

Release(p) ==
  /\ Ready(p, "release") /\ ~ReleaseRefused(p)
  /\ held' = [held EXCEPT ![mtx[p]] = Nobody]
  /\ LET woken == IF variant.lateWakeup THEN {} ELSE Sleepers(mtx[p])
     IN /\ pc' = [q \in Procs |-> IF q \in woken THEN "calling"
                                  ELSE IF q # p THEN pc[q]
                                  ELSE IF variant.lateWakeup THEN "waking" ELSE "user"]
        /\ todo' = [q \in Procs |-> IF q \in woken THEN variant.relocks ELSE todo[q]]
  /\ op' = [op EXCEPT ![p] = "none"]
  /\ lock' = Unlocked(p)
  /\ has' = [has EXCEPT ![mtx[p]] = @ \ {p}]
  /\ abused' = [abused EXCEPT ![mtx[p]] = @ \/ held[mtx[p]] \notin {p, Nobody}]
  /\ UNCHANGED <<exists, creator, mtx, variant>>

(* willghatch calls wakeup() when the spinlock is released already.            *)
LateWakeup(p) ==
  /\ pc[p] = "waking"
  /\ pc' = [q \in Procs |-> IF q \in Sleepers(mtx[p]) THEN "calling" ELSE IF q = p THEN "user" ELSE pc[q]]
  /\ todo' = [q \in Procs |-> IF q \in Sleepers(mtx[p]) THEN variant.relocks ELSE todo[q]]
  /\ UNCHANGED <<mutexVars, lock, op, mtx, variant, has, abused>>

DestroyRefused(p) ==
  \/ variant.destroyCheck \in {"locked", "free"} /\ ~exists[mtx[p]]
  \/ variant.destroyCheck = "free" /\ held[mtx[p]] # Nobody

DestroyFail(p) ==
  /\ Ready(p, "destroy") /\ DestroyRefused(p)
  /\ Return(p)
  /\ UNCHANGED <<mutexVars, mtx, todo, variant, has, abused>>

(* destroy does not look for sleepers. In assignment4/ it also clears the      *)
(* holder.                                                                     *)
Destroy(p) ==
  /\ Ready(p, "destroy") /\ ~DestroyRefused(p)
  /\ exists' = [exists EXCEPT ![mtx[p]] = FALSE]
  /\ creator' = [creator EXCEPT ![mtx[p]] = Nobody]
  /\ held' = IF variant.destroyClears THEN [held EXCEPT ![mtx[p]] = Nobody] ELSE held
  /\ abused' = [abused EXCEPT ![mtx[p]] = @ \/ held[mtx[p]] # Nobody]
  /\ Return(p)
  /\ UNCHANGED <<mtx, todo, variant, has>>

(* kill() wakes a sleeper, which finds the mutex held and sleeps again; and a  *)
(* process may exit with mutexes held: nothing releases them.                  *)
Kill(q) ==
  /\ pc[q] = "asleep"
  /\ pc' = [pc EXCEPT ![q] = "calling"]
  /\ todo' = [todo EXCEPT ![q] = variant.relocks]
  /\ UNCHANGED <<mutexVars, lock, op, mtx, variant, has, abused>>

Exit(p) ==
  /\ pc[p] = "user"
  /\ pc' = [pc EXCEPT ![p] = "gone"]
  /\ UNCHANGED <<mutexVars, lock, op, mtx, todo, variant, has, abused>>

Step(p) ==
  \/ CallCreate(p) \/ CallAcquire(p) \/ CallRelease(p) \/ CallDestroy(p) \/ Spin(p)
  \/ Create(p) \/ AcquireFail(p) \/ Probe(p) \/ AcquireSleep(p) \/ AcquireTake(p)
  \/ ReleaseFail(p) \/ Release(p) \/ LateWakeup(p) \/ DestroyFail(p) \/ Destroy(p)
  \/ Kill(p) \/ Exit(p)

Next == \E p \in Procs : Step(p)
Spec == Init /\ [][Next]_vars

-----------------------------------------------------------------------------
TypeOK ==
  /\ exists \in [Mutexes -> BOOLEAN]
  /\ creator \in [Mutexes -> Procs \cup {Nobody}]
  /\ held \in [Mutexes -> Procs \cup {Nobody}]
  /\ lock \in [Locks -> Procs \cup {Nobody}]
  /\ pc \in [Procs -> {"user", "calling", "asleep", "waking", "gone"}]
  /\ op \in [Procs -> {"none", "create", "acquire", "lock", "release", "destroy"}]
  /\ mtx \in [Procs -> Mutexes]
  /\ todo \in [Procs -> Seq({"mutex", "table"})]
  /\ variant \in Variants
  /\ has \in [Mutexes -> SUBSET Procs]
  /\ abused \in [Mutexes -> BOOLEAN]

(* No two processes are between a successful acquire and their release of one  *)
(* mutex, unless a process without it released it or it was destroyed while    *)
(* held; in no order of calls, failed calls, kills and re-creations.           *)
Exclusion == \A m \in Mutexes : \A p, q \in has[m] : p = q \/ abused[m]

(* Nobody sleeps on a mutex that is free, but for a wakeup on its way; a       *)
(* destroy that clears the holder (assignment4/) leaves its waiters asleep.    *)
NoSleepOnFree ==
  \A p \in Procs : pc[p] = "asleep" =>
    \/ held[mtx[p]] # Nobody
    \/ \E q \in Procs : pc[q] = "waking" /\ mtx[q] = mtx[p]
    \/ variant.destroyClears /\ abused[mtx[p]]

(* Two processes never spin for each other's spinlock with interrupts off, but *)
(* for one that is back from the sleep of anthonyw's mutex_acquire and another:*)
(* whoever takes its locks for the first time does so in the common order.     *)
SpinsFor(p, q) == pc[p] = "calling" /\ todo[p] # <<>> /\ lock[Next_(p)] = q
Relocks(p) == variant.relocks = <<"mutex", "table">> /\ op[p] = "lock"
NoSpinDeadlock ==
  \A p, q \in Procs : SpinsFor(p, q) /\ SpinsFor(q, p) => Relocks(p) \/ Relocks(q)

(* A mutex that is held exists, where the loop of acquire looks again after    *)
(* each sleep and destroy refuses a held mutex: none is created with a holder. *)
HeldExists ==
  \A m \in Mutexes : held[m] # Nobody =>
    \/ exists[m]
    \/ abused[m]
    \/ variant.acquireCheck # "loop"
==============================================================================
