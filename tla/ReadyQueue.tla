----------------------------- MODULE ReadyQueue -----------------------------
(* The ready queue of assignment 2 as each student's proc.c links it through   *)
(* struct proc: processes are added at one end and taken from the other. All   *)
(* students keep a pointer to either end and a link from each process to the   *)
(* next younger one (next or prev, as they see it); links the other way are    *)
(* written but never read, and left out. A sentinel counts as a null pointer.  *)
(* ptable.lock makes each operation one step.                                  *)
EXTENDS Integers, Sequences

CONSTANTS
  Procs,    \* slots of the process table
  NoProc,   \* the null pointer, or the sentinel that stands for it
  Variants  \* the students' queues, see QueueVariants

(* test: what the put looks at to tell whether there is an older process to    *)
(* link from: one pointer, both, or (each) last for the link and first for     *)
(* itself. end: how the get sees that the process was the only one: first =    *)
(* last, clearing both pointers (only) or last alone (same), or a null link    *)
(* (end). putClears, getClears: when the link of a process is made null.       *)
QueueVariant ==
  [test : {"first", "last", "both", "each"}, end : {"only", "same", "end"},
   putClears : BOOLEAN, getClears : {"always", "ifmore", "never"}]

ASSUME NoProcAssumption == NoProc \notin Procs
ASSUME QueueVariantAssumption ==
  /\ Variants \subseteq QueueVariant
  /\ \A v \in Variants : v.putClears \/ v.getClears # "never"

VARIABLES
  first,    \* the oldest process, next to run
  last,     \* the youngest
  link,     \* from each process to the next younger one
  variant,  \* the queue under study
  waiting   \* history: processes put and not yet handed out, oldest first

vars == <<first, last, link, variant, waiting>>

Queued == {waiting[k] : k \in DOMAIN waiting}

(* pinit(), over a process table that is all zero.                             *)
Init ==
  /\ first = NoProc /\ last = NoProc
  /\ link = [p \in Procs |-> NoProc]
  /\ variant \in Variants
  /\ waiting = <<>>

HasOlder ==
  CASE variant.test = "first"            -> first # NoProc
    [] variant.test \in {"last", "each"} -> last # NoProc
    [] variant.test = "both"             -> first # NoProc \/ last # NoProc
IsFirst == IF variant.test = "each" THEN first = NoProc ELSE ~HasOlder

PutKeepsLink == FALSE                   \* mutant: the old link is left in place
PutClears == variant.putClears

(* A process that is not in the queue becomes RUNNABLE.                        *)
Put(p) ==
  /\ p \in Procs \ Queued
  /\ first' = IF IsFirst THEN p ELSE first
  /\ last' = p
  /\ link' = [q \in Procs |-> IF q = p /\ PutClears THEN NoProc
                              ELSE IF HasOlder /\ q = last THEN p ELSE link[q]]
  /\ waiting' = Append(waiting, p)
  /\ UNCHANGED variant

Alone == IF variant.end = "end" THEN link[first] = NoProc ELSE first = last
FirstAfter == IF variant.end = "only" /\ Alone THEN NoProc ELSE link[first]

LastKept == last                        \* mutant: the other pointer is forgotten
LastAfter == IF Alone THEN NoProc ELSE last

GetClears ==
  \/ variant.getClears = "always"
  \/ variant.getClears = "ifmore" /\ ~Alone

(* The queue without process p, in the same order.                             *)
Without(p) ==
  LET at == CHOOSE k \in DOMAIN waiting : waiting[k] = p
  IN [k \in 1 .. Len(waiting) - 1 |-> IF k < at THEN waiting[k] ELSE waiting[k + 1]]

(* The scheduler takes the first process, if there is one.                     *)
Get ==
  /\ first # NoProc
  /\ first' = FirstAfter
  /\ last' = LastAfter
  /\ link' = IF GetClears THEN [link EXCEPT ![first] = NoProc] ELSE link
  /\ waiting' = Without(first)
  /\ UNCHANGED variant

Next == Get \/ \E p \in Procs : Put(p)

Spec == Init /\ [][Next]_vars

-----------------------------------------------------------------------------
(* Properties.                                                                 *)

TypeOK ==
  /\ first \in Procs \cup {NoProc} /\ last \in Procs \cup {NoProc}
  /\ link \in [Procs -> Procs \cup {NoProc}]
  /\ variant \in Variants
  /\ waiting \in Seq(Procs)

(* The pointers hold the queue: first and last are its ends, null together     *)
(* (willghatch proc.c:23 and pdarragh proc.c:44 panic otherwise), the links    *)
(* lead through it, and a process outside keeps a stale link only if putting   *)
(* it back clears the link.                                                    *)
WellLinked ==
  /\ TypeOK
  /\ waiting = <<>> => first = NoProc /\ last = NoProc
  /\ waiting # <<>> => first = waiting[1] /\ last = waiting[Len(waiting)]
  /\ \A k \in DOMAIN waiting :
       link[waiting[k]] = IF k = Len(waiting) THEN NoProc ELSE waiting[k + 1]
  /\ \A p \in Procs \ Queued : link[p] = NoProc \/ variant.putClears

(* The linked queue is a first-in first-out queue.                             *)
Queue == INSTANCE Fifo
IsFifo == Queue!FifoSpec
=============================================================================
