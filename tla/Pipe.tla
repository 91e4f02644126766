-------------------------------- MODULE Pipe --------------------------------
(* The pipe of assignment 1 (<student>/assignment1/pipe.c): a struct pipe on   *)
(* one page, shared by processes on several processors, guarded by p->lock,   *)
(* with sleep() on the addresses of the two counters. Every student keeps the *)
(* control of xv6 and replaces its byte-at-a-time loops by block copies; what *)
(* differs is how many bytes one iteration moves, the variable policy.        *)
EXTENDS Integers, Sequences

CONSTANTS
  Procs,         \* processes that may hold an end of the pipe
  NoProc,        \* "nobody": the owner of a free lock
  WriteHolders,  \* processes that hold the write end once pipe() and fork() are done
  ReadHolders,   \* processes that hold the read end then
  Killable,      \* processes that kill() may name
  PIPESIZE,      \* bytes in the ring
  UintMod,       \* number of values of a C uint: 2^32 in the code
  Policies,      \* block-copy policies, see PipeVariants
  Counts,        \* sizes n a process may pass to write() or read()
  MaxBytes,      \* bound: total bytes all write() calls may ask for
  MaxReads       \* bound: total read() calls

Policy == [write : {"split", "segment"}, read : {"split", "segment", "twoseg"}]

ASSUME ProcsAssumption ==
  /\ NoProc \notin Procs
  /\ WriteHolders \subseteq Procs /\ WriteHolders # {}
  /\ ReadHolders \subseteq Procs /\ ReadHolders # {}
  /\ Killable \subseteq Procs
ASSUME SizeAssumption ==
  /\ PIPESIZE \in Nat \ {0}
  /\ UintMod \in Nat /\ UintMod > PIPESIZE
ASSUME BoundsAssumption ==
  /\ Counts \subseteq Nat /\ MaxBytes \in Nat /\ MaxReads \in Nat
ASSUME PolicyAssumption == Policies \subseteq Policy

VARIABLES
  lock,       \* p->lock: the process that holds it, or NoProc
  nread,      \* p->nread
  nwrite,     \* p->nwrite
  data,       \* p->data
  readopen,   \* p->readopen
  writeopen,  \* p->writeopen
  freed,      \* the page of struct pipe went back to kalloc
  rfds, wfds, \* processes with a descriptor of the read, the write end
  killed,     \* processes with proc->killed set
  pc,         \* where each process is, see PCs
  n, i,       \* the arguments and locals of a process inside pipewrite/piperead
  policy,     \* the policy of the pipe.c under study
  fresh,      \* history: number of bytes of each process now in the stream, less i
  sent,       \* history: bytes copied in, in order
  got,        \* history: bytes copied out, in order
  asked,      \* bytes requested of write() so far, bounded by MaxBytes
  reads       \* read() calls so far, bounded by MaxReads

pipeVars == <<nread, nwrite, data, readopen, writeopen, freed>>
fileVars == <<rfds, wfds>>
boundVars == <<asked, reads>>
vars == <<lock, pipeVars, fileVars, killed, pc, n, i, policy, fresh, sent, got,
          boundVars>>

(* "user": outside pipe code. "writing"/"reading": at the head of the loop,   *)
(* lock held. "wsleep"/"rsleep": lock held, the test made, about to call      *)
(* sleep(). "wblocked"/"rblocked": SLEEPING on &nwrite or &nread.             *)
(* "wwoken"/"rwoken": runnable again, to re-acquire the lock inside sleep().  *)
Holding == {"writing", "wsleep", "reading", "rsleep"}
InWrite == {"writing", "wsleep", "wblocked", "wwoken"}
InRead  == {"reading", "rsleep", "rblocked", "rwoken"}
PCs == {"user"} \cup InWrite \cup InRead

Slots == 0 .. PIPESIZE - 1
Junk  == <<NoProc, 0>>       \* what a fresh page holds
Byte  == Procs \X (Nat \ {0})  \* <<p, k>>: the k-th byte of process p

Least(a, b) == IF a <= b THEN a ELSE b

Used  == (nwrite - nread) % UintMod
Empty == nread = nwrite
Full  == nwrite = (nread + PIPESIZE) % UintMod

-----------------------------------------------------------------------------
(* pipealloc(), after which pipe()'s descriptors are shared out by fork().    *)
Init ==
  /\ lock = NoProc
  /\ nread = 0 /\ nwrite = 0
  /\ data = [s \in Slots |-> Junk]
  /\ readopen = TRUE /\ writeopen = TRUE /\ freed = FALSE
  /\ rfds = ReadHolders /\ wfds = WriteHolders
  /\ killed = {}
  /\ pc = [p \in Procs |-> "user"]
  /\ n = [p \in Procs |-> 0] /\ i = [p \in Procs |-> 0]
  /\ policy \in Policies
  /\ fresh = [p \in Procs |-> 0]
  /\ sent = <<>> /\ got = <<>>
  /\ asked = 0 /\ reads = 0

(* wakeup(chan): every process SLEEPING on the channel becomes runnable, while *)
(* the caller p goes on at label to.                                           *)
Runnable == [wblocked |-> "wwoken", rblocked |-> "rwoken"]
Go(p, to) == pc' = [pc EXCEPT ![p] = to]

ReadersForgotten(chan, p, to) ==        \* mutant: wakeup(&p->nread) is missing
  pc' = [q \in Procs |-> IF q = p THEN to
                         ELSE IF pc[q] = chan /\ chan = "wblocked" THEN "wwoken"
                         ELSE pc[q]]
WritersForgotten(chan, p, to) ==        \* mutant: wakeup(&p->nwrite) is missing
  pc' = [q \in Procs |-> IF q = p THEN to
                         ELSE IF pc[q] = chan /\ chan = "rblocked" THEN "rwoken"
                         ELSE pc[q]]
WakeupAndGo(chan, p, to) ==
  pc' = [q \in Procs |-> IF q = p THEN to
                         ELSE IF pc[q] = chan THEN Runnable[chan] ELSE pc[q]]

(* Return from pipewrite or piperead to user space: the frame is gone, and the *)
(* bytes that p's call put in the stream are counted in fresh.                 *)
Return(p) ==
  /\ lock' = NoProc
  /\ n' = [n EXCEPT ![p] = 0]
  /\ i' = [i EXCEPT ![p] = 0]
  /\ fresh' = [fresh EXCEPT ![p] = @ + i[p]]

-----------------------------------------------------------------------------
(* One block copy of pipewrite: how many bytes, and where they land.           *)
RoomIgnored(p) == Least(PIPESIZE, n[p] - i[p])   \* mutant: unread bytes overwritten
WriteCount(p) ==
  LET count == Least(PIPESIZE - Used, n[p] - i[p])
  IN IF policy.write = "split" THEN count
     ELSE Least(count, PIPESIZE - (nwrite % PIPESIZE))

BufferStart(p, c) == [k \in 1 .. c |-> <<p, fresh[p] + k>>]  \* mutant: addr for addr + i
OneBefore(p, c) ==                                  \* mutant: addr + i - 1
  [k \in 1 .. c |-> <<p, fresh[p] + i[p] + k - 1>>]
UserBytes(p, c) == [k \in 1 .. c |-> <<p, fresh[p] + i[p] + k>>]

CopyIn(at, bytes) ==
  [s \in Slots |-> LET k == (s - at) % PIPESIZE
                   IN IF k < Len(bytes) THEN bytes[k + 1] ELSE data[s]]

(* What piperead copies out. "split": one block, in two parts when it wraps.   *)
(* "segment": only up to the end of the ring. "twoseg": up to the end, and, if *)
(* the counters say there is more, a second block.                             *)
CopyOut(at, c) == [k \in 1 .. c |-> data[(at + k - 1) % PIPESIZE]]

ShortSegment(p) ==                      \* mutant: the last slot of the ring left out
  Least(Least(Used, n[p]), PIPESIZE - 1 - (nread % PIPESIZE))
FirstSegment(p) == Least(Least(Used, n[p]), PIPESIZE - (nread % PIPESIZE))

SecondSegment(p) ==
  LET nr == FirstSegment(p)
      now == (nread + nr) % UintMod
  IN IF nr < n[p] /\ now < nwrite THEN Least(n[p] - nr, nwrite - now) ELSE 0

ReadBytes(p) ==
  CASE policy.read = "split"   -> CopyOut(nread % PIPESIZE, Least(Used, n[p]))
    [] policy.read = "segment" -> CopyOut(nread % PIPESIZE, FirstSegment(p))
    [] policy.read = "twoseg"  ->
         CopyOut(nread % PIPESIZE, FirstSegment(p))
           \o CopyOut(((nread + FirstSegment(p)) % UintMod) % PIPESIZE,
                      SecondSegment(p))

-----------------------------------------------------------------------------
(* pipewrite(p, addr, n). A killed process makes no new system call: trap()    *)
(* makes it exit first.                                                        *)
WriteCall(p) ==
  /\ pc[p] = "user" /\ p \in wfds /\ p \notin killed
  /\ lock = NoProc /\ lock' = p
  /\ \E c \in Counts :
       /\ asked + c <= MaxBytes
       /\ asked' = asked + c
       /\ n' = [n EXCEPT ![p] = c]
  /\ Go(p, "writing")
  /\ UNCHANGED <<pipeVars, fileVars, killed, i, policy, fresh, sent, got, reads>>

WriteCopy(p) ==
  /\ pc[p] = "writing" /\ i[p] < n[p] /\ ~Full
  /\ LET bytes == UserBytes(p, WriteCount(p))
     IN /\ data' = CopyIn(nwrite % PIPESIZE, bytes)
        /\ nwrite' = (nwrite + WriteCount(p)) % UintMod
        /\ i' = [i EXCEPT ![p] = @ + WriteCount(p)]
        /\ sent' = sent \o bytes
  /\ UNCHANGED <<lock, nread, readopen, writeopen, freed, fileVars, killed, pc, n,
                 policy, fresh, got, boundVars>>

(* Full: give up with -1 if nobody reads or the process was killed ...         *)
WriteFail(p) ==
  /\ pc[p] = "writing" /\ i[p] < n[p] /\ Full
  /\ ~readopen \/ p \in killed
  /\ Return(p)
  /\ Go(p, "user")
  /\ UNCHANGED <<pipeVars, fileVars, killed, policy, sent, got, boundVars>>

(* ... or wake the readers and call sleep(&p->nwrite, &p->lock).               *)
WriteWait(p) ==
  /\ pc[p] = "writing" /\ i[p] < n[p] /\ Full
  /\ readopen /\ p \notin killed
  /\ WakeupAndGo("rblocked", p, "wsleep")
  /\ UNCHANGED <<lock, pipeVars, fileVars, killed, n, i, policy, fresh, sent, got,
                 boundVars>>

WriteDone(p) ==
  /\ pc[p] = "writing" /\ i[p] = n[p]
  /\ Return(p)
  /\ WakeupAndGo("rblocked", p, "user")
  /\ UNCHANGED <<pipeVars, fileVars, killed, policy, sent, got, boundVars>>

(* piperead(p, addr, n).                                                       *)
ReadCall(p) ==
  /\ pc[p] = "user" /\ p \in rfds /\ p \notin killed
  /\ lock = NoProc /\ lock' = p
  /\ reads < MaxReads /\ reads' = reads + 1
  /\ \E c \in Counts : n' = [n EXCEPT ![p] = c]
  /\ Go(p, "reading")
  /\ UNCHANGED <<pipeVars, fileVars, killed, i, policy, fresh, sent, got, asked>>

ReadWait(p) ==
  /\ pc[p] = "reading" /\ Empty /\ writeopen /\ p \notin killed
  /\ Go(p, "rsleep")
  /\ UNCHANGED <<lock, pipeVars, fileVars, killed, n, i, policy, fresh, sent, got,
                 boundVars>>

ReadFail(p) ==
  /\ pc[p] = "reading" /\ Empty /\ writeopen /\ p \in killed
  /\ Return(p)
  /\ Go(p, "user")
  /\ UNCHANGED <<pipeVars, fileVars, killed, policy, sent, got, boundVars>>

ReadCopy(p) ==
  /\ pc[p] = "reading" /\ ~(Empty /\ writeopen)
  /\ got' = got \o ReadBytes(p)
  /\ nread' = (nread + Len(ReadBytes(p))) % UintMod
  /\ Return(p)
  /\ WakeupAndGo("wblocked", p, "user")
  /\ UNCHANGED <<nwrite, data, readopen, writeopen, freed, fileVars, killed, policy,
                 sent, boundVars>>

-----------------------------------------------------------------------------
(* sleep(chan, &p->lock) takes ptable.lock, and only then lets p->lock go and  *)
(* becomes SLEEPING: no wakeup or kill falls between the two, but a kill may   *)
(* fall between the caller's test and this step.                               *)
Sleep(p) ==
  /\ \/ pc[p] = "wsleep" /\ Go(p, "wblocked")
     \/ pc[p] = "rsleep" /\ Go(p, "rblocked")
  /\ lock' = NoProc
  /\ UNCHANGED <<pipeVars, fileVars, killed, n, i, policy, fresh, sent, got, boundVars>>

ReturnUnlocked(p) ==                    \* mutant: sleep() does not re-acquire
  /\ \/ pc[p] = "wwoken" /\ Go(p, "writing")
     \/ pc[p] = "rwoken" /\ Go(p, "reading")
  /\ UNCHANGED <<lock, pipeVars, fileVars, killed, n, i, policy, fresh, sent, got,
                 boundVars>>

(* The end of sleep(): take p->lock again and go back to the loop's test.      *)
SleepReturn(p) ==
  /\ \/ pc[p] = "wwoken" /\ Go(p, "writing")
     \/ pc[p] = "rwoken" /\ Go(p, "reading")
  /\ lock = NoProc /\ lock' = p
  /\ UNCHANGED <<pipeVars, fileVars, killed, n, i, policy, fresh, sent, got, boundVars>>

(* The end of pipeclose(): both flags clear, the page is freed.                *)
FreeAlways(otherOpen) == freed' = TRUE  \* mutant: the other end is not looked at
FreeIfLast(otherOpen) == freed' = ~otherOpen

(* close() by a process, or exit() of a killed one. fileclose() calls          *)
(* pipeclose() for the last descriptor of an end.                              *)
CloseWrite(p) ==
  /\ pc[p] = "user" /\ p \in wfds
  /\ wfds' = wfds \ {p}
  /\ IF wfds = {p}
     THEN /\ lock = NoProc
          /\ writeopen' = FALSE
          /\ WakeupAndGo("rblocked", p, "user")
          /\ FreeIfLast(readopen)
     ELSE UNCHANGED <<writeopen, pc, freed>>
  /\ UNCHANGED <<lock, nread, nwrite, data, readopen, rfds, killed, n, i, policy, fresh,
                 sent, got, boundVars>>

CloseRead(p) ==
  /\ pc[p] = "user" /\ p \in rfds
  /\ rfds' = rfds \ {p}
  /\ IF rfds = {p}
     THEN /\ lock = NoProc
          /\ readopen' = FALSE
          /\ WakeupAndGo("wblocked", p, "user")
          /\ FreeIfLast(writeopen)
     ELSE UNCHANGED <<readopen, pc, freed>>
  /\ UNCHANGED <<lock, nread, nwrite, data, writeopen, wfds, killed, n, i, policy, fresh,
                 sent, got, boundVars>>

(* kill(pid), from outside: set killed, and make the process runnable if it    *)
(* is SLEEPING.                                                                *)
Kill(p) ==
  /\ p \in Killable \ killed
  /\ killed' = killed \cup {p}
  /\ IF pc[p] \in DOMAIN Runnable THEN Go(p, Runnable[pc[p]]) ELSE UNCHANGED pc
  /\ UNCHANGED <<lock, pipeVars, fileVars, n, i, policy, fresh, sent, got, boundVars>>

(* A step the processors take by themselves, as opposed to a choice of a user. *)
Step(p) ==
  \/ WriteCopy(p) \/ WriteFail(p) \/ WriteWait(p) \/ WriteDone(p)
  \/ ReadWait(p) \/ ReadFail(p) \/ ReadCopy(p)
  \/ Sleep(p) \/ SleepReturn(p)

Next ==
  \E p \in Procs :
    \/ WriteCall(p) \/ ReadCall(p) \/ Step(p)
    \/ CloseWrite(p) \/ CloseRead(p) \/ Kill(p)

Spec == Init /\ [][Next]_vars

(* Each processor runs the kernel code of a runnable process: scheduler() goes *)
(* round the process table. Users owe nothing, so calls are not fair.          *)
FairSpec == Spec /\ \A p \in Procs : WF_vars(Step(p))

-----------------------------------------------------------------------------
(* Properties.                                                                 *)

RingType ==
  /\ nread \in 0 .. UintMod - 1 /\ nwrite \in 0 .. UintMod - 1
  /\ data \in [Slots -> Byte \cup {Junk}]
EndsType ==
  /\ readopen \in BOOLEAN /\ writeopen \in BOOLEAN /\ freed \in BOOLEAN
  /\ rfds \subseteq Procs /\ wfds \subseteq Procs /\ killed \subseteq Procs
FrameType ==
  /\ lock \in Procs \cup {NoProc}
  /\ pc \in [Procs -> PCs]
  /\ n \in [Procs -> Nat] /\ i \in [Procs -> Nat] /\ fresh \in [Procs -> Nat]
HistoryType ==
  /\ policy \in Policy
  /\ sent \in Seq(Byte) /\ got \in Seq(Byte \cup {Junk})
  /\ asked \in Nat /\ reads \in Nat
TypeOK == RingType /\ EndsType /\ FrameType /\ HistoryType

(* Mutual exclusion: exactly the holder of p->lock is between an acquire and   *)
(* the next release or sleep, in pipewrite (dongx pipe.c:86-118) and piperead. *)
MutualExclusion == \A p \in Procs : pc[p] \in Holding <=> lock = p

(* No lost wakeup: while nobody is working on the pipe, a reader is asleep     *)
(* only on an empty pipe that may still be written, and a writer only on a     *)
(* full pipe that may still be read. pipewrite wakes readers only before it    *)
(* sleeps or returns n, piperead and pipeclose wake once, so a forgotten or    *)
(* early wakeup would leave a sleeper beside work.                             *)
NoLostWakeup ==
  lock = NoProc =>
    \A p \in Procs : /\ pc[p] = "rblocked" => Empty /\ writeopen
                     /\ pc[p] = "wblocked" => Full /\ readopen

(* pipeclose frees the page only when no process is inside pipewrite or        *)
(* piperead, or could still get there: never under a sleeper that will lock    *)
(* p->lock again.                                                              *)
NoUseAfterFree ==
  freed => \A p \in Procs : pc[p] = "user" /\ p \notin rfds \cup wfds

(* The bytes of each writer enter the stream in the order of its buffer, none  *)
(* twice and none skipped, however many blocks its calls were cut into and     *)
(* whoever wrote in between: the stream holds the first fresh + i bytes of     *)
(* each process, no others, and those of one process in ascending order.       *)
Taken(p) == 1 .. fresh[p] + i[p]
WriterOrder ==
  /\ \A p \in Procs : \A k \in Taken(p) : \E j \in DOMAIN sent : sent[j] = <<p, k>>
  /\ \A j \in DOMAIN sent : sent[j][2] \in Taken(sent[j][1])
  /\ \A j, l \in DOMAIN sent : j < l /\ sent[j][1] = sent[l][1] => sent[j][2] < sent[l][2]

(* piperead returns no bytes for n > 0 only at the end of the file: the last   *)
(* writer is gone and every byte was read (or the reader was killed).          *)
EndOfFileIsFinal ==
  [][\A p \in Procs :
       pc[p] = "reading" /\ pc'[p] = "user" /\ n[p] > 0 /\ got' = got /\ p \notin killed
         => ~writeopen /\ got = sent]_vars

(* The pipe implements the bounded byte stream: readers receive exactly the    *)
(* bytes written, in order, through the ring and its wrapping counters.        *)
Stream == INSTANCE ByteStream
            WITH Capacity <- PIPESIZE, wopen <- writeopen, ropen <- readopen
IsByteStream == Stream!StreamSpec

(* A reader that is asleep for ever sleeps on a pipe that stays empty and open *)
(* for writing: data or the end of file always gets through to it.             *)
ReaderServed ==
  \A p \in Procs : <>[](pc[p] = "rblocked") => <>[](Empty /\ writeopen)

(* A writer that is asleep for ever sleeps on a pipe that stays full and open  *)
(* for reading.                                                                *)
WriterServed ==
  \A p \in Procs : <>[](pc[p] = "wblocked") => <>[](Full /\ readopen)

(* Nobody sleeps for ever beside work it could do.                             *)
Served == ReaderServed /\ WriterServed

(* Closing an end lets everybody out who waits for the other side.             *)
CloseReleases ==
  \A p \in Procs : /\ (pc[p] \in InRead /\ ~writeopen) ~> (pc[p] = "user")
                   /\ (pc[p] \in InWrite /\ ~readopen) ~> (pc[p] = "user")
=============================================================================
