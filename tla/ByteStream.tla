----------------------------- MODULE ByteStream -----------------------------
(* What a pipe promises, whatever its implementation does with a ring buffer, *)
(* a lock and sleeping processes: one bounded first-in first-out stream of    *)
(* bytes with a write end and a read end that are each closed once.           *)
EXTENDS Integers, Sequences

CONSTANTS Byte,      \* the bytes processes write
          Capacity   \* how many unread bytes the pipe can hold

VARIABLES sent,   \* every byte accepted so far, in order
          got,    \* every byte handed to a reader so far, in order
          wopen,  \* the write end is open
          ropen   \* the read end is open

sVars == <<sent, got, wopen, ropen>>

Pending == Len(sent) - Len(got)

StreamInit ==
  /\ sent = <<>> /\ got = <<>>
  /\ wopen = TRUE /\ ropen = TRUE

(* Accept some bytes. The read end need not be open: a write only finds out   *)
(* that nobody reads when the pipe is full.                                   *)
Put ==
  /\ wopen
  /\ sent' \in Seq(Byte)
  /\ Len(sent') - Len(sent) \in 1 .. (Capacity - Pending)
  /\ SubSeq(sent', 1, Len(sent)) = sent
  /\ UNCHANGED <<got, wopen, ropen>>

(* Hand over the oldest unread bytes.                                         *)
Get ==
  /\ ropen
  /\ \E k \in 1 .. Pending : got' = SubSeq(sent, 1, Len(got) + k)
  /\ UNCHANGED <<sent, wopen, ropen>>

CloseWriteEnd == wopen /\ wopen' = FALSE /\ UNCHANGED <<sent, got, ropen>>
CloseReadEnd  == ropen /\ ropen' = FALSE /\ UNCHANGED <<sent, got, wopen>>

StreamNext == Put \/ Get \/ CloseWriteEnd \/ CloseReadEnd

StreamSpec == StreamInit /\ [][StreamNext]_sVars
=============================================================================
