------------------------------ MODULE AudioFifo ------------------------------
(***************************************************************************)
(* af-buffer.c: the byte FIFO between the network task, which calls        *)
(* audio_buffer_write, and the decoder task, which calls audio_buffer_read.*)
(*                                                                         *)
(* The two tasks are preemptive FreeRTOS tasks, so every statement that    *)
(* touches shared state is a step of its own: the chunk size is computed   *)
(* before the mutex is taken, `buf_fill -= n` loads and stores in separate *)
(* steps, the semaphore is given after the mutex.  A byte is its index in  *)
(* the stream.  Semaphores are FreeRTOS binary semaphores: a give to a     *)
(* full one is dropped, and a new one is full whatever initial value was   *)
(* asked for.                                                              *)
(***************************************************************************)
EXTENDS Integers, Sequences

CONSTANTS SPIRAMSIZE,     \* bytes of storage
          SPIREADSIZE,    \* most bytes one locked transfer moves
          FIFO_LOWMARK,   \* a dry reader waits only below this fill
          ReadLens,       \* lengths the decoder asks for
          WriteLens,      \* lengths the network task delivers
          MaxBytes        \* bound: bytes the network task writes in all

\* The watermark is not below a transfer (112 KiB, and 64 bytes, in the code).
ASSUME SizeAssumption ==
  /\ SPIRAMSIZE \in Nat \ {0} /\ SPIREADSIZE \in Nat \ {0}
  /\ FIFO_LOWMARK \in Nat /\ FIFO_LOWMARK >= SPIREADSIZE

ASSUME LenAssumption ==
  /\ ReadLens \subseteq Nat /\ WriteLens \subseteq Nat
  /\ MaxBytes \in Nat

VARIABLES
  buffer, buf_read_pos, buf_write_pos, buf_fill,
  buf_underflow_count, buf_overflow_count,
  sem_read, sem_write,    \* tokens in the two binary semaphores
  mux,                    \* who holds the mutex, or "free"
  rpc, rlen, rn, racc, rchunk,   \* audio_buffer_read: step and locals
  wpc, wlen, wn, wacc,           \* audio_buffer_write: step and locals
  received,               \* history: every byte the decoder has got
  written                 \* history: bytes the network task has put

store == <<buffer, buf_read_pos, buf_write_pos, buf_fill>>
sync  == <<sem_read, sem_write, mux>>
count == <<buf_underflow_count, buf_overflow_count>>
rvars == <<rpc, rlen, rn, racc, rchunk>>
wvars == <<wpc, wlen, wn, wacc>>
hist  == <<received, written>>
vars  == <<store, sync, count, rvars, wvars, hist>>

Slots == 0..(SPIRAMSIZE - 1)

\* The slot i places after slot p, round the end of the storage.
Slot(p, i) == IF p + i >= SPIRAMSIZE THEN p + i - SPIRAMSIZE ELSE p + i

\* The size of one transfer: no more than asked for, than SPIREADSIZE, and
\* than what is left before the end of the storage.
ChunkSize(len, pos) ==
  LET n == IF len > SPIREADSIZE THEN SPIREADSIZE ELSE len
  IN  IF n > SPIRAMSIZE - pos THEN SPIRAMSIZE - pos ELSE n

\* The cursor after a transfer of n bytes at pos.
Advance(pos, n) == IF pos + n >= SPIRAMSIZE THEN 0 ELSE pos + n

\* vSemaphoreCreateBinary gives the semaphore it has made.
util_create_semaphore(value) == 1

----------------------------------------------------------------------------
(* audio_buffer_read: the decoder task.                                    *)

ReadCall == \E len \in ReadLens :
  /\ rpc = "idle"
  /\ rpc' = "size" /\ rlen' = len
  /\ UNCHANGED <<store, sync, count, rn, racc, rchunk, wvars, hist>>

\* while (len > 0) and the unlocked computation of n
ReadSize ==
  /\ rpc = "size"
  /\ IF rlen > 0 THEN rpc' = "lock" /\ rn' = ChunkSize(rlen, buf_read_pos)
                 ELSE rpc' = "idle" /\ UNCHANGED rn
  /\ UNCHANGED <<store, sync, count, rlen, racc, rchunk, wvars, hist>>

\* Mutant: the mutex is not waited for.
ReadLock_NoMutex ==
  /\ rpc = "lock"
  /\ mux' = "reader" /\ rpc' = "test"
  /\ UNCHANGED <<store, sem_read, sem_write, count, rlen, rn, racc, rchunk, wvars, hist>>

ReadLock ==
  /\ rpc = "lock" /\ mux = "free"
  /\ mux' = "reader" /\ rpc' = "test"
  /\ UNCHANGED <<store, sem_read, sem_write, count, rlen, rn, racc, rchunk, wvars, hist>>

ReadShort ==
  /\ rpc = "test" /\ buf_fill < rn
  /\ buf_underflow_count' = buf_underflow_count + 1
  /\ rpc' = "dry_unlock"
  /\ UNCHANGED <<store, sync, buf_overflow_count, rlen, rn, racc, rchunk, wvars, hist>>

ReadShortUnlock ==
  /\ rpc = "dry_unlock"
  /\ mux' = "free" /\ rpc' = "dry"
  /\ UNCHANGED <<store, sem_read, sem_write, count, rlen, rn, racc, rchunk, wvars, hist>>

\* Mutant: a dry reader looks again without waiting.
ReadLowmark_Poll ==
  /\ rpc = "dry" /\ rpc' = "size"
  /\ UNCHANGED <<store, sync, count, rlen, rn, racc, rchunk, wvars, hist>>

\* buf_fill is read here without the mutex
ReadLowmark ==
  /\ rpc = "dry"
  /\ rpc' = IF buf_fill < FIFO_LOWMARK THEN "wait" ELSE "size"
  /\ UNCHANGED <<store, sync, count, rlen, rn, racc, rchunk, wvars, hist>>

ReadWait ==
  /\ rpc = "wait" /\ sem_read = 1
  /\ sem_read' = 0 /\ rpc' = "size"
  /\ UNCHANGED <<store, sem_write, mux, count, rlen, rn, racc, rchunk, wvars, hist>>

\* spi_ram_read, and the load of buf_fill that `buf_fill -= n` starts with
ReadCopy ==
  /\ rpc = "test" /\ buf_fill >= rn
  /\ rchunk' = [i \in 1..rn |-> buffer[buf_read_pos + i - 1]]
  /\ racc' = buf_fill
  /\ rpc' = "commit"
  /\ UNCHANGED <<store, sync, count, rlen, rn, wvars, hist>>

ReadCommit ==
  /\ rpc = "commit"
  /\ received' = received \o rchunk
  /\ rlen' = rlen - rn
  /\ buf_fill' = racc - rn
  /\ buf_read_pos' = Advance(buf_read_pos, rn)
  /\ rpc' = "unlock"
  /\ UNCHANGED <<buffer, buf_write_pos, sync, count, rn, racc, rchunk, wvars, written>>

ReadUnlock ==
  /\ rpc = "unlock"
  /\ mux' = "free" /\ rpc' = "give"
  /\ UNCHANGED <<store, sem_read, sem_write, count, rlen, rn, racc, rchunk, wvars, hist>>

\* Mutant: the writer is told of room only when the storage was full.
ReadGive_IfFull ==
  /\ rpc = "give"
  /\ sem_write' = (IF buf_fill + rn = SPIRAMSIZE THEN 1 ELSE sem_write)
  /\ rpc' = "size"
  /\ UNCHANGED <<store, sem_read, mux, count, rlen, rn, racc, rchunk, wvars, hist>>

ReadGive ==
  /\ rpc = "give"
  /\ sem_write' = 1 /\ rpc' = "size"
  /\ UNCHANGED <<store, sem_read, mux, count, rlen, rn, racc, rchunk, wvars, hist>>

----------------------------------------------------------------------------
(* audio_buffer_write: the network task.                                   *)

WriteCall == \E len \in WriteLens :
  /\ wpc = "idle" /\ written + len <= MaxBytes
  /\ wpc' = "size" /\ wlen' = len
  /\ UNCHANGED <<store, sync, count, rvars, wn, wacc, hist>>

WriteSize ==
  /\ wpc = "size"
  /\ IF wlen > 0 THEN wpc' = "lock" /\ wn' = ChunkSize(wlen, buf_write_pos)
                 ELSE wpc' = "idle" /\ UNCHANGED wn
  /\ UNCHANGED <<store, sync, count, rvars, wlen, wacc, hist>>

\* Mutant: the mutex is not waited for.
WriteLock_NoMutex ==
  /\ wpc = "lock"
  /\ mux' = "writer" /\ wpc' = "test"
  /\ UNCHANGED <<store, sem_read, sem_write, count, rvars, wlen, wn, wacc, hist>>

WriteLock ==
  /\ wpc = "lock" /\ mux = "free"
  /\ mux' = "writer" /\ wpc' = "test"
  /\ UNCHANGED <<store, sem_read, sem_write, count, rvars, wlen, wn, wacc, hist>>

WriteShort ==
  /\ wpc = "test" /\ SPIRAMSIZE - buf_fill < wn
  /\ buf_overflow_count' = buf_overflow_count + 1
  /\ wpc' = "dry_unlock"
  /\ UNCHANGED <<store, sync, buf_underflow_count, rvars, wlen, wn, wacc, hist>>

WriteShortUnlock ==
  /\ wpc = "dry_unlock"
  /\ mux' = "free" /\ wpc' = "wait"
  /\ UNCHANGED <<store, sem_read, sem_write, count, rvars, wlen, wn, wacc, hist>>

\* the wait, and the yield after it, which leaves no trace here
WriteWait ==
  /\ wpc = "wait" /\ sem_write = 1
  /\ sem_write' = 0 /\ wpc' = "size"
  /\ UNCHANGED <<store, sem_read, mux, count, rvars, wlen, wn, wacc, hist>>

\* spi_ram_write, and the load of buf_fill that `buf_fill += n` starts with
WriteCopy ==
  /\ wpc = "test" /\ SPIRAMSIZE - buf_fill >= wn
  /\ buffer' = [s \in Slots |-> IF s \in buf_write_pos..(buf_write_pos + wn - 1)
                                THEN written + (s - buf_write_pos) ELSE buffer[s]]
  /\ wacc' = buf_fill
  /\ wpc' = "commit"
  /\ UNCHANGED <<buf_read_pos, buf_write_pos, buf_fill, sync, count, rvars, wlen, wn, hist>>

WriteCommit ==
  /\ wpc = "commit"
  /\ written' = written + wn
  /\ wlen' = wlen - wn
  /\ buf_fill' = wacc + wn
  /\ buf_write_pos' = Advance(buf_write_pos, wn)
  /\ wpc' = "unlock"
  /\ UNCHANGED <<buffer, buf_read_pos, sync, count, rvars, wn, wacc, received>>

WriteUnlock ==
  /\ wpc = "unlock"
  /\ mux' = "free" /\ wpc' = "give"
  /\ UNCHANGED <<store, sem_read, sem_write, count, rvars, wlen, wn, wacc, hist>>

\* Mutant: the reader is told of bytes only when the storage was empty.
WriteGive_IfEmpty ==
  /\ wpc = "give"
  /\ sem_read' = (IF buf_fill = wn THEN 1 ELSE sem_read) /\ wpc' = "size"
  /\ UNCHANGED <<store, sem_write, mux, count, rvars, wlen, wn, wacc, hist>>

WriteGive ==
  /\ wpc = "give"
  /\ sem_read' = 1 /\ wpc' = "size"
  /\ UNCHANGED <<store, sem_write, mux, count, rvars, wlen, wn, wacc, hist>>

----------------------------------------------------------------------------
\* audio_buffer_init
Init ==
  /\ buf_read_pos = 0 /\ buf_write_pos = 0 /\ buf_fill = 0
  /\ buf_overflow_count = 0 /\ buf_underflow_count = 0
  /\ sem_read = util_create_semaphore(0) /\ sem_write = util_create_semaphore(0)
  /\ mux = "free"
  /\ buffer = [s \in Slots |-> 0]
  /\ rpc = "idle" /\ rlen = 0 /\ rn = 0 /\ racc = 0 /\ rchunk = << >>
  /\ wpc = "idle" /\ wlen = 0 /\ wn = 0 /\ wacc = 0
  /\ received = << >> /\ written = 0

Reader == \/ ReadCall \/ ReadSize \/ ReadLock \/ ReadShort \/ ReadShortUnlock
          \/ ReadLowmark \/ ReadWait \/ ReadCopy \/ ReadCommit \/ ReadUnlock
          \/ ReadGive

\* The steps of a write already called.
Writing == \/ WriteSize \/ WriteLock \/ WriteShort \/ WriteShortUnlock
           \/ WriteWait \/ WriteCopy \/ WriteCommit \/ WriteUnlock \/ WriteGive

Next == Reader \/ WriteCall \/ Writing

Spec == Init /\ [][Next]_vars

\* Both tasks are scheduled: the decoder (lower priority) runs whenever the
\* network task blocks, and it calls audio_buffer_read again after every
\* frame.  Nothing makes the network deliver, so WriteCall is not fair.
FairSpec == Spec /\ WF_vars(Reader) /\ WF_vars(Writing)

----------------------------------------------------------------------------
(* Properties.                                                             *)

ReaderSteps == {"idle", "size", "lock", "test", "dry_unlock", "dry", "wait",
                "commit", "unlock", "give"}
WriterSteps == ReaderSteps \ {"dry"}

\* The variables hold what the C declarations and the loops can put there;
\* the cursors stay inside the storage and the fill inside its size.
TypeOK ==
  /\ buffer \in [Slots -> Nat]
  /\ buf_read_pos \in Slots /\ buf_write_pos \in Slots
  /\ buf_fill \in 0..SPIRAMSIZE
  /\ buf_underflow_count \in Nat /\ buf_overflow_count \in Nat
  /\ sem_read \in 0..1 /\ sem_write \in 0..1
  /\ mux \in {"free", "reader", "writer", "client"}
  /\ rpc \in ReaderSteps /\ rlen \in Nat /\ rn \in 0..SPIREADSIZE
  /\ racc \in 0..SPIRAMSIZE /\ rchunk \in Seq(Nat)
  /\ wpc \in WriterSteps /\ wlen \in Nat /\ wn \in 0..SPIREADSIZE
  /\ wacc \in 0..SPIRAMSIZE
  /\ received \in Seq(Nat) /\ written \in Nat

\* The decoder gets the stream itself: byte k is the k-th it receives, none
\* lost, duplicated, reordered or overwritten before it was read, however
\* the two tasks preempt one another inside audio_buffer_read and _write.
StreamIntact == \A i \in 1..Len(received) : received[i] = i - 1

\* The chunk size, computed before the mutex is taken, is still right when
\* the copy uses it: a copy never runs off the end of the storage and never
\* moves bytes that are not there.
ChunkFits ==
  /\ rpc = "commit" => rn >= 1 /\ rn <= buf_fill /\ buf_read_pos + rn <= SPIRAMSIZE
  /\ wpc = "commit" => /\ wn >= 1 /\ wn <= SPIRAMSIZE - buf_fill
                       /\ buf_write_pos + wn <= SPIRAMSIZE

\* No lost wakeup: a task that has found the FIFO short and is on its way to
\* its semaphore, or asleep on it, while the FIFO has become good for it, has
\* a token waiting or the other task is about to give one.
NoLostWakeup ==
  /\ rpc \in {"dry_unlock", "dry", "wait"} /\ buf_fill >= rn
       => sem_read = 1 \/ wpc \in {"unlock", "give"}
  /\ wpc \in {"dry_unlock", "wait"} /\ SPIRAMSIZE - buf_fill >= wn
       => sem_write = 1 \/ rpc \in {"unlock", "give"}

\* The two tasks never sleep on their semaphores at the same time, the
\* decoder for bytes and the network task for room: the stream cannot stall
\* inside the FIFO.
NeverBothAsleep ==
  ~ (rpc = "wait" /\ sem_read = 0 /\ wpc = "wait" /\ sem_write = 0)

\* Neither task polls: the retries the counters count are paid for by
\* transfers of the other task (a transfer is at least one byte, and buys at
\* most two looks), up to the token each semaphore is created with.
RetriesBounded ==
  /\ buf_underflow_count <= 2 * written + 2
  /\ buf_overflow_count <= Len(received) + 2

\* The FIFO implements the bounded channel: what is under way is what is
\* stored from the read cursor on.
Inflight == [i \in 1..buf_fill |-> buffer[Slot(buf_read_pos, i - 1)]]
Channel == INSTANCE ByteChannel
  WITH Capacity <- SPIRAMSIZE, MaxChunk <- SPIREADSIZE, delivered <- received,
       inflight <- Inflight
ChannelSpec == Channel!Spec

\* What was written is read: short of one transfer (the decoder asks for
\* whole chunks and waits for them), every byte put into the FIFO reaches
\* the decoder.
WrittenIsRead ==
  \A k \in 1..MaxBytes : written >= k ~> Len(received) > k - SPIREADSIZE

\* A write returns: the network task does not stay in audio_buffer_write for
\* ever while the decoder keeps asking.
WriteReturns == wpc # "idle" ~> wpc = "idle"
----------------------------------------------------------------------------
(* The inductive invariant behind the safety properties, in named parts.   *)

Locked == {"test", "dry_unlock", "commit", "unlock"}
\* From the computation of the chunk size to the transfer it is used for.
Sized == {"lock", "test", "dry_unlock", "dry", "wait", "commit"}

\* A task is between its take and its give exactly when it owns the mutex.
LockInv ==
  /\ mux = "reader" <=> rpc \in Locked
  /\ mux = "writer" <=> wpc \in Locked

\* A computed chunk size stays right: only its own task moves its cursor.
SizedInv ==
  /\ rpc \in Sized => rn >= 1 /\ rn <= rlen /\ buf_read_pos + rn <= SPIRAMSIZE
  /\ wpc \in Sized => wn >= 1 /\ wn <= wlen /\ buf_write_pos + wn <= SPIRAMSIZE

\* The fill loaded at the start of a transfer is still the fill at its end.
LoadInv ==
  /\ rpc = "commit" => racc = buf_fill /\ rn <= buf_fill /\ Len(rchunk) = rn
  /\ wpc = "commit" => wacc = buf_fill /\ wn <= SPIRAMSIZE - buf_fill

\* Cursors, fill and the two ends of the stream agree.
CursorInv ==
  /\ buf_fill = written - Len(received)
  /\ buf_write_pos = Slot(buf_read_pos, buf_fill)

\* The storage holds the stream between its two ends, and the chunks being
\* moved hold their part of it.
ContentInv ==
  /\ \A i \in 0..(buf_fill - 1) : buffer[Slot(buf_read_pos, i)] = Len(received) + i
  /\ rpc = "commit" => \A i \in 1..rn : rchunk[i] = Len(received) + i - 1
  /\ wpc = "commit" => \A i \in 0..(wn - 1) : buffer[buf_write_pos + i] = written + i

\* Every look that finds the FIFO short is paid for.
Flag(b) == IF b THEN 1 ELSE 0
RetryInv ==
  /\ buf_underflow_count + sem_read + Flag(wpc \in {"unlock", "give"})
       + Flag(rpc \in {"dry_unlock", "dry", "wait"} /\ buf_fill >= rn)
     <= 1 + 2 * written + Flag(rpc \in {"dry_unlock", "dry", "wait"})
  /\ buf_overflow_count + sem_write + Flag(rpc \in {"unlock", "give"})
     <= 1 + Len(received) + Flag(wpc \in {"dry_unlock", "wait"})

IInv == /\ TypeOK /\ LockInv /\ SizedInv /\ LoadInv /\ CursorInv /\ ContentInv
        /\ StreamIntact /\ NoLostWakeup /\ RetryInv
=============================================================================
