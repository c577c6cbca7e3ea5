--------------------------- MODULE AudioFifoProofs ---------------------------
(***************************************************************************)
(* Proofs about the audio FIFO, for every size of the storage and of the   *)
(* transfers that SizeAssumption allows, every pattern of calls and every  *)
(* interleaving.                                                           *)
(***************************************************************************)
EXTENDS AudioFifoClient, Lemmas

\* The mutex belongs to a task exactly between its take and its give.
LEMMA LockStep == ASSUME LockInv, [Next]_vars PROVE LockInv'
<1> USE DEF LockInv, Locked
<1>1. CASE ReadCall
  BY <1>1 DEF ReadCall, store, sync, count, rvars, wvars, hist
<1>2. CASE ReadSize
  BY <1>2 DEF ReadSize, store, sync, count, rvars, wvars, hist
<1>3. CASE ReadLock
  BY <1>3 DEF ReadLock, store, sync, count, rvars, wvars, hist
<1>4. CASE ReadShort
  BY <1>4 DEF ReadShort, store, sync, count, rvars, wvars, hist
<1>5. CASE ReadShortUnlock
  BY <1>5 DEF ReadShortUnlock, store, sync, count, rvars, wvars, hist
<1>6. CASE ReadLowmark
  BY <1>6 DEF ReadLowmark, store, sync, count, rvars, wvars, hist
<1>7. CASE ReadWait
  BY <1>7 DEF ReadWait, store, sync, count, rvars, wvars, hist
<1>8. CASE ReadCopy
  BY <1>8 DEF ReadCopy, store, sync, count, rvars, wvars, hist
<1>9. CASE ReadCommit
  BY <1>9 DEF ReadCommit, store, sync, count, rvars, wvars, hist
<1>10. CASE ReadUnlock
  BY <1>10 DEF ReadUnlock, store, sync, count, rvars, wvars, hist
<1>11. CASE ReadGive
  BY <1>11 DEF ReadGive, store, sync, count, rvars, wvars, hist
<1>12. CASE WriteCall
  BY <1>12 DEF WriteCall, store, sync, count, rvars, wvars, hist
<1>13. CASE WriteSize
  BY <1>13 DEF WriteSize, store, sync, count, rvars, wvars, hist
<1>14. CASE WriteLock
  BY <1>14 DEF WriteLock, store, sync, count, rvars, wvars, hist
<1>15. CASE WriteShort
  BY <1>15 DEF WriteShort, store, sync, count, rvars, wvars, hist
<1>16. CASE WriteShortUnlock
  BY <1>16 DEF WriteShortUnlock, store, sync, count, rvars, wvars, hist
<1>17. CASE WriteWait
  BY <1>17 DEF WriteWait, store, sync, count, rvars, wvars, hist
<1>18. CASE WriteCopy
  BY <1>18 DEF WriteCopy, store, sync, count, rvars, wvars, hist
<1>19. CASE WriteCommit
  BY <1>19 DEF WriteCommit, store, sync, count, rvars, wvars, hist
<1>20. CASE WriteUnlock
  BY <1>20 DEF WriteUnlock, store, sync, count, rvars, wvars, hist
<1>21. CASE WriteGive
  BY <1>21 DEF WriteGive, store, sync, count, rvars, wvars, hist
<1>22. CASE UNCHANGED vars
  BY <1>22 DEF store, sync, count, rvars, wvars, hist, vars
<1>23. QED
  BY <1>1, <1>2, <1>3, <1>4, <1>5, <1>6, <1>7, <1>8, <1>9, <1>10, <1>11, <1>12, <1>13, <1>14, <1>15, <1>16, <1>17, <1>18, <1>19, <1>20, <1>21, <1>22 DEF Next, Reader, Writing

\* A transfer is at least one byte and at most what is asked for, SPIREADSIZE
\* and the rest of the storage.
LEMMA ChunkSizeBounds ==
  ASSUME NEW len \in Nat, NEW pos \in Slots, len > 0
  PROVE  /\ ChunkSize(len, pos) \in 1..SPIREADSIZE
         /\ ChunkSize(len, pos) <= len
         /\ pos + ChunkSize(len, pos) <= SPIRAMSIZE
BY SizeAssumption DEF ChunkSize, Slots

LEMMA SizedStep ==
  ASSUME TypeOK, LockInv, SizedInv, [Next]_vars PROVE SizedInv'
<1> USE DEF SizedInv, Sized, TypeOK
<1>1. CASE ReadCall
  BY <1>1 DEF ReadCall, store, sync, count, rvars, wvars, hist
<1>2. CASE ReadSize
  BY <1>2, ChunkSizeBounds, SizeAssumption DEF ReadSize, store, sync, count, rvars, wvars, hist
<1>3. CASE ReadLock
  BY <1>3 DEF ReadLock, store, sync, count, rvars, wvars, hist
<1>4. CASE ReadShort
  BY <1>4 DEF ReadShort, store, sync, count, rvars, wvars, hist
<1>5. CASE ReadShortUnlock
  BY <1>5 DEF ReadShortUnlock, store, sync, count, rvars, wvars, hist
<1>6. CASE ReadLowmark
  BY <1>6 DEF ReadLowmark, store, sync, count, rvars, wvars, hist
<1>7. CASE ReadWait
  BY <1>7 DEF ReadWait, store, sync, count, rvars, wvars, hist
<1>8. CASE ReadCopy
  BY <1>8 DEF ReadCopy, store, sync, count, rvars, wvars, hist
<1>9. CASE ReadCommit
  BY <1>9 DEF ReadCommit, store, sync, count, rvars, wvars, hist
<1>10. CASE ReadUnlock
  BY <1>10 DEF ReadUnlock, store, sync, count, rvars, wvars, hist
<1>11. CASE ReadGive
  BY <1>11 DEF ReadGive, store, sync, count, rvars, wvars, hist
<1>12. CASE WriteCall
  BY <1>12 DEF WriteCall, store, sync, count, rvars, wvars, hist
<1>13. CASE WriteSize
  BY <1>13, ChunkSizeBounds, SizeAssumption DEF WriteSize, store, sync, count, rvars, wvars, hist
<1>14. CASE WriteLock
  BY <1>14 DEF WriteLock, store, sync, count, rvars, wvars, hist
<1>15. CASE WriteShort
  BY <1>15 DEF WriteShort, store, sync, count, rvars, wvars, hist
<1>16. CASE WriteShortUnlock
  BY <1>16 DEF WriteShortUnlock, store, sync, count, rvars, wvars, hist
<1>17. CASE WriteWait
  BY <1>17 DEF WriteWait, store, sync, count, rvars, wvars, hist
<1>18. CASE WriteCopy
  BY <1>18 DEF WriteCopy, store, sync, count, rvars, wvars, hist
<1>19. CASE WriteCommit
  BY <1>19 DEF WriteCommit, store, sync, count, rvars, wvars, hist
<1>20. CASE WriteUnlock
  BY <1>20 DEF WriteUnlock, store, sync, count, rvars, wvars, hist
<1>21. CASE WriteGive
  BY <1>21 DEF WriteGive, store, sync, count, rvars, wvars, hist
<1>22. CASE UNCHANGED vars
  BY <1>22 DEF store, sync, count, rvars, wvars, hist, vars
<1>23. QED
  BY <1>1, <1>2, <1>3, <1>4, <1>5, <1>6, <1>7, <1>8, <1>9, <1>10, <1>11, <1>12, <1>13, <1>14, <1>15, <1>16, <1>17, <1>18, <1>19, <1>20, <1>21, <1>22 DEF Next, Reader, Writing

LEMMA LoadStep ==
  ASSUME TypeOK, LockInv, SizedInv, LoadInv, [Next]_vars PROVE LoadInv'
<1> USE DEF LoadInv, LockInv, Locked, TypeOK
<1>1. CASE ReadCall
  BY <1>1 DEF ReadCall, store, sync, count, rvars, wvars, hist
<1>2. CASE ReadSize
  BY <1>2 DEF ReadSize, store, sync, count, rvars, wvars, hist
<1>3. CASE ReadLock
  BY <1>3 DEF ReadLock, store, sync, count, rvars, wvars, hist
<1>4. CASE ReadShort
  BY <1>4 DEF ReadShort, store, sync, count, rvars, wvars, hist
<1>5. CASE ReadShortUnlock
  BY <1>5 DEF ReadShortUnlock, store, sync, count, rvars, wvars, hist
<1>6. CASE ReadLowmark
  BY <1>6 DEF ReadLowmark, store, sync, count, rvars, wvars, hist
<1>7. CASE ReadWait
  BY <1>7 DEF ReadWait, store, sync, count, rvars, wvars, hist
<1>8. CASE ReadCopy
  BY <1>8 DEF ReadCopy, store, sync, count, rvars, wvars, hist
<1>9. CASE ReadCommit
  BY <1>9 DEF ReadCommit, store, sync, count, rvars, wvars, hist
<1>10. CASE ReadUnlock
  BY <1>10 DEF ReadUnlock, store, sync, count, rvars, wvars, hist
<1>11. CASE ReadGive
  BY <1>11 DEF ReadGive, store, sync, count, rvars, wvars, hist
<1>12. CASE WriteCall
  BY <1>12 DEF WriteCall, store, sync, count, rvars, wvars, hist
<1>13. CASE WriteSize
  BY <1>13 DEF WriteSize, store, sync, count, rvars, wvars, hist
<1>14. CASE WriteLock
  BY <1>14 DEF WriteLock, store, sync, count, rvars, wvars, hist
<1>15. CASE WriteShort
  BY <1>15 DEF WriteShort, store, sync, count, rvars, wvars, hist
<1>16. CASE WriteShortUnlock
  BY <1>16 DEF WriteShortUnlock, store, sync, count, rvars, wvars, hist
<1>17. CASE WriteWait
  BY <1>17 DEF WriteWait, store, sync, count, rvars, wvars, hist
<1>18. CASE WriteCopy
  BY <1>18 DEF WriteCopy, store, sync, count, rvars, wvars, hist
<1>19. CASE WriteCommit
  BY <1>19 DEF WriteCommit, store, sync, count, rvars, wvars, hist
<1>20. CASE WriteUnlock
  BY <1>20 DEF WriteUnlock, store, sync, count, rvars, wvars, hist
<1>21. CASE WriteGive
  BY <1>21 DEF WriteGive, store, sync, count, rvars, wvars, hist
<1>22. CASE UNCHANGED vars
  BY <1>22 DEF store, sync, count, rvars, wvars, hist, vars
<1>23. QED
  BY <1>1, <1>2, <1>3, <1>4, <1>5, <1>6, <1>7, <1>8, <1>9, <1>10, <1>11, <1>12, <1>13, <1>14, <1>15, <1>16, <1>17, <1>18, <1>19, <1>20, <1>21, <1>22 DEF Next, Reader, Writing

\* A cursor that has advanced by n is where it was going to be: the fill's
\* end does not move when bytes are read, and moves by n when they are written.
LEMMA AdvanceFront ==
  ASSUME NEW p \in Slots, NEW f \in 0..SPIRAMSIZE, NEW n \in 1..f, p + n <= SPIRAMSIZE
  PROVE  Slot(Advance(p, n), f - n) = Slot(p, f)
BY SizeAssumption DEF Slot, Slots, Advance

LEMMA AdvanceBack ==
  ASSUME NEW p \in Slots, NEW f \in 0..SPIRAMSIZE, NEW n \in 1..(SPIRAMSIZE - f),
         Slot(p, f) + n <= SPIRAMSIZE
  PROVE  Advance(Slot(p, f), n) = Slot(p, f + n)
BY SizeAssumption DEF Slot, Slots, Advance

LEMMA CursorStep ==
  ASSUME TypeOK, LockInv, SizedInv, LoadInv, CursorInv, [Next]_vars PROVE CursorInv'
<1> USE DEF CursorInv, TypeOK
<1>1. CASE ReadCall
  BY <1>1 DEF ReadCall, store, sync, count, rvars, wvars, hist
<1>2. CASE ReadSize
  BY <1>2 DEF ReadSize, store, sync, count, rvars, wvars, hist
<1>3. CASE ReadLock
  BY <1>3 DEF ReadLock, store, sync, count, rvars, wvars, hist
<1>4. CASE ReadShort
  BY <1>4 DEF ReadShort, store, sync, count, rvars, wvars, hist
<1>5. CASE ReadShortUnlock
  BY <1>5 DEF ReadShortUnlock, store, sync, count, rvars, wvars, hist
<1>6. CASE ReadLowmark
  BY <1>6 DEF ReadLowmark, store, sync, count, rvars, wvars, hist
<1>7. CASE ReadWait
  BY <1>7 DEF ReadWait, store, sync, count, rvars, wvars, hist
<1>8. CASE ReadCopy
  BY <1>8 DEF ReadCopy, store, sync, count, rvars, wvars, hist
<1>9. CASE ReadCommit
  <2>1. rn \in 1..buf_fill /\ buf_read_pos + rn <= SPIRAMSIZE /\ racc = buf_fill
    BY <1>9 DEF ReadCommit, LoadInv, SizedInv, Sized
  <2>2. buf_fill' = buf_fill - rn /\ buf_read_pos' = Advance(buf_read_pos, rn)
    BY <1>9, <2>1 DEF ReadCommit
  <2>3. Len(received') = Len(received) + rn /\ written' = written
    <3>1. received' = received \o rchunk /\ Len(rchunk) = rn /\ written' = written
      BY <1>9 DEF ReadCommit, LoadInv
    <3>2. Len(received \o rchunk) = Len(received) + Len(rchunk)
      OBVIOUS
    <3> QED
      BY <3>1, <3>2
  <2>4. buf_write_pos' = Slot(buf_read_pos', buf_fill')
    BY <1>9, <2>1, <2>2, AdvanceFront DEF ReadCommit
  <2> QED
    BY <2>1, <2>2, <2>3, <2>4
<1>10. CASE ReadUnlock
  BY <1>10 DEF ReadUnlock, store, sync, count, rvars, wvars, hist
<1>11. CASE ReadGive
  BY <1>11 DEF ReadGive, store, sync, count, rvars, wvars, hist
<1>12. CASE WriteCall
  BY <1>12 DEF WriteCall, store, sync, count, rvars, wvars, hist
<1>13. CASE WriteSize
  BY <1>13 DEF WriteSize, store, sync, count, rvars, wvars, hist
<1>14. CASE WriteLock
  BY <1>14 DEF WriteLock, store, sync, count, rvars, wvars, hist
<1>15. CASE WriteShort
  BY <1>15 DEF WriteShort, store, sync, count, rvars, wvars, hist
<1>16. CASE WriteShortUnlock
  BY <1>16 DEF WriteShortUnlock, store, sync, count, rvars, wvars, hist
<1>17. CASE WriteWait
  BY <1>17 DEF WriteWait, store, sync, count, rvars, wvars, hist
<1>18. CASE WriteCopy
  BY <1>18 DEF WriteCopy, store, sync, count, rvars, wvars, hist
<1>19. CASE WriteCommit
  <2>1. wn \in 1..(SPIRAMSIZE - buf_fill) /\ buf_write_pos + wn <= SPIRAMSIZE /\ wacc = buf_fill
    BY <1>19 DEF WriteCommit, LoadInv, SizedInv, Sized
  <2>2. buf_fill' = buf_fill + wn /\ buf_write_pos' = Advance(buf_write_pos, wn)
    BY <1>19, <2>1 DEF WriteCommit
  <2>3. written' = written + wn /\ UNCHANGED <<received, buf_read_pos>>
    BY <1>19 DEF WriteCommit
  <2>4. buf_write_pos' = Slot(buf_read_pos', buf_fill')
    BY <2>1, <2>2, <2>3, AdvanceBack
  <2> QED
    BY <2>1, <2>2, <2>3, <2>4
<1>20. CASE WriteUnlock
  BY <1>20 DEF WriteUnlock, store, sync, count, rvars, wvars, hist
<1>21. CASE WriteGive
  BY <1>21 DEF WriteGive, store, sync, count, rvars, wvars, hist
<1>22. CASE UNCHANGED vars
  BY <1>22 DEF store, sync, count, rvars, wvars, hist, vars
<1>23. QED
  BY <1>1, <1>2, <1>3, <1>4, <1>5, <1>6, <1>7, <1>8, <1>9, <1>10, <1>11, <1>12, <1>13, <1>14, <1>15, <1>16, <1>17, <1>18, <1>19, <1>20, <1>21, <1>22 DEF Next, Reader, Writing

\* The variables keep their types.
LEMMA TypeStep ==
  ASSUME TypeOK, LockInv, SizedInv, LoadInv, [Next]_vars PROVE TypeOK'
<1> USE SizeAssumption, LenAssumption DEF TypeOK, ReaderSteps, WriterSteps, Slots
<1>1. CASE ReadCall
  BY <1>1 DEF ReadCall, store, sync, count, rvars, wvars, hist
<1>2. CASE ReadSize
  <2>1. CASE rlen > 0
    <3>1. ChunkSize(rlen, buf_read_pos) \in 1..SPIREADSIZE
      BY <2>1, ChunkSizeBounds DEF Slots
    <3> QED
      BY <1>2, <2>1, <3>1 DEF ReadSize, store, sync, count, rvars, wvars, hist
  <2>2. CASE ~(rlen > 0)
    BY <1>2, <2>2 DEF ReadSize, store, sync, count, rvars, wvars, hist
  <2> QED
    BY <2>1, <2>2
<1>3. CASE ReadLock
  BY <1>3 DEF ReadLock, store, sync, count, rvars, wvars, hist
<1>4. CASE ReadShort
  BY <1>4 DEF ReadShort, store, sync, count, rvars, wvars, hist
<1>5. CASE ReadShortUnlock
  BY <1>5 DEF ReadShortUnlock, store, sync, count, rvars, wvars, hist
<1>6. CASE ReadLowmark
  BY <1>6 DEF ReadLowmark, store, sync, count, rvars, wvars, hist
<1>7. CASE ReadWait
  BY <1>7 DEF ReadWait, store, sync, count, rvars, wvars, hist
<1>8. CASE ReadCopy
  BY <1>8 DEF ReadCopy, store, sync, count, rvars, wvars, hist, SizedInv, Sized, LoadInv
<1>9. CASE ReadCommit
  BY <1>9 DEF ReadCommit, store, sync, count, rvars, wvars, hist, SizedInv, Sized, LoadInv, Advance
<1>10. CASE ReadUnlock
  BY <1>10 DEF ReadUnlock, store, sync, count, rvars, wvars, hist
<1>11. CASE ReadGive
  BY <1>11 DEF ReadGive, store, sync, count, rvars, wvars, hist
<1>12. CASE WriteCall
  BY <1>12 DEF WriteCall, store, sync, count, rvars, wvars, hist
<1>13. CASE WriteSize
  <2>1. CASE wlen > 0
    <3>1. ChunkSize(wlen, buf_write_pos) \in 1..SPIREADSIZE
      BY <2>1, ChunkSizeBounds DEF Slots
    <3> QED
      BY <1>13, <2>1, <3>1 DEF WriteSize, store, sync, count, rvars, wvars, hist
  <2>2. CASE ~(wlen > 0)
    BY <1>13, <2>2 DEF WriteSize, store, sync, count, rvars, wvars, hist
  <2> QED
    BY <2>1, <2>2
<1>14. CASE WriteLock
  BY <1>14 DEF WriteLock, store, sync, count, rvars, wvars, hist
<1>15. CASE WriteShort
  BY <1>15 DEF WriteShort, store, sync, count, rvars, wvars, hist
<1>16. CASE WriteShortUnlock
  BY <1>16 DEF WriteShortUnlock, store, sync, count, rvars, wvars, hist
<1>17. CASE WriteWait
  BY <1>17 DEF WriteWait, store, sync, count, rvars, wvars, hist
<1>18. CASE WriteCopy
  BY <1>18 DEF WriteCopy, store, sync, count, rvars, wvars, hist, SizedInv, Sized, LoadInv
<1>19. CASE WriteCommit
  BY <1>19 DEF WriteCommit, store, sync, count, rvars, wvars, hist, SizedInv, Sized, LoadInv, Advance
<1>20. CASE WriteUnlock
  BY <1>20 DEF WriteUnlock, store, sync, count, rvars, wvars, hist
<1>21. CASE WriteGive
  BY <1>21 DEF WriteGive, store, sync, count, rvars, wvars, hist
<1>22. CASE UNCHANGED vars
  BY <1>22 DEF store, sync, count, rvars, wvars, hist, vars
<1>23. QED
  BY <1>1, <1>2, <1>3, <1>4, <1>5, <1>6, <1>7, <1>8, <1>9, <1>10, <1>11, <1>12, <1>13, <1>14, <1>15, <1>16, <1>17, <1>18, <1>19, <1>20, <1>21, <1>22 DEF Next, Reader, Writing

LEMMA StreamStep ==
  ASSUME TypeOK, LoadInv, ContentInv, StreamIntact, [Next]_vars PROVE StreamIntact'
<1> USE DEF StreamIntact, TypeOK
<1>1. CASE ReadCall
  BY <1>1 DEF ReadCall, store, sync, count, rvars, wvars, hist
<1>2. CASE ReadSize
  BY <1>2 DEF ReadSize, store, sync, count, rvars, wvars, hist
<1>3. CASE ReadLock
  BY <1>3 DEF ReadLock, store, sync, count, rvars, wvars, hist
<1>4. CASE ReadShort
  BY <1>4 DEF ReadShort, store, sync, count, rvars, wvars, hist
<1>5. CASE ReadShortUnlock
  BY <1>5 DEF ReadShortUnlock, store, sync, count, rvars, wvars, hist
<1>6. CASE ReadLowmark
  BY <1>6 DEF ReadLowmark, store, sync, count, rvars, wvars, hist
<1>7. CASE ReadWait
  BY <1>7 DEF ReadWait, store, sync, count, rvars, wvars, hist
<1>8. CASE ReadCopy
  BY <1>8 DEF ReadCopy, store, sync, count, rvars, wvars, hist
<1>9. CASE ReadCommit
  <2>1. received' = received \o rchunk /\ Len(rchunk) = rn
    BY <1>9 DEF ReadCommit, LoadInv
  <2>2. \A i \in 1..rn : rchunk[i] = Len(received) + i - 1
    BY <1>9 DEF ReadCommit, ContentInv
  <2>3. ASSUME NEW i \in 1..Len(received') PROVE received'[i] = i - 1
    <3>1. CASE i <= Len(received)
      BY <2>1, <3>1
    <3>2. CASE i > Len(received)
      BY <2>1, <2>2, <3>2
    <3> QED
      BY <3>1, <3>2
  <2> QED
    BY <2>3
<1>10. CASE ReadUnlock
  BY <1>10 DEF ReadUnlock, store, sync, count, rvars, wvars, hist
<1>11. CASE ReadGive
  BY <1>11 DEF ReadGive, store, sync, count, rvars, wvars, hist
<1>12. CASE WriteCall
  BY <1>12 DEF WriteCall, store, sync, count, rvars, wvars, hist
<1>13. CASE WriteSize
  BY <1>13 DEF WriteSize, store, sync, count, rvars, wvars, hist
<1>14. CASE WriteLock
  BY <1>14 DEF WriteLock, store, sync, count, rvars, wvars, hist
<1>15. CASE WriteShort
  BY <1>15 DEF WriteShort, store, sync, count, rvars, wvars, hist
<1>16. CASE WriteShortUnlock
  BY <1>16 DEF WriteShortUnlock, store, sync, count, rvars, wvars, hist
<1>17. CASE WriteWait
  BY <1>17 DEF WriteWait, store, sync, count, rvars, wvars, hist
<1>18. CASE WriteCopy
  BY <1>18 DEF WriteCopy, store, sync, count, rvars, wvars, hist
<1>19. CASE WriteCommit
  BY <1>19 DEF WriteCommit, store, sync, count, rvars, wvars, hist
<1>20. CASE WriteUnlock
  BY <1>20 DEF WriteUnlock, store, sync, count, rvars, wvars, hist
<1>21. CASE WriteGive
  BY <1>21 DEF WriteGive, store, sync, count, rvars, wvars, hist
<1>22. CASE UNCHANGED vars
  BY <1>22 DEF store, sync, count, rvars, wvars, hist, vars
<1>23. QED
  BY <1>1, <1>2, <1>3, <1>4, <1>5, <1>6, <1>7, <1>8, <1>9, <1>10, <1>11, <1>12, <1>13, <1>14, <1>15, <1>16, <1>17, <1>18, <1>19, <1>20, <1>21, <1>22 DEF Next, Reader, Writing

LEMMA WakeupStep ==
  ASSUME TypeOK, LockInv, SizedInv, LoadInv, NoLostWakeup, [Next]_vars PROVE NoLostWakeup'
<1> USE SizeAssumption DEF NoLostWakeup, TypeOK, LockInv, Locked, LoadInv
<1>1. CASE ReadCall
  BY <1>1 DEF ReadCall, store, sync, count, rvars, wvars, hist
<1>2. CASE ReadSize
  BY <1>2 DEF ReadSize, store, sync, count, rvars, wvars, hist
<1>3. CASE ReadLock
  BY <1>3 DEF ReadLock, store, sync, count, rvars, wvars, hist
<1>4. CASE ReadShort
  BY <1>4 DEF ReadShort, store, sync, count, rvars, wvars, hist
<1>5. CASE ReadShortUnlock
  BY <1>5 DEF ReadShortUnlock, store, sync, count, rvars, wvars, hist
<1>6. CASE ReadLowmark
  BY <1>6 DEF ReadLowmark, store, sync, count, rvars, wvars, hist
<1>7. CASE ReadWait
  BY <1>7 DEF ReadWait, store, sync, count, rvars, wvars, hist
<1>8. CASE ReadCopy
  BY <1>8 DEF ReadCopy, store, sync, count, rvars, wvars, hist
<1>9. CASE ReadCommit
  BY <1>9 DEF ReadCommit, store, sync, count, rvars, wvars, hist
<1>10. CASE ReadUnlock
  BY <1>10 DEF ReadUnlock, store, sync, count, rvars, wvars, hist
<1>11. CASE ReadGive
  BY <1>11 DEF ReadGive, store, sync, count, rvars, wvars, hist
<1>12. CASE WriteCall
  BY <1>12 DEF WriteCall, store, sync, count, rvars, wvars, hist
<1>13. CASE WriteSize
  BY <1>13 DEF WriteSize, store, sync, count, rvars, wvars, hist
<1>14. CASE WriteLock
  BY <1>14 DEF WriteLock, store, sync, count, rvars, wvars, hist
<1>15. CASE WriteShort
  BY <1>15 DEF WriteShort, store, sync, count, rvars, wvars, hist
<1>16. CASE WriteShortUnlock
  BY <1>16 DEF WriteShortUnlock, store, sync, count, rvars, wvars, hist
<1>17. CASE WriteWait
  BY <1>17 DEF WriteWait, store, sync, count, rvars, wvars, hist
<1>18. CASE WriteCopy
  BY <1>18 DEF WriteCopy, store, sync, count, rvars, wvars, hist
<1>19. CASE WriteCommit
  BY <1>19 DEF WriteCommit, store, sync, count, rvars, wvars, hist
<1>20. CASE WriteUnlock
  BY <1>20 DEF WriteUnlock, store, sync, count, rvars, wvars, hist
<1>21. CASE WriteGive
  BY <1>21 DEF WriteGive, store, sync, count, rvars, wvars, hist
<1>22. CASE UNCHANGED vars
  BY <1>22 DEF store, sync, count, rvars, wvars, hist, vars
<1>23. QED
  BY <1>1, <1>2, <1>3, <1>4, <1>5, <1>6, <1>7, <1>8, <1>9, <1>10, <1>11, <1>12, <1>13, <1>14, <1>15, <1>16, <1>17, <1>18, <1>19, <1>20, <1>21, <1>22 DEF Next, Reader, Writing

LEMMA RetryStep ==
  ASSUME TypeOK, LockInv, SizedInv, LoadInv, RetryInv, [Next]_vars PROVE RetryInv'
<1> USE SizeAssumption DEF RetryInv, TypeOK, LockInv, Locked, LoadInv, Flag, SizedInv, Sized
<1>1. CASE ReadCall
  BY <1>1 DEF ReadCall, store, sync, count, rvars, wvars, hist
<1>2. CASE ReadSize
  BY <1>2 DEF ReadSize, store, sync, count, rvars, wvars, hist
<1>3. CASE ReadLock
  BY <1>3 DEF ReadLock, store, sync, count, rvars, wvars, hist
<1>4. CASE ReadShort
  BY <1>4 DEF ReadShort, store, sync, count, rvars, wvars, hist
<1>5. CASE ReadShortUnlock
  BY <1>5 DEF ReadShortUnlock, store, sync, count, rvars, wvars, hist
<1>6. CASE ReadLowmark
  BY <1>6 DEF ReadLowmark, store, sync, count, rvars, wvars, hist
<1>7. CASE ReadWait
  BY <1>7 DEF ReadWait, store, sync, count, rvars, wvars, hist
<1>8. CASE ReadCopy
  BY <1>8 DEF ReadCopy, store, sync, count, rvars, wvars, hist
<1>9. CASE ReadCommit
  BY <1>9 DEF ReadCommit, store, sync, count, rvars, wvars, hist
<1>10. CASE ReadUnlock
  BY <1>10 DEF ReadUnlock, store, sync, count, rvars, wvars, hist
<1>11. CASE ReadGive
  BY <1>11 DEF ReadGive, store, sync, count, rvars, wvars, hist
<1>12. CASE WriteCall
  BY <1>12 DEF WriteCall, store, sync, count, rvars, wvars, hist
<1>13. CASE WriteSize
  BY <1>13 DEF WriteSize, store, sync, count, rvars, wvars, hist
<1>14. CASE WriteLock
  BY <1>14 DEF WriteLock, store, sync, count, rvars, wvars, hist
<1>15. CASE WriteShort
  BY <1>15 DEF WriteShort, store, sync, count, rvars, wvars, hist
<1>16. CASE WriteShortUnlock
  BY <1>16 DEF WriteShortUnlock, store, sync, count, rvars, wvars, hist
<1>17. CASE WriteWait
  BY <1>17 DEF WriteWait, store, sync, count, rvars, wvars, hist
<1>18. CASE WriteCopy
  BY <1>18 DEF WriteCopy, store, sync, count, rvars, wvars, hist
<1>19. CASE WriteCommit
  BY <1>19 DEF WriteCommit, store, sync, count, rvars, wvars, hist
<1>20. CASE WriteUnlock
  BY <1>20 DEF WriteUnlock, store, sync, count, rvars, wvars, hist
<1>21. CASE WriteGive
  BY <1>21 DEF WriteGive, store, sync, count, rvars, wvars, hist
<1>22. CASE UNCHANGED vars
  BY <1>22 DEF store, sync, count, rvars, wvars, hist, vars
<1>23. QED
  BY <1>1, <1>2, <1>3, <1>4, <1>5, <1>6, <1>7, <1>8, <1>9, <1>10, <1>11, <1>12, <1>13, <1>14, <1>15, <1>16, <1>17, <1>18, <1>19, <1>20, <1>21, <1>22 DEF Next, Reader, Writing

\* The slots of the stored bytes, seen from the advanced cursor.
LEMMA SlotAfterRead ==
  ASSUME NEW p \in Slots, NEW n \in 1..SPIRAMSIZE, p + n <= SPIRAMSIZE,
         NEW i \in Nat, n + i < SPIRAMSIZE
  PROVE  Slot(Advance(p, n), i) = Slot(p, n + i)
BY SizeAssumption DEF Slot, Slots, Advance

\* A write does not touch the stored bytes, and puts its own behind them.
LEMMA SlotFree ==
  ASSUME NEW p \in Slots, NEW f \in 0..SPIRAMSIZE, NEW n \in 1..(SPIRAMSIZE - f),
         Slot(p, f) + n <= SPIRAMSIZE
  PROVE  /\ \A i \in 0..(f - 1) : /\ Slot(p, i) \in Slots
                                 /\ Slot(p, i) \notin Slot(p, f)..(Slot(p, f) + n - 1)
         /\ \A j \in 0..(n - 1) : Slot(p, f + j) = Slot(p, f) + j
BY SizeAssumption DEF Slot, Slots

LEMMA ContentStep ==
  ASSUME TypeOK, LockInv, SizedInv, LoadInv, CursorInv, ContentInv, [Next]_vars
  PROVE  ContentInv'
<1> USE SizeAssumption DEF TypeOK
<1>1. CASE ReadCall
  BY <1>1 DEF ReadCall, ContentInv, store, sync, count, rvars, wvars, hist
<1>2. CASE ReadSize
  BY <1>2 DEF ReadSize, ContentInv, store, sync, count, rvars, wvars, hist
<1>3. CASE ReadLock
  BY <1>3 DEF ReadLock, ContentInv, store, sync, count, rvars, wvars, hist
<1>4. CASE ReadShort
  BY <1>4 DEF ReadShort, ContentInv, store, sync, count, rvars, wvars, hist
<1>5. CASE ReadShortUnlock
  BY <1>5 DEF ReadShortUnlock, ContentInv, store, sync, count, rvars, wvars, hist
<1>6. CASE ReadLowmark
  BY <1>6 DEF ReadLowmark, ContentInv, store, sync, count, rvars, wvars, hist
<1>7. CASE ReadWait
  BY <1>7 DEF ReadWait, ContentInv, store, sync, count, rvars, wvars, hist
<1>8. CASE ReadCopy
  <2>1. rn \in 1..buf_fill /\ buf_read_pos + rn <= SPIRAMSIZE
    BY <1>8 DEF ReadCopy, SizedInv, Sized
  <2>2. UNCHANGED <<store, received, written, wpc, wn>>
    BY <1>8 DEF ReadCopy, store, wvars, hist
  <2>3. ASSUME NEW i \in 1..rn PROVE rchunk'[i] = Len(received) + i - 1
    <3>1. rchunk'[i] = buffer[buf_read_pos + i - 1]
      BY <1>8 DEF ReadCopy
    <3>2. Slot(buf_read_pos, i - 1) = buf_read_pos + i - 1 /\ i - 1 \in 0..(buf_fill - 1)
      BY <2>1 DEF Slot, Slots
    <3>3. buffer[Slot(buf_read_pos, i - 1)] = Len(received) + (i - 1)
      BY <3>2 DEF ContentInv
    <3> QED
      BY <3>1, <3>2, <3>3
  <2> QED
    BY <1>8, <2>2, <2>3 DEF ReadCopy, ContentInv, store
<1>9. CASE ReadCommit
  <2>1. rn \in 1..buf_fill /\ buf_read_pos + rn <= SPIRAMSIZE /\ racc = buf_fill
    BY <1>9 DEF ReadCommit, LoadInv, SizedInv, Sized
  <2>2. /\ buf_fill' = buf_fill - rn /\ buf_read_pos' = Advance(buf_read_pos, rn)
        /\ UNCHANGED <<buffer, buf_write_pos, wpc, wn, written>>
        /\ rpc' = "unlock"
    BY <1>9, <2>1 DEF ReadCommit, wvars
  <2>3. Len(received') = Len(received) + rn
    <3>1. Len(received \o rchunk) = Len(received) + Len(rchunk)
      OBVIOUS
    <3> QED
      BY <1>9, <3>1 DEF ReadCommit, LoadInv
  <2>4. ASSUME NEW i \in 0..(buf_fill' - 1)
        PROVE  buffer'[Slot(buf_read_pos', i)] = Len(received') + i
    <3>1. i \in Nat /\ rn + i \in 0..(buf_fill - 1) /\ rn + i < SPIRAMSIZE
      BY <2>1, <2>2
    <3>2. Slot(buf_read_pos', i) = Slot(buf_read_pos, rn + i)
      BY <2>1, <2>2, <3>1, SlotAfterRead
    <3>3. buffer[Slot(buf_read_pos, rn + i)] = Len(received) + (rn + i)
      BY <3>1 DEF ContentInv
    <3> QED
      BY <2>2, <2>3, <3>2, <3>3
  <2> QED
    BY <2>2, <2>4 DEF ContentInv
<1>10. CASE ReadUnlock
  BY <1>10 DEF ReadUnlock, ContentInv, store, sync, count, rvars, wvars, hist
<1>11. CASE ReadGive
  BY <1>11 DEF ReadGive, ContentInv, store, sync, count, rvars, wvars, hist
<1>12. CASE WriteCall
  BY <1>12 DEF WriteCall, ContentInv, store, sync, count, rvars, wvars, hist
<1>13. CASE WriteSize
  BY <1>13 DEF WriteSize, ContentInv, store, sync, count, rvars, wvars, hist
<1>14. CASE WriteLock
  BY <1>14 DEF WriteLock, ContentInv, store, sync, count, rvars, wvars, hist
<1>15. CASE WriteShort
  BY <1>15 DEF WriteShort, ContentInv, store, sync, count, rvars, wvars, hist
<1>16. CASE WriteShortUnlock
  BY <1>16 DEF WriteShortUnlock, ContentInv, store, sync, count, rvars, wvars, hist
<1>17. CASE WriteWait
  BY <1>17 DEF WriteWait, ContentInv, store, sync, count, rvars, wvars, hist
<1>18. CASE WriteCopy
  <2>1. wn \in 1..(SPIRAMSIZE - buf_fill) /\ buf_write_pos + wn <= SPIRAMSIZE
    BY <1>18 DEF WriteCopy, SizedInv, Sized
  <2>2. /\ UNCHANGED <<buf_read_pos, buf_write_pos, buf_fill, wn, rpc, rn, rchunk, received, written>>
        /\ \A s \in Slots : buffer'[s] = IF s \in buf_write_pos..(buf_write_pos + wn - 1)
                                         THEN written + (s - buf_write_pos) ELSE buffer[s]
    BY <1>18 DEF WriteCopy, rvars, hist
  <2>3. buf_write_pos = Slot(buf_read_pos, buf_fill)
    BY DEF CursorInv
  <2>4. ASSUME NEW i \in 0..(buf_fill' - 1)
        PROVE  buffer'[Slot(buf_read_pos', i)] = Len(received') + i
    <3>1. /\ Slot(buf_read_pos, i) \in Slots
          /\ Slot(buf_read_pos, i) \notin buf_write_pos..(buf_write_pos + wn - 1)
      BY <2>1, <2>2, <2>3, SlotFree
    <3>2. buffer[Slot(buf_read_pos, i)] = Len(received) + i
      BY <2>2 DEF ContentInv
    <3> QED
      BY <2>2, <3>1, <3>2
  <2>5. ASSUME NEW i \in 0..(wn' - 1) PROVE buffer'[buf_write_pos' + i] = written' + i
    <3>1. buf_write_pos + i \in Slots /\ buf_write_pos + i \in buf_write_pos..(buf_write_pos + wn - 1)
      BY <2>1, <2>2 DEF Slots
    <3>2. buffer'[buf_write_pos + i] = written + ((buf_write_pos + i) - buf_write_pos)
      BY <2>2, <3>1
    <3>3. (buf_write_pos + i) - buf_write_pos = i
      BY <2>2 DEF Slots
    <3> QED
      BY <2>2, <3>2, <3>3
  <2> QED
    BY <2>2, <2>4, <2>5 DEF ContentInv
<1>19. CASE WriteCommit
  <2>1. wn \in 1..(SPIRAMSIZE - buf_fill) /\ buf_write_pos + wn <= SPIRAMSIZE /\ wacc = buf_fill
    BY <1>19 DEF WriteCommit, LoadInv, SizedInv, Sized
  <2>2. /\ buf_fill' = buf_fill + wn /\ wpc' = "unlock"
        /\ UNCHANGED <<buffer, buf_read_pos, rpc, rn, rchunk, received>>
    BY <1>19, <2>1 DEF WriteCommit, rvars
  <2>3. buf_fill = written - Len(received) /\ buf_write_pos = Slot(buf_read_pos, buf_fill)
    BY DEF CursorInv
  <2>4. ASSUME NEW i \in 0..(buf_fill' - 1)
        PROVE  buffer'[Slot(buf_read_pos', i)] = Len(received') + i
    <3>1. CASE i < buf_fill
      BY <2>2, <3>1 DEF ContentInv
    <3>2. CASE i >= buf_fill
      <4>1. i - buf_fill \in 0..(wn - 1)
        BY <2>1, <2>2, <3>2
      <4>2. Slot(buf_read_pos, buf_fill + (i - buf_fill)) = buf_write_pos + (i - buf_fill)
        BY <2>1, <2>3, <4>1, SlotFree
      <4>3. buffer[buf_write_pos + (i - buf_fill)] = written + (i - buf_fill)
        BY <1>19, <4>1 DEF WriteCommit, ContentInv
      <4> QED
        BY <2>2, <2>3, <4>1, <4>2, <4>3
    <3> QED
      BY <3>1, <3>2, <2>2
  <2> QED
    BY <2>2, <2>4 DEF ContentInv
<1>20. CASE WriteUnlock
  BY <1>20 DEF WriteUnlock, ContentInv, store, sync, count, rvars, wvars, hist
<1>21. CASE WriteGive
  BY <1>21 DEF WriteGive, ContentInv, store, sync, count, rvars, wvars, hist
<1>22. CASE UNCHANGED vars
  BY <1>22 DEF ContentInv, store, sync, count, rvars, wvars, hist, vars
<1>23. QED
  BY <1>1, <1>2, <1>3, <1>4, <1>5, <1>6, <1>7, <1>8, <1>9, <1>10, <1>11, <1>12, <1>13, <1>14, <1>15, <1>16, <1>17, <1>18, <1>19, <1>20, <1>21, <1>22 DEF Next, Reader, Writing

----------------------------------------------------------------------------
LEMMA InitInv == Init => IInv
<1> SUFFICES ASSUME Init PROVE IInv
  OBVIOUS
<1> USE SizeAssumption DEF Init, util_create_semaphore
<1>1. TypeOK
  BY DEF TypeOK, Slots, ReaderSteps, WriterSteps
<1>2. LockInv /\ SizedInv /\ LoadInv /\ NoLostWakeup
  BY DEF LockInv, SizedInv, LoadInv, NoLostWakeup, Locked, Sized
<1>3. Len(received) = 0 /\ rpc = "idle" /\ wpc = "idle" /\ buf_fill = 0
  OBVIOUS
<1>4. StreamIntact
  BY <1>3 DEF StreamIntact
<1>5. ContentInv
  BY <1>3 DEF ContentInv
<1>6. CursorInv
  <2>1. SPIRAMSIZE \in Nat /\ SPIRAMSIZE >= 1
    BY SizeAssumption
  <2>2. Slot(0, 0) = 0
    BY <2>1 DEF Slot
  <2>3. buf_fill = 0 - 0 /\ written = 0 /\ buf_write_pos = 0 /\ buf_read_pos = 0
    OBVIOUS
  <2> QED
    BY <2>2, <2>3, <1>3 DEF CursorInv
<1>7. RetryInv
  BY DEF RetryInv, Flag
<1> QED
  BY <1>1, <1>2, <1>4, <1>5, <1>6, <1>7 DEF IInv

\* The inductive invariant holds at every step.
THEOREM Invariance == Spec => []IInv
<1>1. Init => IInv
  BY InitInv
<1>2. IInv /\ [Next]_vars => IInv'
  BY LockStep, SizedStep, LoadStep, CursorStep, TypeStep, StreamStep, WakeupStep,
     RetryStep, ContentStep DEF IInv
<1> QED
  BY <1>1, <1>2, PTL DEF Spec

\* The cursors stay in the storage and the fill in its size, whatever the
\* interleaving (audio_buffer_read, audio_buffer_write).
THEOREM TypeCorrect == Spec => []TypeOK
<1>1. IInv => TypeOK
  BY DEF IInv
<1> QED
  BY <1>1, Invariance, PTL

\* The decoder receives exactly the stream that was written, in order.
THEOREM DecoderGetsStream == Spec => []StreamIntact
<1>1. IInv => StreamIntact
  BY DEF IInv
<1> QED
  BY <1>1, Invariance, PTL

\* The chunk size computed outside the mutex is right inside it.
THEOREM ChunksFit == Spec => []ChunkFits
<1>1. IInv => ChunkFits
  BY DEF IInv, ChunkFits, SizedInv, LoadInv, Sized
<1> QED
  BY <1>1, Invariance, PTL

\* No give of a semaphore is missed by the task that needs it.
THEOREM WakeupsKept == Spec => []NoLostWakeup
<1>1. IInv => NoLostWakeup
  BY DEF IInv
<1> QED
  BY <1>1, Invariance, PTL

\* The two tasks never sleep on their semaphores together, however small the
\* storage.  A chunk is cut at the end of the storage: a reader that finds too
\* little before the end leaves a writer at least as much room before the end
\* as its chunk takes.
THEOREM NoMutualSleep == Spec => []NeverBothAsleep
<1>1. IInv => NeverBothAsleep
  <2> SUFFICES ASSUME IInv, rpc = "wait", sem_read = 0, wpc = "wait", sem_write = 0
               PROVE  FALSE
    BY DEF NeverBothAsleep
  <2>1. buf_fill < rn /\ SPIRAMSIZE - buf_fill < wn
    BY SizeAssumption DEF IInv, NoLostWakeup, TypeOK
  <2>2. buf_read_pos + rn <= SPIRAMSIZE /\ buf_write_pos + wn <= SPIRAMSIZE
    BY DEF IInv, SizedInv, Sized
  <2>3. buf_write_pos = buf_read_pos + buf_fill
    BY <2>1, <2>2, SizeAssumption DEF IInv, CursorInv, Slot, TypeOK, Slots
  <2> QED
    BY <2>1, <2>2, <2>3, SizeAssumption DEF IInv, TypeOK, Slots
<1> QED
  BY <1>1, Invariance, PTL

\* Neither task polls: the counters are bounded by the bytes moved.
THEOREM NoPolling == Spec => []RetriesBounded
<1>1. IInv => RetriesBounded
  BY DEF IInv, RetryInv, RetriesBounded, Flag, TypeOK
<1> QED
  BY <1>1, Invariance, PTL

----------------------------------------------------------------------------
(* The FIFO implements the bounded channel.                                *)

\* The bytes stored from a cursor on, when they are the stream from byte k.
LEMMA BehindCursor ==
  ASSUME NEW b, NEW p \in Slots, NEW k \in Nat, NEW n \in Nat,
         \A i \in 0..(n - 1) : b[Slot(p, i)] = k + i
  PROVE  [i \in 1..n |-> b[Slot(p, i - 1)]] = Run(k, n)
<1>1. ASSUME NEW i \in 1..n PROVE b[Slot(p, i - 1)] = k + i - 1
  <2>1. i - 1 \in 0..(n - 1)
    OBVIOUS
  <2>2. b[Slot(p, i - 1)] = k + (i - 1)
    BY <2>1
  <2>3. k + (i - 1) = k + i - 1
    OBVIOUS
  <2> QED
    BY <2>2, <2>3
<1> QED
  BY <1>1 DEF Run

LEMMA InflightIsRun ==
  ASSUME IInv PROVE Inflight = Run(Len(received), buf_fill)
<1>1. buf_fill \in Nat /\ Len(received) \in Nat /\ buf_read_pos \in Slots
  BY SizeAssumption DEF IInv, TypeOK
<1>2. \A i \in 0..(buf_fill - 1) : buffer[Slot(buf_read_pos, i)] = Len(received) + i
  BY DEF IInv, ContentInv
<1>3. [i \in 1..buf_fill |-> buffer[Slot(buf_read_pos, i - 1)]] = Run(Len(received), buf_fill)
  BY <1>1, <1>2, BehindCursor
<1> QED
  BY <1>3 DEF Inflight

LEMMA NextInflightIsRun ==
  ASSUME IInv' PROVE Inflight' = Run(Len(received'), buf_fill')
<1>1. buf_fill' \in Nat /\ Len(received') \in Nat /\ buf_read_pos' \in Slots
  BY SizeAssumption DEF IInv, TypeOK
<1>2. \A i \in 0..(buf_fill' - 1) : buffer'[Slot(buf_read_pos', i)] = Len(received') + i
  BY DEF IInv, ContentInv, Slot
<1> DEFINE n == buf_fill'  k == Len(received')  b == buffer'  p == buf_read_pos'
<1>3. n \in Nat /\ k \in Nat /\ p \in Slots /\ \A i \in 0..(n - 1) : b[Slot(p, i)] = k + i
  BY <1>1, <1>2, Zenon
<1> HIDE DEF n, k, b, p
<1>4. ASSUME NEW i \in 1..n PROVE b[Slot(p, i - 1)] = k + i - 1
  <2>1. i - 1 \in 0..(n - 1) /\ k + (i - 1) = k + i - 1
    BY <1>3
  <2>2. b[Slot(p, i - 1)] = k + (i - 1)
    BY <1>3, <2>1, Zenon
  <2> QED
    BY <2>1, <2>2
<1>5. [i \in 1..n |-> b[Slot(p, i - 1)]] = Run(k, n)
  BY <1>4 DEF Run
<1> QED
  BY <1>5 DEF Inflight, Slot, n, k, b, p

\* A transfer into the storage is a put: the bytes are there once the fill is
\* stored, whatever the reader was doing meanwhile.
LEMMA CommitPuts ==
  ASSUME IInv, IInv', WriteCommit
  PROVE  Channel!Next
<1>1. /\ Inflight = Run(Len(received), buf_fill) /\ Inflight' = Run(Len(received'), buf_fill')
      /\ received' = received
  BY InflightIsRun, NextInflightIsRun DEF WriteCommit
<1>2. /\ wn \in 1..SPIREADSIZE /\ wn <= SPIRAMSIZE - buf_fill /\ buf_fill' = buf_fill + wn
  <2>1. wn >= 1 /\ wn \in 0..SPIREADSIZE
    BY DEF IInv, SizedInv, Sized, TypeOK, WriteCommit
  <2>2. wn <= SPIRAMSIZE - buf_fill /\ buf_fill' = buf_fill + wn
    BY DEF IInv, LoadInv, WriteCommit
  <2> QED
    BY <2>1, <2>2, SizeAssumption
<1>3. buf_fill \in Nat /\ Len(received) \in Nat /\ SPIRAMSIZE \in Nat
  BY SizeAssumption DEF IInv, TypeOK
<1>4. Len(Inflight) = buf_fill
  BY <1>1, <1>3, RunSeq
<1>5. Inflight' = Inflight \o Run(Len(received) + buf_fill, wn)
  <2>1. Run(Len(received), buf_fill) \o Run(Len(received) + buf_fill, wn)
          = Run(Len(received), buf_fill + wn)
    <3>1. wn \in Nat
      BY <1>2
    <3> QED
      BY <1>3, <3>1, RunJoin, Zenon
  <2> QED
    BY <1>1, <1>2, <2>1, Zenon
<1>6. Run(Len(received) + buf_fill, wn) = [i \in 1..wn |-> Channel!Sent + i - 1]
  BY <1>4 DEF Run, Channel!Sent
<1>7. Channel!Put(wn)
  <2>1. Len(Inflight) + wn <= SPIRAMSIZE
    BY <1>2, <1>3, <1>4
  <2>2. Inflight' = Inflight \o [i \in 1..wn |-> Channel!Sent + i - 1]
    BY <1>5, <1>6, Zenon
  <2> QED
    BY <1>1, <2>1, <2>2, Zenon DEF Channel!Put
<1> QED
  BY <1>2, <1>7 DEF Channel!Next

\* A transfer out of it is a delivery.
LEMMA CommitDelivers ==
  ASSUME IInv, IInv', ReadCommit
  PROVE  Channel!Next
<1>1. /\ Inflight = Run(Len(received), buf_fill) /\ Inflight' = Run(Len(received'), buf_fill')
      /\ received' = received \o rchunk
  BY InflightIsRun, NextInflightIsRun DEF ReadCommit
<1>2. rn \in 1..SPIREADSIZE /\ rn <= buf_fill /\ buf_fill' = buf_fill - rn /\ Len(rchunk) = rn
  <2>1. rn >= 1 /\ rn \in 0..SPIREADSIZE
    BY DEF IInv, SizedInv, Sized, TypeOK, ReadCommit
  <2>2. rn <= buf_fill /\ buf_fill' = buf_fill - rn /\ Len(rchunk) = rn
    BY DEF IInv, LoadInv, ReadCommit
  <2> QED
    BY <2>1, <2>2, SizeAssumption
<1>3. /\ buf_fill \in Nat /\ Len(received) \in Nat /\ rn \in 0..buf_fill
      /\ received \in Seq(Nat) /\ rchunk \in Seq(Nat)
  BY <1>2, SizeAssumption DEF IInv, TypeOK
<1>4. rchunk = Run(Len(received), rn)
  <2>1. \A i \in 1..Len(rchunk) : rchunk[i] = Len(received) + i - 1
    BY <1>2 DEF IInv, ContentInv, ReadCommit
  <2> QED
    BY <1>2, <1>3, <2>1, IsRun
<1>5. Len(received') = Len(received) + rn
  <2>1. Len(received \o rchunk) = Len(received) + Len(rchunk)
    BY <1>3, Joined
  <2> QED
    BY <1>1, <1>2, <2>1
<1>6. Len(Inflight) = buf_fill
  BY <1>1, <1>3, RunSeq
<1>7. /\ SubSeq(Inflight, 1, rn) = rchunk
      /\ SubSeq(Inflight, rn + 1, Len(Inflight)) = Inflight'
  <2>1. /\ SubSeq(Run(Len(received), buf_fill), 1, rn) = Run(Len(received), rn)
        /\ SubSeq(Run(Len(received), buf_fill), rn + 1, buf_fill)
             = Run(Len(received) + rn, buf_fill - rn)
    BY <1>3, RunParts
  <2>2. SubSeq(Inflight, 1, rn) = rchunk
    BY <1>1, <1>4, <2>1, Zenon
  <2>3. SubSeq(Inflight, rn + 1, Len(Inflight)) = Inflight'
    BY <1>1, <1>2, <1>5, <1>6, <2>1, Zenon
  <2> QED
    BY <2>2, <2>3
<1>8. Channel!Deliver(rn)
  <2>1. rn <= Len(Inflight)
    BY <1>2, <1>6
  <2>2. received' = received \o SubSeq(Inflight, 1, rn)
    BY <1>1, <1>7, Zenon
  <2> QED
    BY <1>7, <2>1, <2>2, Zenon DEF Channel!Deliver
<1> QED
  BY <1>2, <1>8 DEF Channel!Next

\* No other step shows: the copies, the semaphores and the lock are hidden.
LEMMA OtherStepsStutter ==
  ASSUME IInv, IInv', [Next]_vars, ~WriteCommit, ~ReadCommit
  PROVE  UNCHANGED Channel!vars
<1>1. UNCHANGED <<buf_fill, received>>
  BY DEF Next, Reader, Writing, ReadCall, ReadSize, ReadLock, ReadShort, ReadShortUnlock,
         ReadLowmark, ReadWait, ReadCopy, ReadUnlock, ReadGive, WriteCall, WriteSize, WriteLock,
         WriteShort, WriteShortUnlock, WriteWait, WriteCopy, WriteUnlock, WriteGive,
         vars, store, sync, count, rvars, wvars, hist
<1>2. Inflight = Run(Len(received), buf_fill) /\ Inflight' = Run(Len(received'), buf_fill')
  BY InflightIsRun, NextInflightIsRun
<1> QED
  BY <1>1, <1>2 DEF Channel!vars

LEMMA InitChannel ==
  ASSUME Init PROVE Channel!Init
<1>1. buf_fill = 0 /\ received = << >>
  BY DEF Init
<1>2. Inflight = << >>
  BY <1>1 DEF Inflight
<1> QED
  BY <1>1, <1>2 DEF Channel!Init

\* To its two tasks the FIFO, with its lock, its semaphores, its sizes computed
\* before the lock and its storage that wraps, is no more than a bounded channel.
THEOREM FifoIsChannel == Spec => ChannelSpec
<1>1. Init => Channel!Init
  BY InitChannel
<1>2. IInv /\ IInv' /\ [Next]_vars => [Channel!Next]_(Channel!vars)
  <2> SUFFICES ASSUME IInv, IInv', [Next]_vars PROVE [Channel!Next]_(Channel!vars)
    OBVIOUS
  <2>1. CASE WriteCommit
    BY <2>1, CommitPuts
  <2>2. CASE ReadCommit
    BY <2>2, CommitDelivers
  <2>3. CASE ~WriteCommit /\ ~ReadCommit
    BY <2>3, OtherStepsStutter
  <2> QED
    BY <2>1, <2>2, <2>3
<1> QED
  BY <1>1, <1>2, Invariance, PTL DEF Spec, ChannelSpec, Channel!Spec

----------------------------------------------------------------------------
(* The third task.                                                         *)

\* The client owns the mutex from its take to its give, and in a counter call
\* from its take on.
ClientMutex ==
  /\ cpc \in {"idle", "lock", "body", "retake", "reset_give", "reset_take", "unlock"}
  /\ mux = "client" <=> cpc \in {"body", "retake", "reset_give", "reset_take", "unlock"}

\* What of the inductive invariant a reset leaves; it may take the token that
\* a waiting reader needs.
ClientIInv == /\ TypeOK /\ LockInv /\ SizedInv /\ LoadInv /\ CursorInv /\ ContentInv
              /\ StreamIntact /\ ClientMutex

\* The other tasks leave the client its mutex.
LEMMA ClientMutexStep ==
  ASSUME LockInv, ClientMutex, [Next]_vars, UNCHANGED cvars PROVE ClientMutex'
<1> USE DEF LockInv, Locked, ClientMutex, cvars
<1>1. CASE ReadLock \/ WriteLock
  BY <1>1 DEF ReadLock, WriteLock
<1>2. CASE ReadShortUnlock \/ ReadUnlock \/ WriteShortUnlock \/ WriteUnlock
  BY <1>2 DEF ReadShortUnlock, ReadUnlock, WriteShortUnlock, WriteUnlock
<1>3. CASE ~(ReadLock \/ WriteLock \/ ReadShortUnlock \/ ReadUnlock \/ WriteShortUnlock \/ WriteUnlock)
  <2>1. mux' = mux
    BY <1>3 DEF Next, Reader, Writing, ReadCall, ReadSize, ReadShort, ReadLowmark, ReadWait, ReadCopy,
                ReadCommit, ReadGive, WriteCall, WriteSize, WriteShort, WriteWait, WriteCopy,
                WriteCommit, WriteGive, sync, vars
  <2> QED
    BY <2>1
<1> QED
  BY <1>1, <1>2, <1>3

\* A reset, between the transfers of the other two, empties the storage; their
\* chunk sizes, computed before, still fit.
LEMMA ResetStep ==
  ASSUME ClientIInv, ResetZero PROVE ClientIInv'
<1> USE SizeAssumption DEF ClientIInv
<1>1. /\ cpc = "body" /\ cpc' = "reset_give" /\ mux' = mux
      /\ buf_read_pos' = 0 /\ buf_write_pos' = 0 /\ buf_fill' = 0
      /\ buf_overflow_count' = 0 /\ buf_underflow_count' = 0
      /\ received' = << >> /\ written' = 0
      /\ UNCHANGED <<buffer, sem_read, sem_write, rpc, rlen, rn, racc, rchunk, wpc, wlen, wn, wacc>>
  BY DEF ResetZero, sync, rvars, wvars
<1>2. mux = "client" /\ rpc \notin Locked /\ wpc \notin Locked
  BY <1>1 DEF ClientMutex, LockInv
<1>3. TypeOK'
  BY <1>1 DEF TypeOK, Slots
<1>4. LockInv' /\ LoadInv' /\ ClientMutex'
  BY <1>1, <1>2 DEF LockInv, LoadInv, ClientMutex, Locked
<1>5. SizedInv'
  BY <1>1 DEF SizedInv, TypeOK, Slots
<1>6. Len(received') = 0
  BY <1>1
<1>7. CursorInv' /\ ContentInv' /\ StreamIntact'
  <2>1. CursorInv'
    <3>1. SPIRAMSIZE \in Nat /\ SPIRAMSIZE >= 1
      BY SizeAssumption
    <3>2. Slot(0, 0) = 0
      BY <3>1 DEF Slot
    <3>3. buf_fill' = 0 - 0 /\ written' = 0 /\ buf_write_pos' = 0 /\ buf_read_pos' = 0
      BY <1>1
    <3> QED
      BY <3>2, <3>3, <1>6 DEF CursorInv
  <2>2. ContentInv'
    BY <1>1, <1>2 DEF ContentInv, Locked
  <2>3. StreamIntact'
    BY <1>6 DEF StreamIntact
  <2> QED
    BY <2>1, <2>2, <2>3
<1> QED
  BY <1>3, <1>4, <1>5, <1>7

LEMMA ClientStep ==
  ASSUME ClientIInv, Client PROVE ClientIInv'
<1>1. CASE ClientCall \/ ClientTake \/ ClientFill \/ ClientCount \/ ResetGive \/ ResetTake \/ ClientUnlock
  <2>1. UNCHANGED <<store, count, rvars, wvars, hist>>
    BY <1>1 DEF ClientCall, ClientTake, ClientFill, ClientCount, ResetGive, ResetTake, ClientUnlock, vars
  <2>2. /\ sem_read' \in 0..1 /\ sem_write' \in 0..1
        /\ mux' = mux \/ (mux = "free" /\ mux' = "client") \/ (mux = "client" /\ mux' = "free")
    BY <1>1 DEF ClientIInv, TypeOK, ClientMutex, ClientCall, ClientTake, ClientFill, ClientCount,
                ResetGive, ResetTake, ClientUnlock, vars, sync
  <2>3. TypeOK' /\ LockInv'
    BY <2>1, <2>2 DEF ClientIInv, TypeOK, LockInv, store, count, rvars, wvars, hist
  <2>4. SizedInv' /\ LoadInv' /\ CursorInv' /\ ContentInv' /\ StreamIntact'
    BY <2>1 DEF ClientIInv, SizedInv, LoadInv, CursorInv, ContentInv, StreamIntact, store, count,
                rvars, wvars, hist
  <2>5. ClientMutex'
    BY <1>1 DEF ClientIInv, ClientMutex, ClientCall, ClientTake, ClientFill, ClientCount, ResetGive,
                ResetTake, ClientUnlock, vars, sync
  <2> QED
    BY <2>3, <2>4, <2>5 DEF ClientIInv
<1> QED
  BY <1>1, ResetStep DEF Client

\* The inductive invariant holds at every step of the three tasks.
THEOREM ClientInvariance == ClientSpec => []ClientIInv
<1>1. ClientInit => ClientIInv
  <2>1. ClientInit => IInv
    BY InitInv DEF ClientInit
  <2>2. ClientInit => ClientMutex
    BY DEF ClientInit, Init, ClientMutex
  <2> QED
    BY <2>1, <2>2 DEF IInv, ClientIInv
<1>2. ClientIInv /\ [ClientNext]_<<vars, cvars>> => ClientIInv'
  <2> SUFFICES ASSUME ClientIInv, [ClientNext]_<<vars, cvars>> PROVE ClientIInv'
    OBVIOUS
  <2>1. CASE [Next]_vars /\ UNCHANGED cvars
    BY <2>1, LockStep, SizedStep, LoadStep, CursorStep, TypeStep, StreamStep, ContentStep,
       ClientMutexStep DEF ClientIInv
  <2>2. CASE Client
    BY <2>2, ClientStep
  <2> QED
    BY <2>1, <2>2 DEF ClientNext
<1> QED
  BY <1>1, <1>2, PTL DEF ClientSpec

\* A fill that audio_buffer_fill or audio_buffer_free reports is one the FIFO
\* had, whatever the two tasks were doing when it was asked.
THEOREM FillReported == ClientSpec => []FillIsConsistent
<1>1. ClientIInv => FillIsConsistent
  BY DEF ClientIInv, CursorInv, FillIsConsistent
<1> QED
  BY <1>1, ClientInvariance, PTL

\* With resets at any time the decoder still gets the stream written since the
\* last one, and no transfer leaves the storage.
THEOREM ResetsKeepStream == ClientSpec => [](StreamIntact /\ ChunkFits)
<1>1. ClientIInv => StreamIntact /\ ChunkFits
  BY DEF ClientIInv, ChunkFits, SizedInv, LoadInv, Sized
<1> QED
  BY <1>1, ClientInvariance, PTL

\* Once a counter call has taken the mutex twice, or a reset waits for a token
\* nobody is about to give, no step of any task ever moves a byte again.
THEOREM CaughtForEver == ClientSpec => CaughtIsForEver
<1>1. ClientIInv /\ [ClientNext]_<<vars, cvars>>
        => [Caught => Caught' /\ UNCHANGED <<store, mux, hist, cvars>>]_<<vars, cvars>>
  <2> SUFFICES ASSUME ClientIInv, ClientNext, Caught
               PROVE  Caught' /\ UNCHANGED <<store, mux, hist, cvars>>
    OBVIOUS
  <2>1. mux = "client" /\ rpc \notin Locked /\ wpc \notin Locked
    BY DEF Caught, ClientIInv, ClientMutex, LockInv
  <2>2. ~Client
    BY <2>1 DEF Caught, Client, ClientCall, ClientTake, ClientFill, ClientCount, ResetZero, ResetGive,
                ResetTake, ClientUnlock
  <2>3. Next /\ UNCHANGED cvars
    BY <2>2 DEF ClientNext
  <2>4. CASE Reader
    <3>1. ReadCall \/ ReadSize \/ ReadLowmark \/ ReadWait \/ ReadGive
      BY <2>1, <2>4 DEF Reader, Locked, ReadLock, ReadShort, ReadShortUnlock, ReadCopy, ReadCommit,
                        ReadUnlock
    <3>2. UNCHANGED <<store, mux, hist, wpc>> /\ (sem_read = 0 => sem_read' = 0)
      BY <3>1 DEF ReadCall, ReadSize, ReadLowmark, ReadWait, ReadGive, sync, wvars
    <3> QED
      BY <2>3, <3>2 DEF Caught, cvars
  <2>5. CASE WriteCall \/ Writing
    <3>1. WriteCall \/ WriteSize \/ WriteWait \/ WriteGive
      BY <2>1, <2>5 DEF Writing, Locked, WriteLock, WriteShort, WriteShortUnlock, WriteCopy, WriteCommit,
                        WriteUnlock
    <3>2. /\ UNCHANGED <<store, mux, hist>>
          /\ wpc # "give" => wpc' # "give" /\ sem_read' = sem_read
      BY <3>1 DEF WriteCall, WriteSize, WriteWait, WriteGive, sync
    <3> QED
      BY <2>3, <3>2 DEF Caught, cvars
  <2> QED
    BY <2>3, <2>4, <2>5 DEF Next
<1> QED
  BY <1>1, ClientInvariance, PTL DEF ClientSpec, CaughtIsForEver
=============================================================================
