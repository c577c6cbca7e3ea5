-------------------------- MODULE AudioOutputProofs --------------------------
(***************************************************************************)
(* Proofs about the output of the POSIX build, for every size of the ring, *)
(* of the chunk kept free, of the blocks and of the callback's buffers,    *)
(* any formats, and every interleaving of the decoder task and the         *)
(* callback thread.  The first part is about the ring alone (RtRing), for  *)
(* calls of any size; the second about the path that uses it.              *)
(***************************************************************************)
EXTENDS AudioOutput, Lemmas

----------------------------------------------------------------------------
(* The ring.                                                               *)

\* The slot i places behind slot p.
Slot(p, i) == IF p + i >= m_buffersize THEN p + i - m_buffersize ELSE p + i

Room == m_buffersize - m_outburst

LEMMA ModSlot ==
  ASSUME NEW p \in Slots, NEW n \in 0..m_buffersize
  PROVE  (p + n) % m_buffersize = Slot(p, n) /\ Slot(p, n) \in Slots
<1>1. m_buffersize \in Nat \ {0} /\ p \in 0..(m_buffersize - 1)
  BY BurstAssumption DEF Slots
<1>2. CASE p + n >= m_buffersize
  <2>1. p + n = 1 * m_buffersize + (p + n - m_buffersize) /\ p + n - m_buffersize \in 0..(m_buffersize - 1)
    BY <1>1, <1>2
  <2> QED
    BY <1>1, <1>2, <2>1 DEF Slot, Slots
<1>3. CASE p + n < m_buffersize
  BY <1>1, <1>3 DEF Slot, Slots
<1> QED
  BY <1>1, <1>2, <1>3

----------------------------------------------------------------------------
(* The inductive invariant.                                                *)

Steps == {"idle", "first", "rest", "publish"}

Typed ==
  /\ buffer \in [Slots -> Nat] /\ read_pos \in Slots /\ write_pos \in Slots
  /\ wpc \in Steps /\ wlen \in Nat /\ wfirst \in Nat
  /\ rpc \in Steps /\ rlen \in Nat /\ rfirst \in Nat
  /\ rout \in Seq(Nat) /\ sent \in Nat /\ played \in Seq(Nat)

\* What a write has taken for granted since it looked at the read cursor: the
\* callback can only have made more room.
WriteFits == wpc # "idle" =>
  /\ buf_used + wlen <= Room
  /\ wfirst = Least(m_buffersize - write_pos, wlen)

\* And the callback since it looked at the write cursor: the decoder can only
\* have put more bytes behind those.
ReadFits == rpc # "idle" =>
  /\ rlen <= buf_used
  /\ rfirst = Least(m_buffersize - read_pos, rlen)

\* The ring holds the bytes of the stream that have not been played.
Stored == \A i \in 0..(m_buffersize - 1) :
  i < buf_used => buffer[Slot(read_pos, i)] = Len(played) + i

\* Behind them, those of a write that are copied and not yet published.
Copied ==
  /\ wpc \in {"rest", "publish"} => \A s \in Slots :
       write_pos <= s /\ s < write_pos + wfirst => buffer[s] = sent + s - write_pos
  /\ wpc = "publish" => \A s \in Slots :
       s < wlen - wfirst => buffer[s] = sent + wfirst + s

\* What the callback has copied so far.
TakenSoFar ==
  /\ rpc = "rest" => Len(rout) = rfirst
  /\ rpc = "publish" => Len(rout) = rlen
  /\ rpc \in {"rest", "publish"} => \A i \in 1..Len(rout) : rout[i] = Len(played) + i - 1

RingInv == /\ Typed /\ CursorsCount /\ WriteFits /\ ReadFits
           /\ Stored /\ Copied /\ TakenSoFar /\ StreamIntact

----------------------------------------------------------------------------
\* Where the cursors are in terms of each other.
LEMMA UsedSlot ==
  ASSUME Typed
  PROVE  /\ buf_used \in 0..(m_buffersize - 1) /\ write_pos = Slot(read_pos, buf_used)
         /\ m_buffersize \in Nat \ {0} /\ Room \in Nat /\ Room < m_buffersize
         /\ read_pos \in 0..(m_buffersize - 1) /\ write_pos \in 0..(m_buffersize - 1)
  BY BurstAssumption DEF Typed, Slots, buf_used, Slot, Room

LEMMA FreeIsRest ==
  ASSUME Typed, buf_used <= Room
  PROVE  buf_free = Room - buf_used
  BY BurstAssumption DEF Typed, Slots, buf_used, buf_free, Room

\* A cursor that moves on by what is stored behind it keeps count.
LEMMA ReadMoves ==
  ASSUME Typed, NEW n \in 0..(m_buffersize - 1), n <= buf_used,
         read_pos' = Slot(read_pos, n), write_pos' = write_pos
  PROVE  buf_used' = buf_used - n
  BY BurstAssumption DEF Typed, Slots, buf_used, Slot

LEMMA WriteMoves ==
  ASSUME Typed, NEW n \in 0..(m_buffersize - 1), buf_used + n <= m_buffersize - 1,
         write_pos' = Slot(write_pos, n), read_pos' = read_pos
  PROVE  buf_used' = buf_used + n
  BY BurstAssumption DEF Typed, Slots, buf_used, Slot

LEMMA InitRing == Init => RingInv
<1> SUFFICES ASSUME Init PROVE RingInv
  OBVIOUS
<1>1. Typed
  <2>1. m_buffersize \in Nat \ {0}
    BY BurstAssumption
  <2> QED
    BY <2>1 DEF Init, Typed, Slots, Steps
<1>2. buf_used = 0 /\ Len(played) = 0 /\ sent = 0
  BY BurstAssumption DEF Init, buf_used
<1>3. CursorsCount
  BY <1>2, BurstAssumption DEF CursorsCount
<1>4. StreamIntact
  BY <1>2 DEF StreamIntact
<1> QED
  BY <1>1, <1>2, <1>3, <1>4 DEF Init, RingInv, WriteFits, ReadFits, Stored, Copied, TakenSoFar

LEMMA WriteCallRing ==
  ASSUME RingInv, WriteCall PROVE RingInv'
<1>1. PICK size \in WriteSizes : wlen' = Least(size, buf_free)
  BY DEF WriteCall
<1>2. /\ wfirst' = Least(m_buffersize - write_pos, wlen') /\ wpc' = "first"
      /\ UNCHANGED <<buffer, read_pos, write_pos, rvars, sent, played>>
  BY DEF WriteCall
<1>3. buf_free = Room - buf_used /\ buf_used <= Room
  BY FreeIsRest DEF RingInv, CursorsCount, Room
<1>4. size \in Nat
  BY BurstAssumption
<1>5. /\ buf_used \in 0..(m_buffersize - 1) /\ Room \in Nat
      /\ m_buffersize \in Nat /\ write_pos \in 0..(m_buffersize - 1)
  BY UsedSlot DEF RingInv
<1>6. wlen' \in Nat /\ buf_used + wlen' <= Room
  BY <1>1, <1>3, <1>4, <1>5 DEF Least
<1>7. wfirst' \in Nat
  BY <1>2, <1>5, <1>6 DEF Least
<1>8. buf_used' = buf_used
  BY <1>2 DEF buf_used
<1>9. Typed'
  BY <1>2, <1>6, <1>7 DEF RingInv, Typed, Steps, rvars
<1>10. WriteFits'
  BY <1>2, <1>6, <1>8 DEF WriteFits
<1> QED
  BY <1>2, <1>8, <1>9, <1>10
  DEF RingInv, CursorsCount, ReadFits, Stored, Copied, TakenSoFar, StreamIntact, rvars

LEMMA ReadCallRing ==
  ASSUME RingInv, ReadCall PROVE RingInv'
<1>1. PICK asked \in ReadSizes : rlen' = Least(asked, buf_used)
  BY DEF ReadCall
<1>2. /\ rfirst' = Least(m_buffersize - read_pos, rlen') /\ rpc' = "first" /\ rout' = << >>
      /\ UNCHANGED <<buffer, read_pos, write_pos, wvars, sent, played>>
  BY DEF ReadCall
<1>3. asked \in Nat
  BY BurstAssumption
<1>4. /\ buf_used \in 0..(m_buffersize - 1)
      /\ m_buffersize \in Nat /\ read_pos \in 0..(m_buffersize - 1)
  BY UsedSlot DEF RingInv
<1>5. rlen' \in Nat /\ rlen' <= buf_used
  BY <1>1, <1>3, <1>4 DEF Least
<1>6. rfirst' \in Nat
  BY <1>2, <1>4, <1>5 DEF Least
<1>7. buf_used' = buf_used
  BY <1>2 DEF buf_used
<1>8. Typed'
  BY <1>2, <1>5, <1>6 DEF RingInv, Typed, Steps, wvars
<1>9. ReadFits'
  BY <1>2, <1>5, <1>7 DEF ReadFits
<1> QED
  BY <1>2, <1>7, <1>8, <1>9
  DEF RingInv, CursorsCount, WriteFits, Stored, Copied, TakenSoFar, StreamIntact, wvars

----------------------------------------------------------------------------
(* The copies of a write.                                                  *)

\* The two parts of a write lie outside the stored bytes, and do not overlap.
LEMMA WriteOutside ==
  ASSUME Typed, WriteFits, wpc # "idle"
  PROVE  /\ wfirst <= wlen /\ write_pos + wfirst <= m_buffersize
         /\ wlen - wfirst <= write_pos
         /\ \A i \in 0..(m_buffersize - 1) : i < buf_used =>
              /\ Slot(read_pos, i) \in Slots
              /\ ~(write_pos <= Slot(read_pos, i) /\ Slot(read_pos, i) < write_pos + wfirst)
              /\ ~(Slot(read_pos, i) < wlen - wfirst)
<1>1. /\ buf_used + wlen < m_buffersize /\ wlen \in Nat
      /\ wfirst = Least(m_buffersize - write_pos, wlen)
      /\ buf_used \in 0..(m_buffersize - 1)
      /\ m_buffersize \in Nat /\ read_pos \in 0..(m_buffersize - 1)
      /\ write_pos \in 0..(m_buffersize - 1)
  BY UsedSlot DEF WriteFits, Typed
<1>2. write_pos = IF read_pos + buf_used >= m_buffersize
                  THEN read_pos + buf_used - m_buffersize ELSE read_pos + buf_used
  BY UsedSlot DEF Slot
<1> QED
  BY <1>1, <1>2 DEF Least, Slot, Slots

LEMMA WriteFirstRing ==
  ASSUME RingInv, WriteFirst PROVE RingInv'
<1>1. /\ wpc = "first" /\ wpc' = "rest"
      /\ UNCHANGED <<read_pos, write_pos, wlen, wfirst, rvars, sent, played>>
  BY DEF WriteFirst
<1>2. /\ buffer' \in [Slots -> Nat]
      /\ \A s \in Slots : buffer'[s] = IF write_pos <= s /\ s < write_pos + wfirst
                                       THEN sent + s - write_pos ELSE buffer[s]
  <2>1. buffer' = [s \in Slots |-> IF s \in write_pos..(write_pos + wfirst - 1)
                                   THEN sent + s - write_pos ELSE buffer[s]]
    BY DEF WriteFirst, Filled
  <2>2. write_pos \in Nat /\ wfirst \in Nat /\ sent \in Nat /\ Slots \subseteq Nat
        /\ buffer \in [Slots -> Nat]
    BY UsedSlot DEF RingInv, Typed, Slots
  <2> QED
    BY <2>1, <2>2
<1>3. buf_used' = buf_used
  BY <1>1 DEF buf_used
<1>4. Typed'
  BY <1>1, <1>2 DEF RingInv, Typed, Steps, rvars
<1>5. Stored'
  BY <1>1, <1>2, <1>3, WriteOutside DEF RingInv, Stored, Slot
<1>6. Copied'
  BY <1>1, <1>2 DEF RingInv, Copied
<1> QED
  BY <1>1, <1>3, <1>4, <1>5, <1>6
  DEF RingInv, CursorsCount, WriteFits, ReadFits, TakenSoFar, StreamIntact, rvars

LEMMA WriteRestRing ==
  ASSUME RingInv, WriteRest PROVE RingInv'
<1>1. /\ wpc = "rest" /\ wpc' = "publish"
      /\ UNCHANGED <<read_pos, write_pos, wlen, wfirst, rvars, sent, played>>
  BY DEF WriteRest
<1>2. /\ wfirst <= wlen /\ wlen \in Nat /\ wfirst \in Nat /\ write_pos \in Nat
      /\ wlen - wfirst <= write_pos
  BY <1>1, UsedSlot, WriteOutside DEF RingInv, Typed
<1>3. /\ buffer' \in [Slots -> Nat]
      /\ \A s \in Slots : buffer'[s] = IF s < wlen - wfirst THEN sent + wfirst + s ELSE buffer[s]
  <2>1. buffer' = [s \in Slots |-> IF s \in 0..(0 + (wlen - wfirst) - 1)
                                   THEN sent + wfirst + s - 0 ELSE buffer[s]]
    BY DEF WriteRest, Filled
  <2>2. sent \in Nat /\ Slots \subseteq Nat /\ buffer \in [Slots -> Nat]
    BY UsedSlot DEF RingInv, Typed, Slots
  <2> QED
    BY <1>2, <2>1, <2>2
<1>4. buf_used' = buf_used
  BY <1>1 DEF buf_used
<1>5. Typed'
  BY <1>1, <1>3 DEF RingInv, Typed, Steps, rvars
<1>6. Stored'
  BY <1>1, <1>3, <1>4, WriteOutside DEF RingInv, Stored, Slot
<1>7. Copied'
  <2>1. ASSUME NEW s \in Slots, write_pos <= s, s < write_pos + wfirst
        PROVE  buffer'[s] = sent + s - write_pos
    <3>1. ~(s < wlen - wfirst)
      BY <1>2, <2>1, UsedSlot DEF RingInv, Slots
    <3> QED
      BY <1>1, <1>3, <2>1, <3>1 DEF RingInv, Copied
  <2>2. ASSUME NEW s \in Slots, s < wlen - wfirst
        PROVE  buffer'[s] = sent + wfirst + s
    BY <1>3, <2>2
  <2> QED
    BY <1>1, <2>1, <2>2 DEF Copied
<1> QED
  BY <1>1, <1>4, <1>5, <1>6, <1>7
  DEF RingInv, CursorsCount, WriteFits, ReadFits, TakenSoFar, StreamIntact, rvars

LEMMA WritePublishRing ==
  ASSUME RingInv, WritePublish PROVE RingInv'
<1>1. /\ wpc = "publish" /\ wpc' = "idle" /\ sent' = sent + wlen
      /\ write_pos' = (write_pos + wlen) % m_buffersize
      /\ UNCHANGED <<buffer, read_pos, wlen, wfirst, rvars, played>>
  BY DEF WritePublish
<1>2. /\ buf_used \in 0..(m_buffersize - 1) /\ write_pos = Slot(read_pos, buf_used)
      /\ m_buffersize \in Nat \ {0} /\ Room \in Nat /\ Room < m_buffersize
      /\ read_pos \in 0..(m_buffersize - 1) /\ write_pos \in 0..(m_buffersize - 1)
  BY UsedSlot DEF RingInv
<1>3. /\ wlen \in Nat /\ buf_used + wlen <= Room
      /\ wfirst = Least(m_buffersize - write_pos, wlen)
  BY <1>1 DEF RingInv, Typed, WriteFits
<1>4. write_pos' = Slot(write_pos, wlen) /\ Slot(write_pos, wlen) \in Slots
  <2>1. write_pos \in Slots /\ wlen \in 0..m_buffersize
    BY <1>2, <1>3 DEF Slots
  <2> QED
    BY <1>1, <2>1, ModSlot
<1>5. buf_used' = buf_used + wlen
  <2>1. wlen \in 0..(m_buffersize - 1) /\ buf_used + wlen <= m_buffersize - 1
    BY <1>2, <1>3
  <2> QED
    BY <1>1, <1>4, <2>1, WriteMoves DEF RingInv
<1>6. Typed'
  BY <1>1, <1>3, <1>4 DEF RingInv, Typed, Steps, rvars
<1>7. CursorsCount'
  <2>1. buf_used = sent - Len(played) /\ sent \in Nat /\ Len(played) \in Nat
    BY DEF RingInv, CursorsCount, Typed
  <2> QED
    BY <1>1, <1>2, <1>3, <1>5, <2>1 DEF CursorsCount, Room
<1>8. ReadFits'
  BY <1>1, <1>2, <1>3, <1>5 DEF RingInv, ReadFits, Typed, rvars
<1>9. Stored'
  <2> SUFFICES ASSUME NEW i \in 0..(m_buffersize - 1), i < buf_used + wlen
               PROVE  buffer[Slot(read_pos, i)] = Len(played) + i
    BY <1>1, <1>5 DEF Stored
  <2>1. CASE i < buf_used
    BY <2>1 DEF RingInv, Stored
  <2>2. CASE ~(i < buf_used)
    <3> DEFINE j == i - buf_used
    <3>1. j \in Nat /\ j < wlen /\ i = buf_used + j
      BY <1>2, <1>3, <2>2
    <3>2. Len(played) + i = sent + j
      <4>1. buf_used = sent - Len(played) /\ sent \in Nat /\ Len(played) \in Nat
        BY DEF RingInv, CursorsCount, Typed
      <4> QED
        BY <1>2, <3>1, <4>1
    <3> HIDE DEF j
    <3>3. CASE j < wfirst
      <4>1. Slot(read_pos, i) = write_pos + j /\ write_pos + j \in Slots
        BY <1>2, <1>3, <3>1, <3>3 DEF Slot, Slots, Least
      <4>2. write_pos <= write_pos + j /\ write_pos + j < write_pos + wfirst
        BY <1>2, <1>3, <3>1, <3>3 DEF Least
      <4>3. buffer[write_pos + j] = sent + (write_pos + j) - write_pos
        BY <1>1, <4>1, <4>2 DEF RingInv, Copied
      <4>4. sent \in Nat
        BY DEF RingInv, Typed
      <4> QED
        BY <1>2, <3>1, <3>2, <4>1, <4>3, <4>4
    <3>4. CASE ~(j < wfirst)
      <4>1. Slot(read_pos, i) = j - wfirst /\ j - wfirst \in Slots /\ j - wfirst < wlen - wfirst
            /\ wfirst \in Nat
        BY <1>2, <1>3, <3>1, <3>4 DEF Slot, Slots, Least
      <4>2. buffer[j - wfirst] = sent + wfirst + (j - wfirst)
        BY <1>1, <4>1 DEF RingInv, Copied
      <4>3. sent \in Nat
        BY DEF RingInv, Typed
      <4> QED
        BY <3>1, <3>2, <4>1, <4>2, <4>3
    <3> QED
      BY <3>3, <3>4
  <2> QED
    BY <2>1, <2>2
<1> QED
  BY <1>1, <1>6, <1>7, <1>8, <1>9
  DEF RingInv, WriteFits, Copied, TakenSoFar, StreamIntact, rvars
----------------------------------------------------------------------------
(* The copies of a read.                                                   *)

LEMMA ReadBounds ==
  ASSUME Typed, ReadFits, rpc # "idle"
  PROVE  /\ rfirst <= rlen /\ rlen <= buf_used /\ read_pos + rfirst <= m_buffersize
         /\ rfirst < rlen => read_pos + rfirst = m_buffersize
         /\ rlen \in 0..(m_buffersize - 1) /\ rfirst \in Nat
         /\ m_buffersize \in Nat /\ read_pos \in 0..(m_buffersize - 1)
<1>1. /\ buf_used \in 0..(m_buffersize - 1) /\ m_buffersize \in Nat
      /\ read_pos \in 0..(m_buffersize - 1) /\ rlen \in Nat /\ rfirst \in Nat
  BY UsedSlot DEF Typed
<1>2. rlen <= buf_used /\ rfirst = Least(m_buffersize - read_pos, rlen)
  BY DEF ReadFits
<1> QED
  BY <1>1, <1>2 DEF Least

LEMMA StoredByte ==
  ASSUME RingInv, NEW i \in Nat, i < buf_used
  PROVE  /\ Slot(read_pos, i) \in Slots
         /\ buffer[Slot(read_pos, i)] = Len(played) + i
         /\ Len(played) + i \in Nat
<1>1. buf_used \in 0..(m_buffersize - 1) /\ i \in 0..(m_buffersize - 1)
      /\ m_buffersize \in Nat /\ read_pos \in 0..(m_buffersize - 1)
  BY UsedSlot DEF RingInv
<1>2. Len(played) \in Nat
  BY DEF RingInv, Typed
<1> QED
  BY <1>1, <1>2, SMTT(30) DEF RingInv, Stored, Slot, Slots

\* What a copy out of the ring returns.
LEMMA TakenSeq ==
  ASSUME NEW p \in Nat, NEW n \in Nat, NEW m \in Nat,
         \A i \in 1..n : buffer[p + i - 1] = m + i - 1
  PROVE  /\ Taken(p, n) \in Seq(Nat) /\ Len(Taken(p, n)) = n
         /\ \A i \in 1..n : Taken(p, n)[i] = m + i - 1
<1>1. Taken(p, n) = [i \in 1..n |-> buffer[p + i - 1]]
  BY DEF Taken
<1>2. \A i \in 1..n : buffer[p + i - 1] = m + i - 1 /\ m + i - 1 \in Nat
  OBVIOUS
<1>3. Taken(p, n) \in [1..n -> Nat]
  <2>1. \A i \in 1..n : buffer[p + i - 1] \in Nat
    BY <1>2
  <2> QED
    BY <1>1, <2>1
<1>4. Taken(p, n) \in Seq(Nat) /\ Len(Taken(p, n)) = n
  BY <1>3
<1>5. \A i \in 1..n : Taken(p, n)[i] = m + i - 1
  BY <1>1
<1> QED
  BY <1>4, <1>5

LEMMA ReadFirstRing ==
  ASSUME RingInv, ReadFirst PROVE RingInv'
<1>1. /\ rpc = "first" /\ rpc' = "rest" /\ rout' = Taken(read_pos, rfirst)
      /\ UNCHANGED <<buffer, read_pos, write_pos, wvars, rlen, rfirst, sent, played>>
  BY DEF ReadFirst
<1>2. /\ rfirst <= buf_used /\ read_pos + rfirst <= m_buffersize /\ rfirst \in Nat
      /\ m_buffersize \in Nat /\ read_pos \in Nat /\ buf_used \in Nat
  BY <1>1, ReadBounds, UsedSlot DEF RingInv
<1>3. ASSUME NEW i \in 1..rfirst
      PROVE  buffer[read_pos + i - 1] = Len(played) + i - 1 /\ Len(played) + i - 1 \in Nat
  <2>1. i - 1 \in Nat /\ i - 1 < buf_used /\ Slot(read_pos, i - 1) = read_pos + i - 1
    BY <1>2 DEF Slot
  <2>2. Len(played) \in Nat
    BY DEF RingInv, Typed
  <2> QED
    BY <2>1, <2>2, StoredByte
<1>4. /\ rout' \in Seq(Nat) /\ Len(rout') = rfirst
      /\ \A i \in 1..rfirst : rout'[i] = Len(played) + i - 1
  <2>1. Len(played) \in Nat
    BY DEF RingInv, Typed
  <2>2. \A i \in 1..rfirst : buffer[read_pos + i - 1] = Len(played) + i - 1
    BY <1>3
  <2>3. /\ Taken(read_pos, rfirst) \in Seq(Nat) /\ Len(Taken(read_pos, rfirst)) = rfirst
        /\ \A i \in 1..rfirst : Taken(read_pos, rfirst)[i] = Len(played) + i - 1
    BY <1>2, <2>1, <2>2, TakenSeq, ZenonT(30)
  <2> QED
    BY <1>1, <2>3
<1>5. Typed'
  BY <1>1, <1>4 DEF RingInv, Typed, Steps, wvars
<1>6. TakenSoFar'
  BY <1>1, <1>4 DEF TakenSoFar
<1>7. buf_used' = buf_used
  BY <1>1 DEF buf_used
<1> QED
  BY <1>1, <1>5, <1>6, <1>7
  DEF RingInv, CursorsCount, WriteFits, ReadFits, Stored, Copied, StreamIntact, wvars

\* A stream goes on with the next bytes.
LEMMA Appended ==
  ASSUME NEW s \in Seq(Nat), NEW t \in Seq(Nat), NEW m \in Nat,
         \A i \in 1..Len(s) : s[i] = m + i - 1,
         \A i \in 1..Len(t) : t[i] = m + Len(s) + i - 1
  PROVE  /\ s \o t \in Seq(Nat) /\ Len(s \o t) = Len(s) + Len(t)
         /\ \A i \in 1..Len(s \o t) : (s \o t)[i] = m + i - 1
<1>1. s \o t \in Seq(Nat) /\ Len(s \o t) = Len(s) + Len(t)
  OBVIOUS
<1>2. ASSUME NEW i \in 1..Len(s \o t) PROVE (s \o t)[i] = m + i - 1
  <2>1. CASE i <= Len(s)
    BY <1>1, <2>1
  <2>2. CASE ~(i <= Len(s))
    <3>1. (s \o t)[i] = t[i - Len(s)] /\ i - Len(s) \in 1..Len(t)
      BY <1>1, <2>2
    <3>2. t[i - Len(s)] = m + Len(s) + (i - Len(s)) - 1
      BY <3>1
    <3>3. i \in Nat /\ Len(s) \in Nat
      BY <1>1
    <3> QED
      BY <3>1, <3>2, <3>3
  <2> QED
    BY <1>1, <2>1, <2>2
<1> QED
  BY <1>1, <1>2

LEMMA ReadRestRing ==
  ASSUME RingInv, ReadRest PROVE RingInv'
<1>1. /\ rpc = "rest" /\ rpc' = "publish" /\ rout' = rout \o Taken(0, rlen - rfirst)
      /\ UNCHANGED <<buffer, read_pos, write_pos, wvars, rlen, rfirst, sent, played>>
  BY DEF ReadRest
<1>2. /\ rfirst <= rlen /\ rlen <= buf_used /\ rfirst \in Nat /\ rlen \in Nat
      /\ rfirst < rlen => read_pos + rfirst = m_buffersize
      /\ m_buffersize \in Nat /\ read_pos \in 0..(m_buffersize - 1)
      /\ buf_used \in 0..(m_buffersize - 1)
  BY <1>1, ReadBounds, UsedSlot DEF RingInv
<1>3. /\ rout \in Seq(Nat) /\ Len(rout) = rfirst /\ Len(played) \in Nat
      /\ \A i \in 1..Len(rout) : rout[i] = Len(played) + i - 1
  <2>1. rout \in Seq(Nat) /\ Len(played) \in Nat
    BY DEF RingInv, Typed
  <2>2. Len(rout) = rfirst
    BY <1>1 DEF RingInv, TakenSoFar
  <2>3. \A i \in 1..Len(rout) : rout[i] = Len(played) + i - 1
    BY <1>1 DEF RingInv, TakenSoFar
  <2> QED
    BY <2>1, <2>2, <2>3
<1>4. \A i \in 1..(rlen - rfirst) : buffer[0 + i - 1] = (Len(played) + rfirst) + i - 1
  <2> SUFFICES ASSUME NEW i \in 1..(rlen - rfirst)
               PROVE  buffer[0 + i - 1] = (Len(played) + rfirst) + i - 1
    OBVIOUS
  <2>1. rfirst + i - 1 \in Nat /\ rfirst + i - 1 < buf_used
        /\ Slot(read_pos, rfirst + i - 1) = i - 1 /\ 0 + i - 1 = i - 1
    BY <1>2 DEF Slot
  <2>2. /\ buffer[Slot(read_pos, rfirst + i - 1)] = Len(played) + (rfirst + i - 1)
        /\ Len(played) + (rfirst + i - 1) \in Nat
    BY <2>1, StoredByte
  <2> QED
    BY <1>2, <1>3, <2>1, <2>2
<1> DEFINE rest == Taken(0, rlen - rfirst)
<1>5. /\ rest \in Seq(Nat) /\ Len(rest) = rlen - rfirst
      /\ \A i \in 1..(rlen - rfirst) : rest[i] = (Len(played) + rfirst) + i - 1
  <2>1. rlen - rfirst \in Nat /\ Len(played) + rfirst \in Nat
    BY <1>2, <1>3
  <2> QED
    BY <1>4, <2>1, TakenSeq, ZenonT(30)
<1>6. /\ rout' \in Seq(Nat) /\ Len(rout') = rlen
      /\ \A i \in 1..Len(rout') : rout'[i] = Len(played) + i - 1
  <2>1. rout' = rout \o rest
    BY <1>1
  <2> HIDE DEF rest
  <2>2. \A i \in 1..Len(rest) : rest[i] = Len(played) + Len(rout) + i - 1
    BY <1>3, <1>5
  <2>3. /\ rout \o rest \in Seq(Nat) /\ Len(rout \o rest) = Len(rout) + Len(rest)
        /\ \A i \in 1..Len(rout \o rest) : (rout \o rest)[i] = Len(played) + i - 1
    BY <1>3, <1>5, <2>2, Appended
  <2>4. Len(rout) + Len(rest) = rlen
    BY <1>2, <1>3, <1>5
  <2> QED
    BY <2>1, <2>3, <2>4
<1>7. Typed'
  BY <1>1, <1>6 DEF RingInv, Typed, Steps, wvars
<1>8. TakenSoFar'
  BY <1>1, <1>6 DEF TakenSoFar
<1>9. buf_used' = buf_used
  BY <1>1 DEF buf_used
<1> QED
  BY <1>1, <1>7, <1>8, <1>9
  DEF RingInv, CursorsCount, WriteFits, ReadFits, Stored, Copied, StreamIntact, wvars

LEMMA ReadPublishRing ==
  ASSUME RingInv, ReadPublish PROVE RingInv'
<1>1. /\ rpc = "publish" /\ rpc' = "idle" /\ played' = played \o rout
      /\ read_pos' = (read_pos + rlen) % m_buffersize
      /\ UNCHANGED <<buffer, write_pos, wvars, rlen, rfirst, rout, sent>>
  BY DEF ReadPublish
<1>2. /\ rlen <= buf_used /\ rlen \in 0..(m_buffersize - 1)
      /\ m_buffersize \in Nat \ {0} /\ read_pos \in 0..(m_buffersize - 1)
      /\ buf_used \in 0..(m_buffersize - 1) /\ Room \in Nat
  BY <1>1, ReadBounds, UsedSlot DEF RingInv
<1>3. read_pos' = Slot(read_pos, rlen) /\ Slot(read_pos, rlen) \in Slots
  <2>1. read_pos \in Slots /\ rlen \in 0..m_buffersize
    BY <1>2 DEF Slots
  <2> QED
    BY <1>1, <2>1, ModSlot
<1>4. buf_used' = buf_used - rlen
  BY <1>1, <1>2, <1>3, ReadMoves DEF RingInv
<1>5. /\ played \in Seq(Nat) /\ rout \in Seq(Nat) /\ Len(rout) = rlen /\ sent \in Nat
      /\ \A i \in 1..rlen : rout[i] = Len(played) + i - 1
  BY <1>1 DEF RingInv, Typed, TakenSoFar
<1>6. played' \in Seq(Nat) /\ Len(played') = Len(played) + rlen /\ Len(played) \in Nat
  BY <1>1, <1>5
<1>7. Typed'
  BY <1>1, <1>3, <1>6 DEF RingInv, Typed, Steps, wvars
<1>8. CursorsCount'
  <2>1. buf_used = sent - Len(played) /\ buf_used <= Room
    BY DEF RingInv, CursorsCount, Room
  <2> QED
    BY <1>1, <1>2, <1>4, <1>5, <1>6, <2>1 DEF CursorsCount, Room
<1>9. WriteFits'
  BY <1>1, <1>2, <1>4 DEF RingInv, WriteFits, Typed, wvars
<1>10. Stored'
  <2> SUFFICES ASSUME NEW i \in 0..(m_buffersize - 1), i < buf_used - rlen
               PROVE  buffer[Slot(read_pos', i)] = Len(played') + i
    BY <1>1, <1>4 DEF Stored
  <2>1. rlen + i \in Nat /\ rlen + i < buf_used
    BY <1>2
  <2>2. Slot(read_pos', i) = Slot(read_pos, rlen + i)
    BY <1>2, <1>3, <2>1 DEF Slot
  <2>3. buffer[Slot(read_pos, rlen + i)] = Len(played) + (rlen + i)
    BY <2>1, StoredByte
  <2> QED
    BY <1>2, <1>6, <2>2, <2>3
<1>11. StreamIntact'
  <2> SUFFICES ASSUME NEW i \in 1..Len(played') PROVE played'[i] = i - 1
    BY DEF StreamIntact
  <2>1. CASE i <= Len(played)
    <3>1. played'[i] = played[i] /\ i \in 1..Len(played)
      BY <1>1, <1>5, <1>6, <2>1
    <3> QED
      BY <3>1 DEF RingInv, StreamIntact
  <2>2. CASE ~(i <= Len(played))
    <3>1. played'[i] = rout[i - Len(played)] /\ i - Len(played) \in 1..rlen
      BY <1>1, <1>2, <1>5, <1>6, <2>2
    <3>2. rout[i - Len(played)] = Len(played) + (i - Len(played)) - 1
      BY <1>5, <3>1
    <3> QED
      BY <1>6, <3>1, <3>2
  <2> QED
    BY <1>6, <2>1, <2>2
<1> QED
  BY <1>1, <1>7, <1>8, <1>9, <1>10, <1>11
  DEF RingInv, ReadFits, Copied, TakenSoFar, wvars

----------------------------------------------------------------------------
LEMMA NextRing == RingInv /\ [Next]_vars => RingInv'
<1> SUFFICES ASSUME RingInv, [Next]_vars PROVE RingInv'
  OBVIOUS
<1>1. CASE WriteCall
  BY <1>1, WriteCallRing
<1>2. CASE Writing
  BY <1>2, WriteFirstRing, WriteRestRing, WritePublishRing DEF Writing
<1>3. CASE Reading
  BY <1>3, ReadCallRing, ReadFirstRing, ReadRestRing, ReadPublishRing DEF Reading
<1>4. CASE UNCHANGED vars
  BY <1>4 DEF vars, wvars, rvars, RingInv, Typed, CursorsCount, WriteFits, ReadFits, Stored,
              Copied, TakenSoFar, StreamIntact, buf_used
<1> QED
  BY <1>1, <1>2, <1>3, <1>4 DEF Next

THEOREM RingInvariance == Spec => []RingInv
  BY InitRing, NextRing, PTL DEF Spec

\* The device gets the bytes that were written, in order, from a ring without
\* a lock, for every size of the ring and of the calls.
THEOREM DeviceGetsStream == Spec => []StreamIntact
<1>1. RingInv => StreamIntact
  BY DEF RingInv
<1> QED
  BY <1>1, RingInvariance, PTL

\* The cursors always agree with the bytes gone in and out.
THEOREM CursorsAgree == Spec => []CursorsCount
<1>1. RingInv => CursorsCount
  BY DEF RingInv
<1> QED
  BY <1>1, RingInvariance, PTL

----------------------------------------------------------------------------
(* The ring implements the bounded channel.                                *)

\* The bytes behind a cursor, when they are the stream from byte k.
LEMMA BehindCursor ==
  ASSUME NEW b, NEW p \in Slots, NEW k \in Nat, NEW n \in 0..(m_buffersize - 1),
         \A i \in 0..(m_buffersize - 1) : i < n => b[Slot(p, i)] = k + i
  PROVE  [i \in 1..n |-> b[(p + i - 1) % m_buffersize]] = Run(k, n)
<1>1. ASSUME NEW i \in 1..n PROVE b[(p + i - 1) % m_buffersize] = k + i - 1
  <2>1. i - 1 \in 0..(m_buffersize - 1) /\ i - 1 < n /\ i - 1 \in 0..m_buffersize
        /\ p + i - 1 = p + (i - 1)
    BY BurstAssumption DEF Slots
  <2>2. (p + (i - 1)) % m_buffersize = Slot(p, i - 1)
    BY <2>1, ModSlot
  <2>3. b[Slot(p, i - 1)] = k + (i - 1)
    BY <2>1
  <2>4. k + (i - 1) = k + i - 1
    OBVIOUS
  <2> QED
    BY <2>1, <2>2, <2>3, <2>4
<1> QED
  BY <1>1 DEF Run

LEMMA InflightIsRun ==
  ASSUME RingInv PROVE Inflight = Run(Len(played), buf_used)
<1>1. buf_used \in 0..(m_buffersize - 1) /\ read_pos \in Slots /\ Len(played) \in Nat
  BY UsedSlot DEF RingInv, Typed
<1> QED
  BY <1>1, BehindCursor DEF RingInv, Stored, Inflight

LEMMA BetweenCursors ==
  ASSUME NEW r \in Slots, NEW w \in Slots
  PROVE  (IF w - r < 0 THEN w - r + m_buffersize ELSE w - r) \in 0..(m_buffersize - 1)
  BY BurstAssumption DEF Slots

\* What is under way after a step.
LEMMA NextInflightIsRun ==
  ASSUME RingInv' PROVE Inflight' = Run(Len(played'), buf_used')
<1>1. buf_used' \in 0..(m_buffersize - 1) /\ read_pos' \in Slots /\ Len(played') \in Nat
  <2>1. read_pos' \in Slots /\ write_pos' \in Slots /\ played' \in Seq(Nat)
    BY DEF RingInv, Typed
  <2>2. buf_used' \in 0..(m_buffersize - 1)
    <3>1. buf_used' = IF write_pos' - read_pos' < 0 THEN write_pos' - read_pos' + m_buffersize
                      ELSE write_pos' - read_pos'
      BY DEF buf_used
    <3> QED
      BY <2>1, <3>1, BetweenCursors
  <2> QED
    BY <2>1, <2>2
<1>2. \A i \in 0..(m_buffersize - 1) : i < buf_used' => buffer'[Slot(read_pos', i)] = Len(played') + i
  BY DEF RingInv, Stored, Slot
<1> QED
  BY <1>1, <1>2, BehindCursor DEF Inflight

\* A write is put into the channel when its cursor moves.
LEMMA PublishPuts ==
  ASSUME RingInv, RingInv', WritePublish
  PROVE  [Channel!Next]_(Channel!vars)
<1>1. /\ Inflight = Run(Len(played), buf_used) /\ Inflight' = Run(Len(played'), buf_used')
      /\ played' = played
  BY InflightIsRun, NextInflightIsRun DEF WritePublish
<1>2. /\ wlen \in Nat /\ buf_used + wlen <= Room /\ buf_used \in Nat /\ Len(played) \in Nat
      /\ Room \in Nat /\ m_buffersize \in Nat /\ Room < m_buffersize
  BY UsedSlot DEF RingInv, Typed, WriteFits, WritePublish
<1>3. buf_used' = buf_used + wlen
  <2>1. /\ buf_used = sent - Len(played) /\ buf_used' = sent' - Len(played')
        /\ sent' = sent + wlen /\ sent \in Nat
    BY DEF RingInv, CursorsCount, Typed, WritePublish
  <2> QED
    BY <1>1, <1>2, <2>1
<1>4. CASE wlen = 0
  BY <1>1, <1>2, <1>3, <1>4 DEF Channel!vars
<1>5. CASE wlen # 0
  <2>1. wlen \in 1..m_buffersize
    BY <1>2, <1>5
  <2>2. Len(Inflight) = buf_used
    BY <1>1, <1>2, RunSeq
  <2>3. Inflight' = Inflight \o Run(Len(played) + buf_used, wlen)
    BY <1>1, <1>2, <1>3, RunJoin
  <2>4. Run(Len(played) + buf_used, wlen) = [i \in 1..wlen |-> Channel!Sent + i - 1]
    BY <2>2 DEF Run, Channel!Sent
  <2>5. Channel!Put(wlen)
    BY <1>1, <1>2, <2>2, <2>3, <2>4 DEF Channel!Put, Room
  <2> QED
    BY <2>1, <2>5 DEF Channel!Next
<1> QED
  BY <1>4, <1>5

\* A read is delivered when its cursor moves.
LEMMA PublishDelivers ==
  ASSUME RingInv, RingInv', ReadPublish
  PROVE  [Channel!Next]_(Channel!vars)
<1>1. /\ Inflight = Run(Len(played), buf_used) /\ Inflight' = Run(Len(played'), buf_used')
      /\ played' = played \o rout
  BY InflightIsRun, NextInflightIsRun DEF ReadPublish
<1>2. /\ rlen \in 0..buf_used /\ buf_used \in Nat /\ Len(played) \in Nat
      /\ m_buffersize \in Nat /\ buf_used < m_buffersize
  <2>1. buf_used \in 0..(m_buffersize - 1) /\ m_buffersize \in Nat /\ Len(played) \in Nat
    BY UsedSlot, SMTT(30) DEF RingInv, Typed
  <2>2. rlen <= buf_used /\ rlen \in Nat
    BY DEF RingInv, ReadFits, Typed, ReadPublish
  <2> QED
    BY <2>1, <2>2
<1>3. rout = Run(Len(played), rlen)
  <2>1. rout \in Seq(Nat) /\ Len(rout) = rlen /\ \A i \in 1..Len(rout) : rout[i] = Len(played) + i - 1
    BY DEF RingInv, Typed, TakenSoFar, ReadPublish
  <2> QED
    BY <1>2, <2>1, IsRun
<1>4. Len(played') = Len(played) + rlen /\ buf_used' = buf_used - rlen
  <2>1. /\ buf_used = sent - Len(played) /\ buf_used' = sent' - Len(played')
        /\ sent' = sent /\ sent \in Nat /\ played \in Seq(Nat) /\ rout \in Seq(Nat)
    BY DEF RingInv, CursorsCount, Typed, ReadPublish
  <2>2. Len(played') = Len(played) + rlen
    <3>1. Len(rout) = rlen
      BY DEF RingInv, TakenSoFar, ReadPublish
    <3>2. Len(played \o rout) = Len(played) + Len(rout)
      BY <2>1, Joined
    <3> QED
      BY <1>1, <3>1, <3>2
  <2> QED
    BY <1>2, <2>1, <2>2
<1>5. CASE rlen = 0
  <2>1. Inflight' = Inflight
    BY <1>1, <1>2, <1>4, <1>5
  <2>2. played' = played
    <3>1. played \in Seq(Nat) /\ rout \in Seq(Nat) /\ Len(rout) = 0
      BY <1>2, <1>3, <1>5, RunSeq DEF RingInv, Typed
    <3> QED
      BY <1>1, <3>1
  <2> QED
    BY <2>1, <2>2 DEF Channel!vars
<1>6. CASE rlen # 0
  <2>1. rlen \in 1..m_buffersize
    BY <1>2, <1>6
  <2>2. Len(Inflight) = buf_used
    BY <1>1, <1>2, RunSeq
  <2>3. /\ SubSeq(Inflight, 1, rlen) = rout
        /\ SubSeq(Inflight, rlen + 1, Len(Inflight)) = Inflight'
    <3>1. /\ SubSeq(Run(Len(played), buf_used), 1, rlen) = Run(Len(played), rlen)
          /\ SubSeq(Run(Len(played), buf_used), rlen + 1, buf_used)
               = Run(Len(played) + rlen, buf_used - rlen)
      BY <1>2, RunParts
    <3> HIDE DEF Inflight
    <3>2. SubSeq(Inflight, 1, rlen) = rout
      BY <1>1, <1>3, <3>1, Zenon
    <3>3. SubSeq(Inflight, rlen + 1, Len(Inflight)) = Inflight'
      BY <1>1, <1>4, <2>2, <3>1, Zenon
    <3> QED
      BY <3>2, <3>3
  <2>4. Channel!Deliver(rlen)
    <3>1. rlen <= Len(Inflight)
      BY <1>2, <2>2
    <3>2. played' = played \o SubSeq(Inflight, 1, rlen)
      BY <1>1, <2>3, Zenon
    <3> QED
      BY <2>3, <3>1, <3>2, Zenon DEF Channel!Deliver
  <2> QED
    BY <2>1, <2>4 DEF Channel!Next
<1> QED
  BY <1>5, <1>6

\* No other step shows.
LEMMA OtherStepsStutter ==
  ASSUME RingInv, RingInv', [Next]_vars, ~WritePublish, ~ReadPublish
  PROVE  UNCHANGED Channel!vars
<1>1. UNCHANGED <<read_pos, write_pos, played>>
  BY DEF Next, Reading, Writing, WriteCall, WriteFirst, WriteRest, ReadCall, ReadFirst, ReadRest,
         vars, wvars, rvars
<1>2. buf_used' = buf_used
  BY <1>1 DEF buf_used
<1>3. Inflight = Run(Len(played), buf_used) /\ Inflight' = Run(Len(played'), buf_used')
  BY InflightIsRun, NextInflightIsRun
<1> QED
  BY <1>1, <1>2, <1>3 DEF Channel!vars

LEMMA InitChannel ==
  ASSUME Init PROVE Channel!Init
<1>1. buf_used = 0 /\ played = << >>
  BY BurstAssumption DEF Init, buf_used
<1>2. Inflight = << >>
  BY <1>1 DEF Inflight
<1> QED
  BY <1>1, <1>2 DEF Channel!Init

\* Between the decoder and the device the ring, its cursors that neither side
\* locks and its copies in two parts, is no more than a bounded channel.
THEOREM RingIsChannel == Spec => ChannelSpec
<1>1. Init => Channel!Init
  BY InitChannel
<1>2. RingInv /\ RingInv' /\ [Next]_vars => [Channel!Next]_(Channel!vars)
  <2> SUFFICES ASSUME RingInv, RingInv', [Next]_vars PROVE [Channel!Next]_(Channel!vars)
    OBVIOUS
  <2>1. CASE WritePublish
    BY <2>1, PublishPuts
  <2>2. CASE ReadPublish
    BY <2>2, PublishDelivers
  <2>3. CASE ~WritePublish /\ ~ReadPublish
    BY <2>3, OtherStepsStutter
  <2> QED
    BY <2>1, <2>2, <2>3
<1> QED
  BY <1>1, <1>2, RingInvariance, PTL DEF Spec, ChannelSpec, Channel!Spec

----------------------------------------------------------------------------
(* The path over the ring: the inductive invariant.                        *)

\* adif_config has the device follow the copy it keeps, and the copy follows
\* the block: the three differ only in the steps in between.
FormatInv ==
  /\ step \in {"idle", "config", "open", "send"}
  /\ adif_format \in Formats \cup {Unset}
  /\ step # "idle" => adif_format = buffer_fmt
  /\ device # Closed /\ step \in {"idle", "send"} => device = adif_format

Whole(n) == n % SampleSize = 0

\* Whole samples go in and out, so the ring takes a sample or nothing.
SampleInv ==
  /\ Whole(sent) /\ Whole(Len(played)) /\ Whole(rlen)
  /\ len \in {0, SampleSize} /\ offered \in Nat /\ offered * SampleSize = sent + len
  /\ wpc # "idle" => step = "send" /\ len = SampleSize /\ wlen \in {0, SampleSize}

\* Byte i of the stream is a byte of sample (i + 1) \div 2, low byte first.
AcceptedInv ==
  /\ accepted \in Seq(Nat \X Nat) /\ Len(accepted) = sent
  /\ \A i \in 1..Len(accepted) :
       accepted[i] = <<(i + 1) \div SampleSize, ((i - 1) % SampleSize) + 1>>

OutputInv == FormatInv /\ SampleInv /\ AcceptedInv

----------------------------------------------------------------------------
\* The path over the ring moves the ring as adif-rt.cpp does.
THEOREM OutputKeepsRing == OutputSpec => Spec
<1>1. OutputInit => Init
  BY DEF OutputInit
<1>2. [OutputNext]_allvars => [Next]_vars
  BY DEF OutputNext, Rendering, RenderBlock, CloseStream, OpenStream, NextSample, SendCall, SendCopy,
         SendReturn, BlockEnd, Callback, allvars, Next, Writing
<1> QED
  BY <1>1, <1>2, PTL DEF OutputSpec, Spec

LEMMA FormatStep ==
  ASSUME FormatInv, [OutputNext]_allvars PROVE FormatInv'
<1> USE FormatsAssumption DEF FormatInv
<1>1. CASE RenderBlock
  <2>1. PICK format \in Formats :
          /\ step = "idle" /\ buffer_fmt' = format
          /\ adif_format' = IF Changed(format) THEN format ELSE adif_format
          /\ step' = IF Changed(format) THEN "config" ELSE "send"
          /\ device' = device
    BY <1>1 DEF RenderBlock, SetFormat
  <2>2. ~Changed(format) => adif_format = format
    BY DEF Changed, Unset
  <2> QED
    BY <2>1, <2>2
<1>2. CASE CloseStream
  BY <1>2 DEF CloseStream, adifvars
<1>3. CASE OpenStream
  BY <1>3 DEF OpenStream, adifvars
<1>4. CASE NextSample \/ SendCall \/ SendCopy \/ SendReturn \/ Callback
  BY <1>4 DEF NextSample, SendCall, SendCopy, SendReturn, Callback, adifvars, rendervars
<1>5. CASE BlockEnd
  BY <1>5 DEF BlockEnd, adifvars
<1>6. CASE UNCHANGED allvars
  BY <1>6 DEF allvars, adifvars, rendervars
<1> QED
  BY <1>1, <1>2, <1>3, <1>4, <1>5, <1>6 DEF OutputNext, Rendering

----------------------------------------------------------------------------
LEMMA WholeSum ==
  ASSUME NEW m \in Nat, NEW n \in Nat, Whole(m), Whole(n) PROVE Whole(m + n)
  BY DEF Whole, SampleSize

\* What the ring has room for is whole samples.
LEMMA FreeIsWhole ==
  ASSUME RingInv, SampleInv
  PROVE  Whole(buf_used) /\ Whole(buf_free) /\ buf_used \in Nat /\ buf_free \in Nat
<1>1. /\ buf_used = sent - Len(played) /\ buf_used <= Room
      /\ sent \in Nat /\ Len(played) \in Nat
  BY DEF RingInv, CursorsCount, Typed, Room
<1>2. buf_free = Room - buf_used /\ buf_used \in Nat
  BY <1>1, FreeIsRest, UsedSlot DEF RingInv
<1>3. Room = m_buffersize - m_outburst /\ m_buffersize \in Nat /\ m_outburst \in Nat /\ Room \in Nat
  BY BurstAssumption DEF Room
<1>4. Whole(m_buffersize) /\ Whole(m_outburst) /\ Whole(sent) /\ Whole(Len(played))
  BY SampleAssumption DEF SampleInv, Whole
<1>5. Whole(buf_used)
  BY <1>1, <1>2, <1>4 DEF Whole, SampleSize
<1>6. Whole(Room)
  BY <1>3, <1>4 DEF Whole, SampleSize
<1> QED
  BY <1>1, <1>2, <1>3, <1>5, <1>6 DEF Whole, SampleSize

LEMMA SampleWrite ==
  ASSUME RingInv, SampleInv, SendCall PROVE SampleInv'
<1>1. /\ step = "send" /\ len = SampleSize /\ wlen' = Least(SampleSize, buf_free)
      /\ UNCHANGED <<sent, played, rlen, len, offered, step>>
  BY SampleAssumption DEF SendCall, WriteCall, rendervars, rvars, SampleInv
<1>2. wlen' \in {0, SampleSize}
  BY <1>1, FreeIsWhole DEF Whole, SampleSize, Least
<1> QED
  BY <1>1, <1>2 DEF SampleInv, Whole

LEMMA SampleReturn ==
  ASSUME RingInv, SampleInv, SendReturn PROVE SampleInv'
<1>1. /\ wpc' = "idle" /\ sent' = sent + wlen /\ len' = len - wlen
      /\ UNCHANGED <<played, rlen, offered, step>>
  BY DEF SendReturn, WritePublish, rvars
<1>2. len = SampleSize /\ wlen \in {0, SampleSize}
  BY DEF SendReturn, WritePublish, SampleInv
<1>3. Whole(sent) /\ sent \in Nat /\ offered \in Nat /\ offered * SampleSize = sent + len
  BY DEF RingInv, Typed, SampleInv
<1>4. Whole(sent') /\ len' \in {0, SampleSize} /\ offered * SampleSize = sent' + len'
  BY <1>1, <1>2, <1>3 DEF Whole, SampleSize
<1> QED
  BY <1>1, <1>4 DEF SampleInv, Whole

LEMMA SampleRead ==
  ASSUME RingInv, RingInv', SampleInv, Callback PROVE SampleInv'
<1>1. UNCHANGED <<sent, len, offered, step, wpc, wlen>>
  BY DEF Callback, Reading, ReadCall, ReadFirst, ReadRest, ReadPublish, rendervars, wvars
<1>2. CASE ReadCall
  <2>1. PICK size \in ReadSizes : rlen' = Least(size, buf_used)
    BY <1>2 DEF ReadCall
  <2>2. size \in Nat /\ Whole(size)
    BY BurstAssumption, SampleAssumption DEF Whole
  <2>3. Whole(rlen') /\ played' = played
    BY <1>2, <2>1, <2>2, FreeIsWhole DEF Least, ReadCall
  <2> QED
    BY <1>1, <2>3 DEF SampleInv, Whole
<1>3. CASE ReadFirst \/ ReadRest
  <2>1. UNCHANGED <<rlen, played>>
    BY <1>3 DEF ReadFirst, ReadRest
  <2> QED
    BY <1>1, <2>1 DEF SampleInv, Whole
<1>4. CASE ReadPublish
  <2>1. rlen' = rlen /\ played' = played \o rout /\ Len(rout) = rlen
    BY <1>4 DEF ReadPublish, RingInv, TakenSoFar
  <2>2. played \in Seq(Nat) /\ rout \in Seq(Nat) /\ rlen \in Nat
    BY DEF RingInv, Typed
  <2>3. Len(played') = Len(played) + rlen /\ Len(played) \in Nat
    <3>1. Len(played \o rout) = Len(played) + Len(rout)
      BY <2>2, Joined
    <3> QED
      BY <2>1, <2>2, <3>1
  <2>4. Whole(Len(played')) /\ Whole(rlen')
    <3>1. Whole(Len(played)) /\ Whole(rlen)
      BY DEF SampleInv
    <3> QED
      BY <2>1, <2>2, <2>3, <3>1, WholeSum
  <2> QED
    BY <1>1, <2>4 DEF SampleInv, Whole
<1> QED
  BY <1>2, <1>3, <1>4 DEF Callback, Reading

LEMMA SampleStep ==
  ASSUME RingInv, RingInv', SampleInv, [OutputNext]_allvars PROVE SampleInv'
<1>1. CASE RenderBlock \/ CloseStream \/ OpenStream \/ BlockEnd
  <2>1. UNCHANGED <<sent, played, rlen, len, offered, wpc, wlen>>
    BY <1>1 DEF RenderBlock, CloseStream, OpenStream, BlockEnd, vars, wvars, rvars
  <2>2. wpc # "idle" => step' = step
    BY <1>1 DEF RenderBlock, CloseStream, OpenStream, BlockEnd, SampleInv, SampleSize
  <2> QED
    BY <2>1, <2>2 DEF SampleInv, Whole
<1>2. CASE NextSample
  <2>1. /\ UNCHANGED <<sent, played, rlen, step, wpc, wlen>> /\ len = 0
        /\ len' = SampleSize /\ offered' = offered + 1
    BY <1>2 DEF NextSample, vars, wvars, rvars
  <2>2. offered' * SampleSize = sent' + len' /\ offered' \in Nat
    BY <2>1 DEF SampleInv, SampleSize, RingInv, Typed
  <2>3. wpc = "idle"
    BY <2>1 DEF SampleInv, SampleSize
  <2> QED
    BY <2>1, <2>2, <2>3 DEF SampleInv, Whole
<1>3. CASE SendCopy
  <2>1. UNCHANGED <<sent, played, rlen, len, offered, step, wlen>> /\ wpc # "idle"
    BY <1>3 DEF SendCopy, WriteFirst, WriteRest, rendervars, rvars
  <2> QED
    BY <2>1 DEF SampleInv, Whole
<1>4. CASE UNCHANGED allvars
  BY <1>4 DEF allvars, vars, wvars, rvars, rendervars, SampleInv, Whole
<1> QED
  BY <1>1, <1>2, <1>3, <1>4, SampleWrite, SampleReturn, SampleRead DEF OutputNext, Rendering

LEMMA AcceptedStep ==
  ASSUME RingInv, SampleInv, AcceptedInv, [OutputNext]_allvars PROVE AcceptedInv'
<1>1. CASE SendReturn
  <2>1. /\ sent' = sent + wlen /\ accepted' = accepted \o [b \in 1..wlen |-> <<offered, b>>]
        /\ len = SampleSize /\ wlen \in {0, SampleSize} /\ Whole(sent) /\ sent \in Nat
        /\ offered \in Nat /\ offered * SampleSize = sent + len
    BY <1>1 DEF SendReturn, WritePublish, SampleInv, RingInv, Typed
  <2>2. accepted \in Seq(Nat \X Nat) /\ Len(accepted) = sent
    BY DEF AcceptedInv
  <2> DEFINE more == [b \in 1..wlen |-> <<offered, b>>]
  <2>3. more \in Seq(Nat \X Nat) /\ Len(more) = wlen /\ \A b \in 1..wlen : more[b] = <<offered, b>>
    BY <2>1 DEF SampleSize
  <2>4. accepted' = accepted \o more
    BY <2>1
  <2> HIDE DEF more
  <2>5. accepted' \in Seq(Nat \X Nat) /\ Len(accepted') = sent'
    BY <2>1, <2>2, <2>3, <2>4 DEF SampleSize
  <2>6. ASSUME NEW i \in 1..Len(accepted')
        PROVE  accepted'[i] = <<(i + 1) \div SampleSize, ((i - 1) % SampleSize) + 1>>
    <3>1. CASE i <= sent
      <4>1. accepted'[i] = accepted[i] /\ i \in 1..Len(accepted)
        BY <2>2, <2>3, <2>4, <2>6, <3>1
      <4> QED
        BY <4>1 DEF AcceptedInv
    <3>2. CASE ~(i <= sent)
      <4>1. i - sent \in 1..2 /\ wlen = 2
        BY <2>1, <2>5, <2>6, <3>2 DEF SampleSize
      <4>2. accepted'[i] = <<offered, i - sent>>
        BY <2>2, <2>3, <2>4, <2>5, <2>6, <3>2, <4>1
      <4>3. (i + 1) \div 2 = offered /\ ((i - 1) % 2) + 1 = i - sent
        BY <2>1, <4>1 DEF SampleSize, Whole
      <4> QED
        BY <4>2, <4>3 DEF SampleSize
    <3> QED
      BY <2>1, <3>1, <3>2
  <2> QED
    BY <2>5, <2>6 DEF AcceptedInv
<1>2. CASE ~SendReturn
  <2>1. UNCHANGED <<sent, accepted>>
    BY <1>2 DEF OutputNext, Rendering, RenderBlock, CloseStream, OpenStream, NextSample, SendCall,
                SendCopy, BlockEnd, Callback, Reading, ReadCall, ReadFirst, ReadRest, ReadPublish,
                WriteCall, WriteFirst, WriteRest, allvars, vars, rendervars
  <2> QED
    BY <2>1 DEF AcceptedInv
<1> QED
  BY <1>1, <1>2

----------------------------------------------------------------------------
\* The inductive invariant holds at every step.
THEOREM OutputInvariance == OutputSpec => [](RingInv /\ OutputInv)
<1>1. OutputSpec => []RingInv
  BY OutputKeepsRing, RingInvariance
<1>2. OutputInit => OutputInv
  <2> SUFFICES ASSUME OutputInit PROVE OutputInv
    OBVIOUS
  <2>1. FormatInv
    BY DEF OutputInit, AdifInit, FormatInv
  <2>2. SampleInv
    BY DEF OutputInit, Init, SampleInv, Whole, SampleSize
  <2>3. AcceptedInv
    BY DEF OutputInit, Init, AcceptedInv
  <2> QED
    BY <2>1, <2>2, <2>3 DEF OutputInv
<1>3. RingInv /\ RingInv' /\ OutputInv /\ [OutputNext]_allvars => OutputInv'
  BY FormatStep, SampleStep, AcceptedStep DEF OutputInv
<1> QED
  BY <1>1, <1>2, <1>3, PTL DEF OutputSpec

\* Each sample is heard once and whole, in the order of the blocks, although a
\* ring that is full makes render_send_sample offer it again and again.
THEOREM SamplesInOrder == OutputSpec => []HeardInOrder
<1>1. RingInv /\ OutputInv => HeardInOrder
  <2> SUFFICES ASSUME RingInv, OutputInv, NEW i \in 1..Len(played)
               PROVE  accepted[played[i] + 1] = <<(i + 1) \div SampleSize, ((i - 1) % SampleSize) + 1>>
    BY DEF HeardInOrder
  <2>1. Len(played) \in Nat /\ sent \in Nat /\ Len(played) <= sent
    <3>1. buf_used = sent - Len(played) /\ buf_used \in Nat /\ sent \in Nat /\ Len(played) \in Nat
      BY UsedSlot DEF RingInv, CursorsCount, Typed
    <3> QED
      BY <3>1
  <2>2. played[i] + 1 = i /\ i \in 1..sent
    BY <2>1 DEF RingInv, StreamIntact
  <2> QED
    BY <2>2 DEF OutputInv, AcceptedInv
<1> QED
  BY <1>1, OutputInvariance, PTL

\* While a block is sent, a device that is open has the format of the block,
\* however often opening failed before (adif_config keeps its own copy).
THEOREM DeviceFollows == OutputSpec => []FormatFollows
<1>1. OutputInv => FormatFollows
  BY DEF OutputInv, FormatInv, FormatFollows
<1> QED
  BY <1>1, OutputInvariance, PTL

\* Under the load of the whole path the ring is still the bounded channel, and
\* its cursors agree with the bytes gone in and out.
THEOREM OutputIsChannel == OutputSpec => ChannelSpec /\ []CursorsCount
  BY OutputKeepsRing, RingIsChannel, CursorsAgree
=============================================================================
