---------------------------- MODULE EspOutputProofs ----------------------------
(***************************************************************************)
(* Proofs about the output of the ESP8266 build.                           *)
(*                                                                         *)
(* The I2S ring, for every number and length of the buffers and every      *)
(* interleaving of the DMA engine, the interrupt and the decoder task.     *)
(*                                                                         *)
(* What is pushed to it, for every full scale, word length, block and set  *)
(* of quiet samples: the modulator's integrators stay bounded and its      *)
(* error does not add up.  For every base frequency and range of the       *)
(* dividers the clock chosen is the nearest.                               *)
(***************************************************************************)
EXTENDS EspDac, DmaRing, Lemmas

(* The I2S ring.                                                           *)

N == I2SDMABUFCNT
L == I2SDMABUFLEN

\* The buffer k places before b in the ring.
Back(b, k) == IF b >= k THEN b - k ELSE b - k + N

LEMMA RingWalk ==
  ASSUME NEW b \in Buffers
  PROVE  /\ NextLink(b) \in Buffers /\ NextLink(b) # b
         /\ Back(b, N - 1) = NextLink(b) /\ NextLink(Back(b, 1)) = b
         /\ \A k \in 1..(N - 1) : /\ Back(b, k) \in Buffers /\ Back(b, k) # b
                                  /\ Back(NextLink(b), k + 1) = Back(b, k)
         /\ \A k \in 2..(N - 1) : NextLink(Back(b, k)) = Back(b, k - 1)
         /\ Back(NextLink(b), 1) = b
         /\ \A a \in Buffers : NextLink(a) = NextLink(b) => a = b
         /\ \A k \in 1..(N - 1) : Back(b, k) = NextLink(b) => k = N - 1
  BY RingAssumption DEF NextLink, Buffers, Back, N

LEMMA TailOf ==
  ASSUME NEW q \in Seq(Buffers), q # << >>
  PROVE  /\ Tail(q) \in Seq(Buffers) /\ Len(Tail(q)) = Len(q) - 1 /\ Len(q) \in Nat \ {0}
         /\ Head(q) = q[1] /\ Head(q) \in Buffers
         /\ \A i \in 1..(Len(q) - 1) : Tail(q)[i] = q[i + 1]
  OBVIOUS

LEMMA AppendOf ==
  ASSUME NEW q \in Seq(Buffers), NEW b \in Buffers
  PROVE  /\ Append(q, b) \in Seq(Buffers) /\ Len(Append(q, b)) = Len(q) + 1 /\ Len(q) \in Nat
         /\ \A i \in 1..Len(q) : Append(q, b)[i] = q[i]
         /\ Append(q, b)[Len(q) + 1] = b
  OBVIOUS

----------------------------------------------------------------------------
(* The inductive invariant.  Its parts about the queue hold while no end   *)
(* of a buffer is lost, those about what is played as long as the DMA has  *)
(* not caught up with the task either.                                     *)

\* The buffer the queue runs up to: the one the DMA will hand over next.
Newest == IF eofPending THEN eofDesc ELSE dmaCur

\* q is a run of the ring that ends before b.
RunUpTo(q, b) == \A i \in 1..Len(q) : q[i] = Back(b, Len(q) + 1 - i)

EofInv == eofPending => dmaCur = NextLink(eofDesc)

QueueInv == lost = 0 => RunUpTo(dmaQueue, Newest)

\* The task's own steps.
TaskInv ==
  /\ ppc = "store" => currDMABuff \in Buffers /\ currDMABuffPos < L
  /\ ppc = "receive" => currDMABuff = NULL \/ currDMABuffPos = L
  /\ ppc # "idle" => pushed > 0
  /\ currDMABuff # NULL => pushed > 0

InOrder == ~ starved /\ lost = 0

\* The samples stored so far.
StoredCount == IF ppc = "idle" THEN pushed ELSE pushed - 1

\* The sample y may follow x: the next one, or silence before the first.
Follows(x, y) == y = x + 1 \/ (x = 0 /\ y = 0)

\* The task fills the ring in order: the queue starts behind its buffer.
FillInv == InOrder /\ currDMABuff # NULL =>
  /\ dmaQueue # << >> => dmaQueue[1] = NextLink(currDMABuff)
  /\ dmaQueue = << >> => Newest = NextLink(currDMABuff)

\* The DMA plays neither a free buffer nor one that is being filled.
ReadyInv == InOrder /\ currDMABuff # NULL =>
  /\ ~ InQueue(dmaCur)
  /\ dmaCur = currDMABuff => currDMABuffPos = L

\* Within a buffer, and from each to the next, up to the last sample stored,
\* the samples follow one another.
WordsInv == InOrder => \A b \in Buffers : \A w \in 1..(L - 1) :
  (b = currDMABuff => w + 1 <= currDMABuffPos) => Follows(i2sBuf[b][w], i2sBuf[b][w + 1])

SeamInv == InOrder => \A b \in Buffers :
  b # currDMABuff /\ (NextLink(b) = currDMABuff => currDMABuffPos >= 1)
    => Follows(i2sBuf[b][L], i2sBuf[NextLink(b)][1])

LastInv == InOrder =>
  IF currDMABuff = NULL
  THEN StoredCount = 0 /\ out = 0 /\ \A b \in Buffers : \A w \in 1..L : i2sBuf[b][w] = 0
  ELSE /\ currDMABuffPos > 0 => i2sBuf[currDMABuff][currDMABuffPos] = StoredCount
       /\ currDMABuffPos = 0 =>
            \A b \in Buffers : NextLink(b) = currDMABuff => i2sBuf[b][L] = StoredCount

\* The word played last is the one before the next.
OutInv == InOrder =>
  /\ dmaPos > 0 => out = i2sBuf[dmaCur][dmaPos]
  /\ dmaPos = 0 => Follows(out, i2sBuf[dmaCur][1])

RingInv == /\ TypeOK /\ EofInv /\ QueueInv /\ TaskInv /\ FillInv /\ ReadyInv
           /\ WordsInv /\ SeamInv /\ LastInv /\ OutInv

----------------------------------------------------------------------------
\* The buffer played, and the one the queue runs up to.
LEMMA NewestIsBuffer ==
  ASSUME TypeOK, EofInv
  PROVE  /\ Newest \in Buffers /\ dmaCur \in Buffers
         /\ eofPending => dmaCur = NextLink(Newest)
         /\ ~ eofPending => dmaCur = Newest
  BY DEF TypeOK, EofInv, Newest

\* A full run of the queue starts with the buffer after its end, a shorter
\* one does not hold that buffer.
LEMMA InRun ==
  ASSUME NEW q \in Seq(Buffers), NEW b \in Buffers, RunUpTo(q, b), Len(q) <= QueueDepth
  PROVE  /\ \A i \in 1..Len(q) : q[i] # b
         /\ \A i \in 1..Len(q) : q[i] = NextLink(b) => Len(q) = QueueDepth /\ i = 1
         /\ Len(q) = QueueDepth => q[1] = NextLink(b)
         /\ \A i \in 1..(Len(q) - 1) : q[i + 1] = NextLink(q[i])
         /\ Len(q) > 0 => NextLink(q[Len(q)]) = b
<1>1. Len(q) \in 0..(N - 1) /\ N \in Nat /\ N >= 2 /\ QueueDepth = N - 1
  BY RingAssumption DEF N, QueueDepth
<1>2. \A i \in 1..Len(q) : q[i] = Back(b, Len(q) + 1 - i) /\ Len(q) + 1 - i \in 1..(N - 1)
  BY <1>1 DEF RunUpTo
<1>3. \A i \in 1..Len(q) : q[i] # b
  BY <1>2, RingWalk
<1>4. ASSUME NEW i \in 1..Len(q), q[i] = NextLink(b) PROVE Len(q) = N - 1 /\ i = 1
  <2>1. Len(q) + 1 - i = N - 1
    BY <1>2, <1>4, RingWalk
  <2> QED
    BY <1>1, <2>1
<1>5. Len(q) = N - 1 => q[1] = NextLink(b)
  <2> SUFFICES ASSUME Len(q) = N - 1 PROVE q[1] = NextLink(b)
    OBVIOUS
  <2>1. 1 \in 1..Len(q) /\ Len(q) + 1 - 1 = N - 1
    BY <1>1
  <2> QED
    BY <1>2, <2>1, RingWalk
<1>6. ASSUME NEW i \in 1..(Len(q) - 1) PROVE q[i + 1] = NextLink(q[i])
  <2> DEFINE k == Len(q) + 1 - i
  <2>1. /\ i \in 1..Len(q) /\ i + 1 \in 1..Len(q) /\ k \in 2..(N - 1)
        /\ Len(q) + 1 - (i + 1) = k - 1
    BY <1>1
  <2>2. q[i] = Back(b, k) /\ q[i + 1] = Back(b, k - 1)
    BY <1>2, <2>1
  <2> HIDE DEF k
  <2> QED
    BY <2>1, <2>2, RingWalk, SMTT(30)
<1>7. Len(q) > 0 => NextLink(q[Len(q)]) = b
  <2> SUFFICES ASSUME Len(q) > 0 PROVE NextLink(q[Len(q)]) = b
    OBVIOUS
  <2>1. q[Len(q)] = Back(b, 1)
    BY <1>1, <1>2
  <2> QED
    BY <2>1, RingWalk
<1> QED
  BY <1>1, <1>3, <1>4, <1>5, <1>6, <1>7

----------------------------------------------------------------------------
\* Types, and what the task relies on.
LEMMA TypeStep ==
  ASSUME TypeOK, TaskInv, [RingNext]_ringvars PROVE TypeOK'
<1> USE RingAssumption, NullAssumption DEF TypeOK, TaskInv, dma, task, L
<1>1. CASE DmaWord
  <2>1. dmaPos + 1 \in 1..I2SDMABUFLEN
    BY <1>1 DEF DmaWord
  <2>2. i2sBuf[dmaCur][dmaPos + 1] \in Nat
    BY <2>1
  <2> QED
    BY <1>1, <2>1, <2>2 DEF DmaWord
<1>2. CASE DmaEof
  <2>1. NextLink(dmaCur) \in Buffers
    BY RingWalk
  <2> QED
    BY <1>2, <2>1 DEF DmaEof
<1>3. CASE slc_isr
  <2> DEFINE q == IF Len(dmaQueue) = QueueDepth THEN Tail(dmaQueue) ELSE dmaQueue
  <2>1. QueueDepth \in Nat \ {0}
    BY DEF QueueDepth
  <2>2. q \in Seq(Buffers) /\ Len(q) < QueueDepth
    <3>1. CASE Len(dmaQueue) = QueueDepth
      <4>1. dmaQueue # << >>
        BY <2>1, <3>1
      <4> QED
        BY <2>1, <3>1, <4>1, TailOf
    <3>2. CASE Len(dmaQueue) # QueueDepth
      BY <2>1, <3>2
    <3> QED
      BY <3>1, <3>2
  <2>3. dmaQueue' = Append(q, eofDesc) /\ eofDesc \in Buffers
    BY <1>3, SMTT(30) DEF slc_isr
  <2>4. underrunCnt' \in 0..MaxUnderruns
    BY <1>3, SMTT(30) DEF slc_isr
  <2> HIDE DEF q
  <2>5. dmaQueue' \in Seq(Buffers) /\ Len(dmaQueue') <= QueueDepth
    <3>1. Append(q, eofDesc) \in Seq(Buffers) /\ Len(Append(q, eofDesc)) = Len(q) + 1 /\ Len(q) \in Nat
      BY <2>2, <2>3, AppendOf
    <3> QED
      BY <2>1, <2>2, <2>3, <3>1
  <2> QED
    BY <1>3, <2>4, <2>5 DEF slc_isr
<1>4. CASE PushCall
  BY <1>4 DEF PushCall
<1>5. CASE PushReceive
  <2>1. dmaQueue # << >> /\ dmaQueue \in Seq(Buffers)
    BY <1>5 DEF PushReceive
  <2>2. Head(dmaQueue) \in Buffers /\ Tail(dmaQueue) \in Seq(Buffers)
        /\ Len(Tail(dmaQueue)) = Len(dmaQueue) - 1 /\ Len(dmaQueue) \in Nat
    BY <2>1, TailOf
  <2>3. Len(Tail(dmaQueue)) <= QueueDepth
    BY <2>2 DEF QueueDepth
  <2> QED
    BY <1>5, <2>2, <2>3 DEF PushReceive
<1>6. CASE PushStore
  BY <1>6, SMTT(30) DEF PushStore
<1>7. CASE UNCHANGED ringvars
  BY <1>7 DEF ringvars
<1> QED
  BY <1>1, <1>2, <1>3, <1>4, <1>5, <1>6, <1>7 DEF RingNext, Dma, Push

LEMMA TaskStep ==
  ASSUME TypeOK, TaskInv, [RingNext]_ringvars PROVE TaskInv'
<1> USE RingAssumption, NullAssumption DEF TypeOK, TaskInv, dma, task, L
<1>1. CASE Dma \/ slc_isr
  BY <1>1 DEF Dma, DmaWord, DmaEof, slc_isr
<1>2. CASE PushCall
  BY <1>2 DEF PushCall
<1>3. CASE PushReceive
  BY <1>3, TailOf DEF PushReceive
<1>4. CASE PushStore
  BY <1>4 DEF PushStore
<1>5. CASE UNCHANGED ringvars
  BY <1>5 DEF ringvars
<1> QED
  BY <1>1, <1>2, <1>3, <1>4, <1>5 DEF RingNext, Push

LEMMA EofStep ==
  ASSUME TypeOK, EofInv, [RingNext]_ringvars PROVE EofInv'
<1> USE DEF EofInv, dma
<1>1. CASE DmaEof
  BY <1>1 DEF DmaEof
<1>2. CASE DmaWord \/ slc_isr
  BY <1>2 DEF DmaWord, slc_isr
<1>3. CASE PushCall \/ Push
  BY <1>3 DEF PushCall, Push, PushReceive, PushStore
<1>4. CASE UNCHANGED ringvars
  BY <1>4 DEF ringvars
<1> QED
  BY <1>1, <1>2, <1>3, <1>4 DEF RingNext, Dma

----------------------------------------------------------------------------
\* The queue stays a run.
LEMMA RunTail ==
  ASSUME NEW q \in Seq(Buffers), q # << >>, NEW b \in Buffers, RunUpTo(q, b)
  PROVE  RunUpTo(Tail(q), b)
<1> DEFINE t == Tail(q)  n == Len(q)
<1>1. Len(t) = n - 1 /\ n \in Nat /\ \A i \in 1..(n - 1) : t[i] = q[i + 1]
  BY TailOf
<1>2. \A i \in 1..n : q[i] = Back(b, n + 1 - i)
  BY DEF RunUpTo
<1> HIDE DEF t, n
<1>3. ASSUME NEW i \in 1..(n - 1) PROVE t[i] = Back(b, (n - 1) + 1 - i)
  <2>1. i + 1 \in 1..n /\ n + 1 - (i + 1) = (n - 1) + 1 - i
    BY <1>1
  <2> QED
    BY <1>1, <1>2, <2>1
<1> QED
  BY <1>1, <1>3 DEF RunUpTo, t

LEMMA RunAppend ==
  ASSUME NEW q \in Seq(Buffers), NEW b \in Buffers, RunUpTo(q, b), Len(q) < QueueDepth
  PROVE  RunUpTo(Append(q, b), NextLink(b))
<1> DEFINE a == Append(q, b)
<1>1. /\ Len(a) = Len(q) + 1 /\ Len(q) \in Nat
      /\ \A i \in 1..Len(q) : a[i] = q[i]
      /\ a[Len(q) + 1] = b
  BY AppendOf
<1>2. Len(q) < N - 1 /\ N \in Nat
  BY RingAssumption DEF N, QueueDepth
<1> HIDE DEF a
<1>3. ASSUME NEW i \in 1..Len(a) PROVE a[i] = Back(NextLink(b), Len(a) + 1 - i)
  <2>1. CASE i <= Len(q)
    <3> DEFINE k == Len(q) + 1 - i
    <3>1. k \in 1..(N - 1) /\ Len(a) + 1 - i = k + 1 /\ i \in 1..Len(q)
      BY <1>1, <1>2, <2>1
    <3>2. a[i] = Back(b, k)
      BY <1>1, <3>1 DEF RunUpTo
    <3> HIDE DEF k
    <3> QED
      BY <3>1, <3>2, RingWalk
  <2>2. CASE ~(i <= Len(q))
    <3>1. i = Len(q) + 1 /\ Len(a) + 1 - i = 1
      BY <1>1, <2>2
    <3> QED
      BY <1>1, <3>1, RingWalk
  <2> QED
    BY <2>1, <2>2
<1> QED
  BY <1>3 DEF RunUpTo, a

\* What slc_isr does to the queue.
LEMMA IsrQueue ==
  ASSUME TypeOK, EofInv, lost = 0, RunUpTo(dmaQueue, Newest), slc_isr
  PROVE  /\ RunUpTo(dmaQueue', Newest') /\ Newest = eofDesc /\ Newest' = dmaCur
         /\ Len(dmaQueue) = QueueDepth => dmaQueue[1] = dmaCur /\ dmaQueue # << >>
         /\ Len(dmaQueue) # QueueDepth => dmaQueue' = Append(dmaQueue, eofDesc)
<1>1. /\ eofPending /\ Newest = eofDesc /\ Newest' = dmaCur /\ dmaCur = NextLink(eofDesc)
      /\ eofDesc \in Buffers /\ dmaQueue \in Seq(Buffers)
  BY DEF slc_isr, Newest, EofInv, TypeOK
<1>2. CASE Len(dmaQueue) = QueueDepth
  <2>1. dmaQueue[1] = dmaCur /\ dmaQueue # << >>
    <3>1. QueueDepth \in Nat \ {0}
      BY RingAssumption DEF QueueDepth
    <3>2. dmaQueue # << >>
      BY <1>2, <3>1
    <3>3. dmaQueue[1] = NextLink(eofDesc)
      BY <1>1, <1>2, <3>1, InRun
    <3> QED
      BY <1>1, <3>2, <3>3
  <2>2. dmaQueue' = Append(Tail(dmaQueue), eofDesc)
    BY <1>2 DEF slc_isr
  <2>3. /\ Tail(dmaQueue) \in Seq(Buffers) /\ RunUpTo(Tail(dmaQueue), eofDesc)
        /\ Len(Tail(dmaQueue)) < QueueDepth
    BY <1>1, <1>2, <2>1, TailOf, RunTail
  <2>4. RunUpTo(Append(Tail(dmaQueue), eofDesc), NextLink(eofDesc))
    BY <1>1, <2>3, RunAppend
  <2> QED
    BY <1>1, <1>2, <2>1, <2>2, <2>4 DEF RunUpTo
<1>3. CASE Len(dmaQueue) # QueueDepth
  <2>1. dmaQueue' = Append(dmaQueue, eofDesc) /\ Len(dmaQueue) < QueueDepth
    BY <1>3 DEF slc_isr
  <2>2. RunUpTo(Append(dmaQueue, eofDesc), NextLink(eofDesc))
    BY <1>1, <2>1, RunAppend
  <2> QED
    BY <1>1, <1>3, <2>1, <2>2 DEF RunUpTo
<1> QED
  BY <1>2, <1>3

LEMMA QueueStep ==
  ASSUME TypeOK, EofInv, QueueInv, [RingNext]_ringvars PROVE QueueInv'
<1> SUFFICES ASSUME lost' = 0 PROVE RunUpTo(dmaQueue', Newest')
  BY DEF QueueInv, RunUpTo
<1>1. lost = 0
  BY DEF TypeOK, RingNext, Dma, DmaWord, DmaEof, slc_isr, PushCall, Push, PushReceive, PushStore,
         ringvars, dma
<1>2. RunUpTo(dmaQueue, Newest) /\ dmaQueue \in Seq(Buffers) /\ Newest \in Buffers
  BY <1>1, NewestIsBuffer DEF QueueInv, TypeOK
<1>3. CASE DmaEof
  <2>1. Newest' = Newest /\ dmaQueue' = dmaQueue
    BY <1>1, <1>3 DEF DmaEof, Newest, TypeOK
  <2> QED
    BY <1>2, <2>1
<1>4. CASE slc_isr
  BY <1>1, <1>2, <1>4, IsrQueue
<1>5. CASE PushReceive
  <2>1. Newest' = Newest /\ dmaQueue' = Tail(dmaQueue) /\ dmaQueue # << >>
    BY <1>5 DEF PushReceive, Newest, dma
  <2> QED
    BY <1>2, <2>1, RunTail
<1>6. CASE DmaWord \/ PushCall \/ PushStore \/ UNCHANGED ringvars
  <2>1. Newest' = Newest /\ dmaQueue' = dmaQueue
    BY <1>6 DEF DmaWord, PushCall, PushStore, Newest, ringvars, dma
  <2> QED
    BY <1>2, <2>1
<1> QED
  BY <1>3, <1>4, <1>5, <1>6 DEF RingNext, Dma, Push

----------------------------------------------------------------------------
(* What is played.                                                         *)

DataInv == FillInv /\ ReadyInv /\ WordsInv /\ SeamInv /\ LastInv /\ OutInv

\* Neither an underrun nor a lost end is forgotten.
LEMMA StaysOutOfOrder ==
  ASSUME TypeOK, [RingNext]_ringvars, InOrder' PROVE InOrder
  BY DEF InOrder, TypeOK, RingNext, Dma, DmaWord, DmaEof, slc_isr, PushCall, Push, PushReceive,
         PushStore, ringvars, dma

LEMMA WordData ==
  ASSUME RingInv, DmaWord, InOrder
  PROVE  DataInv' /\ (out' = out + 1 \/ (out = 0 /\ out' = 0))
<1>1. /\ out' = i2sBuf[dmaCur][dmaPos + 1] /\ dmaPos' = dmaPos + 1 /\ dmaPos < L
      /\ UNCHANGED <<dmaCur, eofPending, eofDesc, lost, dmaQueue, i2sBuf, task, starved>>
  BY DEF DmaWord, L
<1>2. dmaCur \in Buffers /\ dmaPos \in 0..L /\ L \in Nat \ {0}
  BY RingAssumption DEF RingInv, TypeOK, L
<1>3. Follows(out, i2sBuf[dmaCur][dmaPos + 1])
  <2>1. CASE dmaPos = 0
    BY <1>2, <2>1 DEF RingInv, OutInv
  <2>2. CASE dmaPos # 0
    <3>1. dmaPos \in 1..(L - 1) /\ out = i2sBuf[dmaCur][dmaPos]
      BY <1>1, <1>2, <2>2 DEF RingInv, OutInv
    <3>2. dmaCur = currDMABuff => dmaPos + 1 <= currDMABuffPos
      <4>1. ASSUME dmaCur = currDMABuff PROVE currDMABuffPos = L
        BY <1>2, <4>1, NullAssumption DEF RingInv, ReadyInv
      <4> QED
        BY <3>1, <4>1, <1>2
    <3> QED
      BY <1>2, <3>1, <3>2 DEF RingInv, WordsInv
  <2> QED
    BY <2>1, <2>2
<1>4. OutInv'
  BY <1>1, <1>2 DEF OutInv
<1>5. FillInv' /\ ReadyInv' /\ WordsInv' /\ SeamInv'
  BY <1>1 DEF RingInv, FillInv, ReadyInv, WordsInv, SeamInv, InOrder, Newest, InQueue, Follows, task
<1>6. LastInv'
  <2>1. currDMABuff = NULL => out' = 0
    <3> SUFFICES ASSUME currDMABuff = NULL PROVE out' = 0
      OBVIOUS
    <3>1. dmaPos + 1 \in 1..L
      BY <1>1, <1>2
    <3> QED
      BY <1>1, <1>2, <3>1 DEF RingInv, LastInv
  <2>2. UNCHANGED <<currDMABuff, currDMABuffPos, ppc, pushed, i2sBuf>>
    BY <1>1 DEF task
  <2>3. StoredCount' = StoredCount
    BY <2>2 DEF StoredCount
  <2> QED
    BY <2>1, <2>2, <2>3 DEF RingInv, LastInv
<1> QED
  BY <1>1, <1>3, <1>4, <1>5, <1>6 DEF DataInv, Follows

\* The DMA goes on to the next buffer, which follows the one it leaves.
LEMMA EofData ==
  ASSUME RingInv, DmaEof, InOrder, InOrder'
  PROVE  DataInv'
<1>1. /\ dmaPos = L /\ dmaCur' = NextLink(dmaCur) /\ dmaPos' = 0 /\ ~ eofPending
      /\ eofPending' /\ eofDesc' = dmaCur
      /\ UNCHANGED <<dmaQueue, i2sBuf, currDMABuff, currDMABuffPos, ppc, pushed, out>>
  BY DEF DmaEof, L, InOrder, RingInv, TypeOK, task
<1>2. dmaCur \in Buffers /\ NextLink(dmaCur) \in Buffers /\ L \in Nat \ {0}
      /\ dmaQueue \in Seq(Buffers)
  BY RingAssumption, RingWalk DEF RingInv, TypeOK, L
<1>3. Newest = dmaCur /\ Newest' = Newest
  BY <1>1 DEF Newest
<1>4. pushed > 0 => ~ Unready(dmaCur')
  BY DEF DmaEof, InOrder
<1>5. FillInv'
  BY <1>1, <1>3 DEF RingInv, FillInv, InOrder
<1>6. ReadyInv'
  <2> SUFFICES ASSUME currDMABuff # NULL
               PROVE  ~ InQueue(dmaCur)' /\ (dmaCur' = currDMABuff => currDMABuffPos = L)
    BY <1>1 DEF ReadyInv
  <2>1. pushed > 0 /\ currDMABuffPos \in 0..L
    BY DEF RingInv, TaskInv, TypeOK, L
  <2>2. ~ Unready(dmaCur')
    BY <1>4, <2>1
  <2> QED
    BY <1>1, <1>2, <2>1, <2>2 DEF Unready, L, InQueue
<1>7. currDMABuff # NULL => dmaCur # currDMABuff
  <2> SUFFICES ASSUME currDMABuff # NULL, dmaCur = currDMABuff PROVE FALSE
    OBVIOUS
  <2>1. dmaQueue # << >>
    BY <1>2, <1>3, RingWalk DEF RingInv, FillInv
  <2>2. dmaQueue[1] = NextLink(dmaCur) /\ 1 \in 1..Len(dmaQueue)
    BY <1>2, <2>1 DEF RingInv, FillInv
  <2>3. InQueue(dmaCur)'
    BY <1>1, <2>2 DEF InQueue
  <2> QED
    BY <1>1, <1>6, <2>3 DEF ReadyInv
<1>8. OutInv'
  <2>1. out = i2sBuf[dmaCur][L]
    BY <1>1, <1>2 DEF RingInv, OutInv
  <2>2. dmaCur # currDMABuff
    BY <1>2, <1>7, NullAssumption
  <2>3. NextLink(dmaCur) = currDMABuff => currDMABuffPos >= 1
    <3> SUFFICES ASSUME NextLink(dmaCur) = currDMABuff PROVE currDMABuffPos >= 1
      OBVIOUS
    <3>1. currDMABuff # NULL /\ dmaCur' = currDMABuff'
      BY <1>1, <1>2, NullAssumption
    <3>2. currDMABuffPos = L
      BY <1>1, <1>6, <3>1 DEF ReadyInv
    <3> QED
      BY <1>2, <3>2
  <2>4. Follows(i2sBuf[dmaCur][L], i2sBuf[NextLink(dmaCur)][1])
    BY <1>2, <2>2, <2>3 DEF RingInv, SeamInv
  <2> QED
    BY <1>1, <2>1, <2>4 DEF OutInv, Follows
<1>9. WordsInv' /\ SeamInv'
  BY <1>1 DEF RingInv, WordsInv, SeamInv, InOrder, Follows
<1>10. LastInv'
  <2>1. StoredCount' = StoredCount
    BY <1>1 DEF StoredCount
  <2> QED
    BY <1>1, <2>1 DEF RingInv, LastInv
<1> QED
  BY <1>5, <1>6, <1>8, <1>9, <1>10 DEF DataInv

\* slc_isr drops no buffer while the DMA is behind the task: the queue is not
\* full then.
LEMMA IsrData ==
  ASSUME RingInv, slc_isr, InOrder
  PROVE  DataInv'
<1>1. UNCHANGED <<dmaCur, dmaPos, lost, i2sBuf, currDMABuff, currDMABuffPos, ppc, pushed, out, starved>>
  BY DEF slc_isr, task
<1>2. RunUpTo(dmaQueue, Newest) /\ TypeOK /\ EofInv /\ lost = 0
  BY DEF RingInv, QueueInv, InOrder
<1>3. /\ Newest = eofDesc /\ Newest' = dmaCur
      /\ Len(dmaQueue) = QueueDepth => dmaQueue[1] = dmaCur /\ dmaQueue # << >>
      /\ Len(dmaQueue) # QueueDepth => dmaQueue' = Append(dmaQueue, eofDesc)
  BY <1>2, IsrQueue
<1>4. /\ dmaQueue \in Seq(Buffers) /\ eofDesc \in Buffers /\ dmaCur = NextLink(eofDesc)
      /\ dmaCur # eofDesc
  BY RingWalk DEF RingInv, TypeOK, EofInv, slc_isr
<1>5. ASSUME currDMABuff # NULL PROVE dmaQueue' = Append(dmaQueue, eofDesc)
  <2>1. ~ InQueue(dmaCur)
    BY <1>5 DEF RingInv, ReadyInv
  <2>2. ~ (Len(dmaQueue) = QueueDepth)
    <3> SUFFICES ASSUME Len(dmaQueue) = QueueDepth PROVE FALSE
      OBVIOUS
    <3>1. dmaQueue[1] = dmaCur /\ 1 \in 1..Len(dmaQueue)
      BY <1>3, <1>4
    <3> QED
      BY <2>1, <3>1 DEF InQueue
  <2> QED
    BY <1>3, <2>2
<1>6. FillInv'
  <2> SUFFICES ASSUME currDMABuff # NULL
               PROVE  dmaQueue' # << >> /\ dmaQueue'[1] = NextLink(currDMABuff)
    BY <1>1 DEF FillInv
  <2>1. dmaQueue' = Append(dmaQueue, eofDesc)
    BY <1>5
  <2>2. CASE dmaQueue = << >>
    BY <1>3, <1>4, <2>1, <2>2 DEF RingInv, FillInv
  <2>3. CASE dmaQueue # << >>
    <3>1. dmaQueue[1] = NextLink(currDMABuff) /\ 1 \in 1..Len(dmaQueue)
      BY <1>4, <2>3 DEF RingInv, FillInv
    <3> QED
      BY <1>4, <2>1, <3>1, AppendOf
  <2> QED
    BY <2>2, <2>3
<1>7. ReadyInv'
  <2> SUFFICES ASSUME currDMABuff # NULL PROVE ~ InQueue(dmaCur)'
    BY <1>1 DEF RingInv, ReadyInv
  <2>1. dmaQueue' = Append(dmaQueue, eofDesc) /\ ~ InQueue(dmaCur)
    BY <1>5 DEF RingInv, ReadyInv
  <2>2. ASSUME NEW i \in 1..Len(dmaQueue') PROVE dmaQueue'[i] # dmaCur
    <3>1. CASE i \in 1..Len(dmaQueue)
      BY <1>4, <2>1, <3>1, AppendOf DEF InQueue
    <3>2. CASE i = Len(dmaQueue) + 1
      BY <1>4, <2>1, <3>2, AppendOf
    <3> QED
      BY <1>4, <2>1, <3>1, <3>2, AppendOf
  <2> QED
    BY <1>1, <2>2 DEF InQueue
<1>8. WordsInv' /\ SeamInv' /\ OutInv'
  BY <1>1 DEF RingInv, WordsInv, SeamInv, OutInv, InOrder, Follows
<1>9. LastInv'
  <2>1. StoredCount' = StoredCount
    BY <1>1 DEF StoredCount
  <2> QED
    BY <1>1, <2>1 DEF RingInv, LastInv
<1> QED
  BY <1>6, <1>7, <1>8, <1>9 DEF DataInv

LEMMA CallData ==
  ASSUME RingInv, PushCall \/ UNCHANGED ringvars, InOrder
  PROVE  DataInv'
<1>1. UNCHANGED <<dmaCur, dmaPos, eofPending, eofDesc, lost, dmaQueue, i2sBuf, currDMABuff,
                  currDMABuffPos, out, starved>>
  BY DEF PushCall, ringvars, dma, task
<1>2. StoredCount' = StoredCount
  BY DEF PushCall, StoredCount, RingInv, TypeOK, ringvars, task
<1>3. FillInv' /\ ReadyInv' /\ WordsInv' /\ SeamInv' /\ OutInv'
  BY <1>1 DEF RingInv, FillInv, ReadyInv, WordsInv, SeamInv, OutInv, InOrder, Newest, InQueue, Follows
<1>4. LastInv'
  BY <1>1, <1>2 DEF RingInv, LastInv
<1> QED
  BY <1>3, <1>4 DEF DataInv

\* The length of the empty sequence.
LEMMA EmptyLength == Len(<< >>) = 0
  OBVIOUS

\* The task takes the buffer behind its own, which is full.
LEMMA ReceiveData ==
  ASSUME RingInv, PushReceive, InOrder, InOrder'
  PROVE  DataInv'
<1> DEFINE c == currDMABuff  b0 == Head(dmaQueue)
<1>1. /\ ppc = "receive" /\ dmaQueue # << >> /\ ppc' = "store"
      /\ currDMABuff' = b0 /\ dmaQueue' = Tail(dmaQueue) /\ currDMABuffPos' = 0
      /\ UNCHANGED <<dmaCur, dmaPos, eofPending, eofDesc, lost, i2sBuf, pushed, out>>
  BY DEF PushReceive, dma
<1>2. /\ dmaQueue \in Seq(Buffers) /\ b0 \in Buffers /\ b0 = dmaQueue[1]
      /\ Tail(dmaQueue) \in Seq(Buffers) /\ Len(Tail(dmaQueue)) = Len(dmaQueue) - 1
      /\ Len(dmaQueue) \in Nat \ {0}
      /\ \A i \in 1..(Len(dmaQueue) - 1) : Tail(dmaQueue)[i] = dmaQueue[i + 1]
  BY <1>1, TailOf DEF RingInv, TypeOK
<1>3. b0 # dmaCur
  BY <1>1 DEF PushReceive, InOrder
<1>4. b0 # NULL /\ L \in Nat \ {0}
  BY <1>2, NullAssumption, RingAssumption DEF L
<1>5. c # NULL => b0 = NextLink(c) /\ currDMABuffPos = L /\ c \in Buffers
  BY <1>1, <1>2 DEF RingInv, FillInv, TaskInv, TypeOK
<1>6. /\ RunUpTo(dmaQueue, Newest) /\ Newest \in Buffers /\ Newest' = Newest
      /\ Len(dmaQueue) <= QueueDepth
  BY <1>1, NewestIsBuffer DEF RingInv, QueueInv, InOrder, Newest, TypeOK
<1>7. FillInv'
  <2>1. Tail(dmaQueue) # << >> => Tail(dmaQueue)[1] = NextLink(b0)
    <3> SUFFICES ASSUME Tail(dmaQueue) # << >> PROVE Tail(dmaQueue)[1] = NextLink(b0)
      OBVIOUS
    <3>1. 1 \in 1..(Len(dmaQueue) - 1)
      BY <1>2
    <3> QED
      BY <1>2, <1>6, <3>1, InRun
  <2>2. Tail(dmaQueue) = << >> => Newest = NextLink(b0)
    <3> SUFFICES ASSUME Tail(dmaQueue) = << >> PROVE Newest = NextLink(b0)
      OBVIOUS
    <3>1. Len(Tail(dmaQueue)) = 0
      BY EmptyLength, Zenon
    <3>2. Len(dmaQueue) = 1
      <4> DEFINE n == Len(dmaQueue)  m == Len(Tail(dmaQueue))
      <4>1. n \in Nat /\ m = n - 1 /\ m = 0
        BY <1>2, <3>1
      <4> HIDE DEF n, m
      <4>2. n = 1
        BY <4>1
      <4> QED
        BY <4>2 DEF n
    <3>3. NextLink(dmaQueue[Len(dmaQueue)]) = Newest
      <4>1. Len(dmaQueue) > 0
        BY <3>2
      <4> QED
        BY <1>2, <1>6, <4>1, InRun
    <3>4. dmaQueue[Len(dmaQueue)] = b0
      BY <1>2, <3>2, Zenon
    <3> QED
      BY <3>3, <3>4, Zenon
  <2> QED
    BY <1>1, <1>6, <2>1, <2>2 DEF FillInv
<1>8. ReadyInv'
  <2>1. ASSUME NEW i \in 1..Len(Tail(dmaQueue)) PROVE Tail(dmaQueue)[i] # dmaCur
    <3>1. i \in 1..(Len(dmaQueue) - 1)
      BY <1>2
    <3>2. Tail(dmaQueue)[i] = dmaQueue[i + 1] /\ i + 1 \in 1..Len(dmaQueue) /\ i + 1 # 1
      BY <1>2, <3>1
    <3>3. CASE eofPending
      BY <1>2, <1>6, <3>2, <3>3, InRun, NewestIsBuffer DEF RingInv
    <3>4. CASE ~ eofPending
      BY <1>2, <1>6, <3>2, <3>4, InRun, NewestIsBuffer DEF RingInv
    <3> QED
      BY <3>3, <3>4
  <2> QED
    BY <1>1, <1>3, <2>1 DEF ReadyInv, InQueue
<1>9. WordsInv'
  <2> SUFFICES ASSUME NEW b \in Buffers, NEW w \in 1..(L - 1), b = b0 => w + 1 <= 0
               PROVE  Follows(i2sBuf[b][w], i2sBuf[b][w + 1])
    BY <1>1 DEF WordsInv, Follows
  <2>1. b = c => w + 1 <= currDMABuffPos
    <3>1. b = c => currDMABuffPos = L
      BY <1>5, NullAssumption
    <3>2. w + 1 <= L
      BY <1>4
    <3> QED
      BY <3>1, <3>2
  <2> QED
    BY <2>1 DEF RingInv, WordsInv
<1>10. SeamInv'
  <2> SUFFICES ASSUME NEW b \in Buffers, b # b0, NextLink(b) # b0
               PROVE  Follows(i2sBuf[b][L], i2sBuf[NextLink(b)][1])
    BY <1>1 DEF SeamInv, Follows
  <2>1. b # c
    BY <1>5, NullAssumption
  <2>2. NextLink(b) = c => currDMABuffPos >= 1
    <3>1. NextLink(b) \in Buffers
      BY RingWalk
    <3> QED
      BY <1>4, <1>5, <3>1, NullAssumption
  <2> QED
    BY <2>1, <2>2 DEF RingInv, SeamInv
<1>11. OutInv'
  BY <1>1 DEF RingInv, OutInv, Follows
<1>12. LastInv'
  <2>1. StoredCount' = StoredCount
    BY <1>1 DEF StoredCount
  <2>2. ASSUME NEW b \in Buffers, NextLink(b) = b0 PROVE i2sBuf[b][L] = StoredCount
    <3>1. CASE c = NULL
      <4>1. L \in 1..L
        BY <1>4
      <4> QED
        BY <3>1, <4>1 DEF RingInv, LastInv
    <3>2. CASE c # NULL
      <4>1. b = c
        BY <1>5, <2>2, <3>2, RingWalk
      <4>2. i2sBuf[c][L] = StoredCount
        BY <1>4, <1>5, <3>2 DEF RingInv, LastInv
      <4> QED
        BY <4>1, <4>2
    <3> QED
      BY <3>1, <3>2
  <2> QED
    BY <1>1, <1>4, <2>1, <2>2 DEF LastInv
<1> QED
  BY <1>7, <1>8, <1>9, <1>10, <1>11, <1>12 DEF DataInv

\* The task stores behind the last sample, in a buffer the DMA is not at.
LEMMA StoreData ==
  ASSUME RingInv, PushStore, InOrder
  PROVE  DataInv'
<1> DEFINE c == currDMABuff  p == currDMABuffPos
<1>1. /\ ppc = "store" /\ ppc' = "idle" /\ currDMABuffPos' = p + 1 /\ currDMABuff' = c
      /\ i2sBuf' = [i2sBuf EXCEPT ![c][p + 1] = pushed]
      /\ UNCHANGED <<dmaCur, dmaPos, eofPending, eofDesc, lost, dmaQueue, pushed, out, starved>>
  BY DEF PushStore, dma
<1>2. c \in Buffers /\ c # NULL /\ p \in Nat /\ p < L /\ L \in Nat \ {0} /\ pushed \in Nat \ {0}
  BY <1>1, NullAssumption, RingAssumption DEF RingInv, TaskInv, TypeOK, L
<1>3. /\ \A b \in Buffers : b # c => i2sBuf'[b] = i2sBuf[b]
      /\ \A w \in 1..L : w # p + 1 => i2sBuf'[c][w] = i2sBuf[c][w]
      /\ i2sBuf'[c][p + 1] = pushed
  <2>1. i2sBuf \in [Buffers -> [1..L -> Nat]] /\ p + 1 \in 1..L
    BY <1>2 DEF RingInv, TypeOK, L
  <2> QED
    BY <1>1, <1>2, <2>1
<1>4. StoredCount = pushed - 1 /\ StoredCount' = pushed
  BY <1>1 DEF StoredCount
<1>5. dmaCur # c /\ dmaCur \in Buffers
  BY <1>2 DEF RingInv, ReadyInv, TypeOK
<1> HIDE DEF c, p
<1>6. FillInv' /\ ReadyInv'
  BY <1>1, <1>2, <1>5 DEF RingInv, FillInv, ReadyInv, InOrder, Newest, InQueue, c, p
<1>7. OutInv'
  BY <1>1, <1>3, <1>5 DEF RingInv, OutInv, Follows, InOrder
<1>8. p > 0 => i2sBuf[c][p] = pushed - 1
  BY <1>2, <1>4 DEF RingInv, LastInv, c, p
<1>9. p = 0 => \A b \in Buffers : NextLink(b) = c => i2sBuf[b][L] = pushed - 1
  BY <1>2, <1>4 DEF RingInv, LastInv, c, p
<1>10. WordsInv'
  <2> SUFFICES ASSUME NEW b \in Buffers, NEW w \in 1..(L - 1), b = c => w + 1 <= p + 1
               PROVE  Follows(i2sBuf'[b][w], i2sBuf'[b][w + 1])
    BY <1>1 DEF WordsInv, Follows, L
  <2>1. CASE b # c
    BY <1>3, <2>1 DEF RingInv, WordsInv, c
  <2>2. CASE b = c /\ w + 1 = p + 1
    <3>1. w = p /\ w \in 1..L /\ w # p + 1
      BY <1>2, <2>2
    <3>2. i2sBuf'[c][w] = pushed - 1 /\ i2sBuf'[c][w + 1] = pushed
      BY <1>2, <1>3, <1>8, <3>1
    <3> QED
      BY <1>2, <2>2, <3>2 DEF Follows
  <2>3. CASE b = c /\ w + 1 # p + 1
    <3>1. w \in 1..L /\ w + 1 \in 1..L /\ w # p + 1 /\ w + 1 # p + 1 /\ w + 1 <= p
      BY <1>2, <2>3
    <3>2. Follows(i2sBuf[c][w], i2sBuf[c][w + 1])
      BY <1>2, <3>1 DEF RingInv, WordsInv, c, p
    <3> QED
      BY <1>3, <2>3, <3>1, <3>2
  <2> QED
    BY <2>1, <2>2, <2>3
<1>11. SeamInv'
  <2> SUFFICES ASSUME NEW b \in Buffers, b # c
               PROVE  Follows(i2sBuf'[b][L], i2sBuf'[NextLink(b)][1])
    BY <1>1 DEF SeamInv, Follows, L
  <2>1. NextLink(b) \in Buffers
    BY RingWalk
  <2>2. CASE NextLink(b) # c
    <3>1. Follows(i2sBuf[b][L], i2sBuf[NextLink(b)][1])
      BY <2>2 DEF RingInv, SeamInv, c
    <3> QED
      BY <1>3, <2>1, <2>2, <3>1
  <2>3. CASE NextLink(b) = c /\ p = 0
    BY <1>2, <1>3, <1>9, <2>3 DEF Follows
  <2>4. CASE NextLink(b) = c /\ p # 0
    <3>1. 1 \in 1..L /\ 1 # p + 1 /\ p >= 1
      BY <1>2, <2>4
    <3>2. Follows(i2sBuf[b][L], i2sBuf[c][1])
      BY <2>4, <3>1 DEF RingInv, SeamInv, c, p
    <3> QED
      BY <1>3, <2>4, <3>1, <3>2
  <2> QED
    BY <2>2, <2>3, <2>4
<1>12. LastInv'
  BY <1>1, <1>2, <1>3, <1>4 DEF LastInv
<1> QED
  BY <1>6, <1>7, <1>10, <1>11, <1>12 DEF DataInv

----------------------------------------------------------------------------
LEMMA DataStep ==
  ASSUME RingInv, [RingNext]_ringvars, InOrder, InOrder' PROVE DataInv'
<1>1. CASE DmaWord
  BY <1>1, WordData
<1>2. CASE DmaEof
  BY <1>2, EofData
<1>3. CASE slc_isr
  BY <1>3, IsrData
<1>4. CASE PushCall \/ UNCHANGED ringvars
  BY <1>4, CallData
<1>5. CASE PushReceive
  BY <1>5, ReceiveData
<1>6. CASE PushStore
  BY <1>6, StoreData
<1> QED
  BY <1>1, <1>2, <1>3, <1>4, <1>5, <1>6 DEF RingNext, Dma, Push

LEMMA InitRing ==
  ASSUME RingInit PROVE RingInv
<1> USE RingAssumption, NullAssumption DEF RingInit
<1>1. TypeOK
  BY DEF TypeOK, Buffers, QueueDepth
<1>2. EofInv /\ QueueInv /\ TaskInv
  BY DEF EofInv, QueueInv, TaskInv, RunUpTo
<1>3. \A b \in Buffers : \A w \in 1..L : i2sBuf[b][w] = 0
  BY DEF L
<1>4. L \in Nat \ {0} /\ 0 \in Buffers /\ \A b \in Buffers : NextLink(b) \in Buffers
  BY RingWalk DEF L, Buffers
<1>5. WordsInv /\ SeamInv
  <2>1. ASSUME NEW w \in 1..(L - 1) PROVE w \in 1..L /\ w + 1 \in 1..L
    BY <1>4
  <2>2. 1 \in 1..L /\ L \in 1..L
    BY <1>4
  <2> QED
    BY <1>3, <1>4, <2>1, <2>2 DEF WordsInv, SeamInv, Follows
<1>6. FillInv /\ ReadyInv
  BY DEF FillInv, ReadyInv
<1>7. LastInv
  BY <1>3 DEF LastInv, StoredCount
<1>8. OutInv
  <2>1. 1 \in 1..L
    BY <1>4
  <2> QED
    BY <1>3, <1>4, <2>1 DEF OutInv, Follows
<1> QED
  BY <1>1, <1>2, <1>5, <1>6, <1>7, <1>8 DEF RingInv

\* The inductive invariant holds at every step.
THEOREM DmaInvariance == RingSpec => []RingInv
<1>1. RingInit => RingInv
  BY InitRing
<1>2. RingInv /\ [RingNext]_ringvars => RingInv'
  <2> SUFFICES ASSUME RingInv, [RingNext]_ringvars PROVE RingInv'
    OBVIOUS
  <2>1. TypeOK' /\ EofInv' /\ QueueInv' /\ TaskInv'
    BY TypeStep, EofStep, QueueStep, TaskStep DEF RingInv
  <2>2. FillInv' /\ ReadyInv' /\ WordsInv' /\ SeamInv' /\ LastInv' /\ OutInv'
    <3>1. CASE InOrder'
      <4>1. InOrder
        BY <3>1, StaysOutOfOrder DEF RingInv
      <4>2. DataInv'
        BY <3>1, <4>1, DataStep
      <4> QED
        BY <4>2 DEF DataInv
    <3>2. CASE ~ InOrder'
      BY <3>2 DEF FillInv, ReadyInv, WordsInv, SeamInv, LastInv, OutInv
    <3> QED
      BY <3>1, <3>2
  <2> QED
    BY <2>1, <2>2 DEF RingInv
<1> QED
  BY <1>1, <1>2, PTL DEF RingSpec

\* The queue of free buffers is a run of the ring, also after slc_isr has
\* dropped its head (slc_isr, i2sPushSample).
THEOREM FreeBuffersInTurn == RingSpec => []QueueIsRun
<1>1. RingInv => QueueIsRun
  <2> SUFFICES ASSUME RingInv, lost = 0
               PROVE  /\ \A i \in 1..(Len(dmaQueue) - 1) : dmaQueue[i + 1] = NextLink(dmaQueue[i])
                      /\ Len(dmaQueue) > 0 => NextLink(dmaQueue[Len(dmaQueue)]) = Newest
    BY DEF QueueIsRun, Newest
  <2>1. /\ RunUpTo(dmaQueue, Newest) /\ Newest \in Buffers
        /\ dmaQueue \in Seq(Buffers) /\ Len(dmaQueue) <= QueueDepth
    BY NewestIsBuffer DEF RingInv, QueueInv, TypeOK
  <2> QED
    BY <2>1, InRun
<1> QED
  BY <1>1, DmaInvariance, PTL

\* Until the DMA first catches up with the task, every word it plays is the
\* next sample pushed, whatever the number and the length of the buffers.
THEOREM DmaPlaysStream == RingSpec => PlaysInOrder
<1>1. RingInv /\ [RingNext]_ringvars =>
        [dmaPos' = dmaPos + 1 /\ ~ starved /\ lost = 0 => out' = out + 1 \/ (out = 0 /\ out' = 0)]_ringvars
  <2> SUFFICES ASSUME RingInv, [RingNext]_ringvars, dmaPos' = dmaPos + 1, ~ starved, lost = 0, ringvars' # ringvars
               PROVE  out' = out + 1 \/ (out = 0 /\ out' = 0)
    OBVIOUS
  <2>1. DmaWord
    <3>1. dmaPos \in Nat
      BY RingAssumption DEF RingInv, TypeOK
    <3> QED
      BY <3>1 DEF RingNext, Dma, DmaEof, slc_isr, PushCall, Push, PushReceive, PushStore, dma
  <2> QED
    BY <2>1, WordData DEF InOrder
<1> QED
  BY <1>1, DmaInvariance, PTL DEF RingSpec, PlaysInOrder

----------------------------------------------------------------------------
(* The modulator and the clock.                                            *)

Within(a, b) == a <= b /\ -a <= b

\* The states of the two integrators form a polygon that one round maps into
\* itself, whatever quiet sample it takes.  The two bounds of the property,
\* its first two edges, are not enough: a large i1v with a large i2v would
\* leave them.
Polygon(a, b) ==
  /\ Within(16 * a, 37 * FullScale)           /\ Within(16 * b, 59 * FullScale)
  /\ Within(16 * (a + 2 * b), 143 * FullScale) /\ Within(16 * (3 * a + 2 * b), 217 * FullScale)
  /\ Within(8 * (a + b), 45 * FullScale)       /\ Within(16 * (2 * a + b), 127 * FullScale)
  /\ Within(2 * b - a, 6 * FullScale)          /\ Within(16 * (b - a), 43 * FullScale)
  /\ Within(16 * (2 * b - 3 * a), 81 * FullScale)
  /\ Within(16 * (5 * a + 2 * b), 291 * FullScale)
  /\ Within(4 * (2 * b - 5 * a), 25 * FullScale)

Integrators ==
  /\ i1v \in Int /\ i2v \in Int /\ reg = i2v /\ smp \in Quiet
  /\ Polygon(i1v, i2v)

\* The error of the bits so far is what the first integrator holds, and what
\* the comparator will feed back into it.
ErrorIsHeld ==
  /\ total \in Int /\ output \in Int
  /\ total - output = i1v - Sign(reg) - FullScale

DacInv == Integrators /\ ErrorIsHeld

----------------------------------------------------------------------------
\* One round of samp_to_delta_sigma keeps the polygon.
LEMMA RoundInPolygon ==
  ASSUME FullScale \in Nat \ {0}, NEW a \in Int, NEW b \in Int, NEW s \in Quiet,
         Polygon(a, b)
  PROVE  LET a1 == s - Sign(b) + a
             b1 == a1 - Sign(b) + b
         IN  Polygon(a1, b1)
<1>1. s \in Int /\ 16 * s <= FullScale /\ -16 * s <= FullScale
  BY DEF Quiet
<1>2. CASE b > 0
  BY <1>1, <1>2, SMTT(60) DEF Polygon, Within, Sign
<1>3. CASE b <= 0
  BY <1>1, <1>3, SMTT(60) DEF Polygon, Within, Sign
<1> QED
  BY <1>2, <1>3

LEMMA InitDac == Init => DacInv
  BY SamplesAssumption
  DEF Init, DacInv, Integrators, ErrorIsHeld, Polygon, Within, Sign, Quiet

LEMMA NextDac == DacInv /\ [Next]_vars => DacInv'
<1> SUFFICES ASSUME DacInv, [Next]_vars PROVE DacInv'
  OBVIOUS
<1> USE SamplesAssumption
<1>1. CASE RenderBlock
  BY <1>1 DEF RenderBlock, DacInv, Integrators, ErrorIsHeld, Polygon, Within, dacvars, sumvars
<1>2. CASE ReadShort
  BY <1>2 DEF ReadShort, DacInv, Integrators, ErrorIsHeld, Polygon, Within, dacvars, sumvars
<1>3. CASE MakeBit
  <2>1. FullScale \in Int /\ smp \in Int /\ Sign(reg) \in Int /\ reg = i2v
    BY DEF DacInv, Integrators, Quiet, Sign
  <2>2. /\ i1v' = smp - Sign(i2v) + i1v /\ i2v' = i1v' - Sign(i2v) + i2v
        /\ reg' = i2v' /\ smp' = smp
    BY <1>3, <2>1 DEF MakeBit
  <2>3. i1v' \in Int /\ i2v' \in Int
    BY <2>1, <2>2 DEF DacInv, Integrators
  <2>4. Polygon(i1v, i2v)'
    BY <2>2, RoundInPolygon DEF DacInv, Integrators, Polygon
  <2>5. Integrators'
    BY <2>2, <2>3, <2>4 DEF DacInv, Integrators
  <2>6. total' = total + smp /\ output' = output + Sign(reg') /\ Sign(reg') \in Int
    BY <1>3, <2>1 DEF MakeBit, Sign
  <2>7. ErrorIsHeld'
    BY <2>1, <2>2, <2>3, <2>6 DEF DacInv, Integrators, ErrorIsHeld
  <2> QED
    BY <2>5, <2>7 DEF DacInv
<1>4. CASE PushWord
  BY <1>4 DEF PushWord, DacInv, Integrators, ErrorIsHeld, Polygon, Within, dacvars, sumvars
<1>5. CASE UNCHANGED vars
  BY <1>5 DEF vars, DacInv, Integrators, ErrorIsHeld, Polygon, Within, dacvars, sumvars
<1> QED
  BY <1>1, <1>2, <1>3, <1>4, <1>5 DEF Next

\* Every bit of the modulator keeps its state inside the polygon.
THEOREM DacInvariance == Spec => []DacInv
  BY InitDac, NextDac, PTL DEF Spec

\* The integrators of samp_to_delta_sigma stay within 37/16 and 59/16 of full
\* scale, so that no addition of a 32-bit build overflows.
THEOREM NoOverflow == Spec => []IntegratorsBounded
<1>1. DacInv => IntegratorsBounded
  BY DEF DacInv, Integrators, Polygon, Within, IntegratorsBounded
<1> QED
  BY <1>1, DacInvariance, PTL

\* Over any time the bits stand for the sum of the samples, within 69/16 of
\* full scale, whatever blocks and formats come.
THEOREM ErrorBounded == Spec => []OutputFollows
<1>1. DacInv => OutputFollows
  <2> SUFFICES ASSUME DacInv PROVE OutputFollows
    OBVIOUS
  <2>1. Sign(reg) \in Int /\ (Sign(reg) = FullScale \/ Sign(reg) = -FullScale)
    BY SamplesAssumption DEF Sign
  <2>2. 16 * i1v <= 37 * FullScale /\ -16 * i1v <= 37 * FullScale
    BY DEF DacInv, Integrators, Polygon, Within
  <2> QED
    BY <2>1, <2>2, SamplesAssumption DEF DacInv, Integrators, ErrorIsHeld, OutputFollows
<1> QED
  BY <1>1, DacInvariance, PTL

----------------------------------------------------------------------------
(* The clock.                                                              *)

Candidates == Dividers \cup {NoDivider}

\* A frequency is a number: no divider is 0.
LEMMA DistanceType ==
  ASSUME NEW rate \in Nat, NEW d \in Candidates
  PROVE  Distance(rate, d) \in Nat
<1>1. CASE d = NoDivider
  BY <1>1 DEF Distance, Freq
<1>2. CASE d \in Dividers /\ d # NoDivider
  <2>1. PICK a \in MinBck..MaxBck, b \in MinClkm..MaxClkm, c \in MinBits..MaxBits :
          d = <<a, b, c>>
    BY <1>2 DEF Dividers
  <2>2. a \in Nat \ {0} /\ b \in Nat \ {0} /\ c \in Nat \ {0} /\ BASEFREQ \in Nat
    BY DividersAssumption
  <2>3. \A m, n \in Nat \ {0} : m * n \in Nat \ {0}
    OBVIOUS
  <2>4. a * b * c * 2 \in Nat \ {0}
    BY <2>2, <2>3
  <2>5. \A m \in Nat, n \in Nat \ {0} : m \div n \in Int
    OBVIOUS
  <2>6. BASEFREQ \div (a * b * c * 2) \in Int
    BY <2>2, <2>4, <2>5, Zenon
  <2>7. Freq(d) = BASEFREQ \div (a * b * c * 2)
    BY <1>2, <2>1 DEF Freq
  <2>8. Freq(d) \in Int
    BY <2>6, <2>7
  <2> QED
    BY <2>8 DEF Distance
<1> QED
  BY <1>1, <1>2 DEF Candidates

LEMMA NearerIsNearer ==
  ASSUME NEW rate \in Nat, NEW d \in Candidates, NEW best \in Candidates
  PROVE  /\ Nearer(rate, d, best) \in {d, best}
         /\ Distance(rate, Nearer(rate, d, best)) <= Distance(rate, d)
         /\ Distance(rate, Nearer(rate, d, best)) <= Distance(rate, best)
<1>1. Distance(rate, d) \in Nat /\ Distance(rate, best) \in Nat
  BY DistanceType
<1> QED
  BY <1>1 DEF Nearer

\* What one of the loops finds is one of its candidates, or nothing, and is as
\* near as any of them.
LEMMA SearchFinds ==
  ASSUME NEW rate \in Nat, NEW lo \in Nat, NEW hi \in Nat, lo <= hi,
         NEW at \in [lo..hi -> Candidates]
  PROVE  /\ Search(rate, lo, hi, at) \in Candidates
         /\ Distance(rate, Search(rate, lo, hi, at)) <= Distance(rate, NoDivider)
         /\ \A k \in lo..hi :
              Distance(rate, Search(rate, lo, hi, at)) <= Distance(rate, at[k])
<1> DEFINE From(f, k) == IF k = lo THEN NoDivider ELSE f[k - 1]
           Found(f) == f = [k \in lo..hi |->
                              Nearer(rate, at[k], IF k = lo THEN NoDivider ELSE f[k - 1])]
           best == CHOOSE f : Found(f)
           Good(k) == /\ best[k] \in Candidates
                      /\ Distance(rate, best[k]) <= Distance(rate, NoDivider)
                      /\ \A j \in lo..k : Distance(rate, best[k]) <= Distance(rate, at[j])
           Bad == {k \in lo..hi : ~ Good(k)}
           F == [kb \in (lo..hi) \X Candidates |-> Nearer(rate, at[kb[1]], kb[2])]
<1>1. NoDivider \in Candidates
  BY DEF Candidates
<1>2. F \in [(lo..hi) \X Candidates -> Candidates]
  <2>1. ASSUME NEW kb \in (lo..hi) \X Candidates
        PROVE  Nearer(rate, at[kb[1]], kb[2]) \in Candidates
    <3>1. at[kb[1]] \in Candidates /\ kb[2] \in Candidates
      OBVIOUS
    <3> QED
      BY <3>1, NearerIsNearer
  <2> QED
    BY <2>1
<1>3. \A k \in lo..hi, b \in Candidates : F[<<k, b>>] = Nearer(rate, at[k], b)
  OBVIOUS
<1> HIDE DEF F
<1>4. PICK f \in [lo..hi -> Candidates] : Iterates(f, F, NoDivider, lo, hi)
  BY <1>1, <1>2, Iteration
<1>5. Found(f)
  <2>1. ASSUME NEW k \in lo..hi
        PROVE  f[k] = Nearer(rate, at[k], IF k = lo THEN NoDivider ELSE f[k - 1])
    <3>1. (IF k = lo THEN NoDivider ELSE f[k - 1]) \in Candidates
      BY <1>1
    <3>2. f[k] = F[<<k, IF k = lo THEN NoDivider ELSE f[k - 1]>>]
      BY <1>4 DEF Iterates, Before
    <3> QED
      BY <3>1, <3>2, <1>3
  <2> QED
    BY <2>1
<1>6. Found(best)
  BY <1>5, Zenon
<1>7. Search(rate, lo, hi, at) = best[hi]
  BY DEF Search
<1> HIDE DEF best
<1>8. \A k \in lo..hi : best[k] = Nearer(rate, at[k], From(best, k))
  BY <1>6
<1>9. ASSUME NEW k \in lo..hi, k # lo => Good(k - 1)
      PROVE  Good(k)
  <2>1. From(best, k) \in Candidates
    BY <1>9, <1>1
  <2>2. at[k] \in Candidates
    OBVIOUS
  <2>3. /\ best[k] \in Candidates
        /\ Distance(rate, best[k]) <= Distance(rate, at[k])
        /\ Distance(rate, best[k]) <= Distance(rate, From(best, k))
    BY <1>8, <2>1, <2>2, NearerIsNearer
  <2>4. \A d \in Candidates : Distance(rate, d) \in Int
    BY DistanceType
  <2>5. Distance(rate, best[k]) <= Distance(rate, NoDivider)
    <3>1. Distance(rate, From(best, k)) <= Distance(rate, NoDivider)
      BY <1>9, <1>1, <2>4
    <3> QED
      BY <3>1, <2>1, <2>3, <2>4, <1>1
  <2>6. ASSUME NEW j \in lo..k PROVE Distance(rate, best[k]) <= Distance(rate, at[j])
    <3>1. CASE j = k
      BY <3>1, <2>3
    <3>2. CASE j # k
      <4>1. k # lo /\ j \in lo..(k - 1) /\ at[j] \in Candidates
        BY <3>2
      <4>2. Distance(rate, From(best, k)) <= Distance(rate, at[j])
        BY <4>1, <1>9
      <4> QED
        BY <4>1, <4>2, <2>1, <2>3, <2>4, SMTT(30)
    <3> QED
      BY <3>1, <3>2
  <2> QED
    BY <2>3, <2>5, <2>6
<1>10. Bad = {}
  <2> SUFFICES ASSUME Bad # {} PROVE FALSE
    OBVIOUS
  <2>1. Bad \in SUBSET Nat
    OBVIOUS
  <2> HIDE DEF Bad
  <2>2. PICK k \in Bad : \A m \in Bad : k <= m
    BY <2>1, LeastOf
  <2>3. k \in lo..hi /\ ~ Good(k)
    BY DEF Bad
  <2>4. ASSUME k # lo PROVE Good(k - 1)
    <3>1. k - 1 \in lo..hi /\ ~ (k <= k - 1)
      BY <2>3, <2>4
    <3>2. k - 1 \notin Bad
      BY <2>2, <3>1
    <3> QED
      BY <3>1, <3>2 DEF Bad
  <2> QED
    BY <2>3, <2>4, <1>9
<1>11. Good(hi)
  <2>1. hi \in lo..hi
    OBVIOUS
  <2> QED
    BY <2>1, <1>10
<1> QED
  BY <1>7, <1>11

\* The three loops together choose the nearest of all dividers.
LEMMA NearestChosen ==
  ASSUME NEW format \in Formats
  PROVE  LET rate == format.sample_rate IN
         /\ i2sSetRate(rate) \in Dividers
         /\ \A d \in Dividers : Distance(rate, i2sSetRate(rate)) <= Distance(rate, d)
<1> DEFINE rate == format.sample_rate
           words(bck, clkm) == [bits \in MinBits..MaxBits |-> <<bck, clkm, bits>>]
           clocks(bck) == [clkm \in MinClkm..MaxClkm |->
                             Search(rate, MinBits, MaxBits, words(bck, clkm))]
           ticks == [bck \in MinBck..MaxBck |-> Search(rate, MinClkm, MaxClkm, clocks(bck))]
<1>1. rate \in Nat \ {0}
  BY FormatsAssumption
<1>2. PICK near \in Dividers : Distance(rate, near) < rate
  BY DividersAssumption
<1>3. /\ MinBck \in Nat /\ MaxBck \in Nat /\ MinBck <= MaxBck
      /\ MinClkm \in Nat /\ MaxClkm \in Nat /\ MinClkm <= MaxClkm
      /\ MinBits \in Nat /\ MaxBits \in Nat /\ MinBits <= MaxBits
  BY <1>2, DividersAssumption DEF Dividers
<1> HIDE DEF rate
<1>4. \A d \in Candidates : Distance(rate, d) \in Nat
  BY <1>1, DistanceType
<1>5. ASSUME NEW bck \in MinBck..MaxBck, NEW clkm \in MinClkm..MaxClkm
      PROVE  /\ clocks(bck)[clkm] \in Candidates
             /\ \A bits \in MinBits..MaxBits :
                  Distance(rate, clocks(bck)[clkm]) <= Distance(rate, <<bck, clkm, bits>>)
  <2>1. words(bck, clkm) \in [MinBits..MaxBits -> Candidates]
    BY DEF Candidates, Dividers
  <2>2. clocks(bck)[clkm] = Search(rate, MinBits, MaxBits, words(bck, clkm))
    OBVIOUS
  <2>3. \A bits \in MinBits..MaxBits : words(bck, clkm)[bits] = <<bck, clkm, bits>>
    OBVIOUS
  <2> DEFINE at == words(bck, clkm)
             found == clocks(bck)[clkm]
  <2>4. /\ at \in [MinBits..MaxBits -> Candidates] /\ found = Search(rate, MinBits, MaxBits, at)
        /\ \A bits \in MinBits..MaxBits : at[bits] = <<bck, clkm, bits>>
    BY <2>1, <2>2, <2>3
  <2> HIDE DEF words, clocks, at, found
  <2>5. /\ found \in Candidates
        /\ \A bits \in MinBits..MaxBits : Distance(rate, found) <= Distance(rate, at[bits])
    BY <1>1, <1>3, <2>4, SearchFinds
  <2>6. \A bits \in MinBits..MaxBits : Distance(rate, found) <= Distance(rate, <<bck, clkm, bits>>)
    BY <2>4, <2>5
  <2> QED
    BY <2>5, <2>6 DEF found
<1>6. ASSUME NEW bck \in MinBck..MaxBck
      PROVE  /\ ticks[bck] \in Candidates
             /\ \A clkm \in MinClkm..MaxClkm :
                  Distance(rate, ticks[bck]) <= Distance(rate, clocks(bck)[clkm])
  <2>1. clocks(bck) \in [MinClkm..MaxClkm -> Candidates]
    BY <1>5
  <2>2. ticks[bck] = Search(rate, MinClkm, MaxClkm, clocks(bck))
    OBVIOUS
  <2> HIDE DEF clocks, ticks
  <2> QED
    BY <1>1, <1>3, <2>1, <2>2, SearchFinds
<1> DEFINE best == i2sSetRate(rate)
<1>7. /\ best \in Candidates
      /\ Distance(rate, best) <= Distance(rate, NoDivider)
      /\ \A bck \in MinBck..MaxBck : Distance(rate, best) <= Distance(rate, ticks[bck])
  <2>1. ticks \in [MinBck..MaxBck -> Candidates]
    BY <1>6
  <2>2. best = Search(rate, MinBck, MaxBck, ticks)
    BY DEF i2sSetRate
  <2> HIDE DEF ticks, best
  <2> QED
    BY <1>1, <1>3, <2>1, <2>2, SearchFinds
<1> HIDE DEF best, ticks, clocks
<1>8. ASSUME NEW d \in Dividers PROVE Distance(rate, best) <= Distance(rate, d)
  <2>1. PICK bck \in MinBck..MaxBck, clkm \in MinClkm..MaxClkm, bits \in MinBits..MaxBits :
          d = <<bck, clkm, bits>>
    BY DEF Dividers
  <2>2. /\ Distance(rate, best) <= Distance(rate, ticks[bck])
        /\ Distance(rate, ticks[bck]) <= Distance(rate, clocks(bck)[clkm])
        /\ Distance(rate, clocks(bck)[clkm]) <= Distance(rate, d)
    BY <1>5, <1>6, <1>7, <2>1
  <2>3. /\ Distance(rate, best) \in Nat /\ Distance(rate, ticks[bck]) \in Nat
        /\ Distance(rate, clocks(bck)[clkm]) \in Nat /\ Distance(rate, d) \in Nat
    BY <1>4, <1>5, <1>6, <1>7 DEF Candidates
  <2> QED
    BY <2>2, <2>3
<1>9. best # NoDivider
  <2>1. Distance(rate, NoDivider) = rate
    BY <1>1 DEF Distance, Freq
  <2>2. Distance(rate, best) <= Distance(rate, near) /\ Distance(rate, near) < rate
    BY <1>2, <1>8
  <2>3. Distance(rate, best) \in Nat /\ Distance(rate, near) \in Nat
    BY <1>4, <1>7 DEF Candidates
  <2> QED
    BY <2>1, <2>2, <2>3, <1>1
<1> QED
  BY <1>7, <1>8, <1>9 DEF best, rate, Candidates

\* While a block is written the device has the block's format and the clock
\* that i2sSetRate has chosen for it.
ClockInv ==
  /\ adif_format \in Formats \cup {Unset}
  /\ adif_format # Unset => dividers = i2sSetRate(adif_format.sample_rate)
  /\ step # "block" => adif_format # Unset /\ buffer_fmt = adif_format

\* The inductive invariant of the clock holds at every step.
THEOREM ClockInvariance == Spec => []ClockInv
<1>1. Init => ClockInv
  BY DEF Init, AdifInit, ClockInv
<1>2. ClockInv /\ [Next]_vars => ClockInv'
  <2> SUFFICES ASSUME ClockInv, [Next]_vars PROVE ClockInv'
    OBVIOUS
  <2>1. ASSUME NEW format \in Formats, step = "block", SetFormat(format), step' = "read",
               dividers' = IF Changed(format) THEN Chosen[format.sample_rate] ELSE dividers
        PROVE  ClockInv'
    <3>1. format # Unset
      BY FormatsAssumption DEF Unset
    <3>2. Chosen[format.sample_rate] = i2sSetRate(format.sample_rate)
      BY DEF Chosen
    <3>3. buffer_fmt' = format
      BY <2>1 DEF SetFormat
    <3>4. CASE Changed(format)
      <4>1. adif_format' = format /\ dividers' = i2sSetRate(format.sample_rate)
        BY <2>1, <3>2, <3>4 DEF SetFormat
      <4> QED
        BY <4>1, <3>1, <3>3 DEF ClockInv
    <3>5. CASE ~ Changed(format)
      <4>1. adif_format' = adif_format /\ dividers' = dividers
        BY <2>1, <3>5 DEF SetFormat
      <4>2. adif_format = format
        <5>1. /\ adif_format.sample_rate = format.sample_rate
              /\ adif_format.channels = format.channels
          BY <3>5 DEF Changed
        <5>2. adif_format # Unset
          BY <5>1, FormatsAssumption DEF Unset
        <5> QED
          BY <5>1, <5>2, FormatsAssumption DEF ClockInv
      <4> QED
        BY <4>1, <4>2, <3>1, <3>3 DEF ClockInv
    <3> QED
      BY <3>4, <3>5
  <2>2. CASE RenderBlock
    BY <2>1, <2>2 DEF RenderBlock
  <2>3. CASE ReadShort
    BY <2>3 DEF ReadShort, adifvars, ClockInv
  <2>4. CASE MakeBit
    BY <2>4 DEF MakeBit, adifvars, ClockInv
  <2>5. CASE PushWord
    BY <2>5 DEF PushWord, adifvars, ClockInv
  <2>6. CASE UNCHANGED vars
    BY <2>6 DEF vars, adifvars, ClockInv
  <2> QED
    BY <2>2, <2>3, <2>4, <2>5, <2>6 DEF Next
<1> QED
  BY <1>1, <1>2, PTL DEF Spec

\* Whatever the formats, their order and the range of the dividers, a block is
\* written with the clock nearest to its rate (adif_config, i2sSetRate).
THEOREM ClockIsNearest == Spec => []RateIsNearest
<1>1. ClockInv => RateIsNearest
  <2> SUFFICES ASSUME ClockInv, step # "block"
               PROVE  /\ dividers \in Dividers
                      /\ Distance(buffer_fmt.sample_rate, dividers)
                           = LeastDistance[buffer_fmt.sample_rate]
    BY DEF RateIsNearest
  <2> DEFINE rate == buffer_fmt.sample_rate
             all == {Distance(rate, d) : d \in Dividers}
  <2>1. buffer_fmt \in Formats /\ dividers = i2sSetRate(rate)
    BY DEF ClockInv
  <2>2. /\ dividers \in Dividers
        /\ \A d \in Dividers : Distance(rate, dividers) <= Distance(rate, d)
    BY <2>1, NearestChosen
  <2>3. LeastDistance[rate] = CHOOSE off \in all : \A other \in all : off <= other
    BY <2>1 DEF LeastDistance
  <2>4. Distance(rate, dividers) \in all /\ \A other \in all : Distance(rate, dividers) <= other
    BY <2>2
  <2>5. \A off \in all : off \in Nat
    <3>1. rate \in Nat
      BY <2>1, FormatsAssumption
    <3> QED
      BY <3>1, DistanceType DEF Candidates
  <2> HIDE DEF all
  <2>6. /\ LeastDistance[rate] \in all /\ \A other \in all : LeastDistance[rate] <= other
    BY <2>3, <2>4
  <2>7. Distance(rate, dividers) = LeastDistance[rate]
    BY <2>4, <2>5, <2>6
  <2> QED
    BY <2>2, <2>7
<1> QED
  BY <1>1, ClockInvariance, PTL
=============================================================================
