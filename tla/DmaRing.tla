------------------------------- MODULE DmaRing -------------------------------
(***************************************************************************)
(* i2s_freertos.c: the ring of sample buffers between the decoder task,    *)
(* which calls i2sPushSample, and the SLC DMA engine, which plays buffer   *)
(* after buffer round the descriptor ring and interrupts at the end of     *)
(* each.  slc_isr hands the finished buffer to the task through dmaQueue.  *)
(*                                                                         *)
(* The DMA engine never waits: it plays what it finds.  A sample is its    *)
(* number in the stream, 0 is silence.  The interrupt may be served late,  *)
(* and so late that the next buffer ends first and one end is lost.        *)
(***************************************************************************)
EXTENDS Integers, Sequences

CONSTANTS I2SDMABUFCNT,   \* buffers in the ring
          I2SDMABUFLEN,   \* words in a buffer
          NULL,
          MaxLost,        \* bound: ends of buffers that are lost
          MaxSamples,     \* bound: samples the task pushes
          MaxUnderruns    \* bound: where underrunCnt stops counting

ASSUME RingAssumption ==
  /\ I2SDMABUFCNT \in Nat /\ I2SDMABUFCNT >= 2
  /\ I2SDMABUFLEN \in Nat \ {0}
  /\ MaxLost \in Nat /\ MaxSamples \in Nat /\ MaxUnderruns \in Nat

Buffers == 0..(I2SDMABUFCNT - 1)
ASSUME NullAssumption == NULL \notin Buffers

VARIABLES
  dmaCur, dmaPos,         \* buffer the DMA plays, words of it already played
  eofPending, eofDesc,    \* interrupt status bit and SLC_RX_EOF_DES_ADDR
  dmaQueue, underrunCnt,
  i2sBuf,                 \* contents of the buffers
  currDMABuff, currDMABuffPos,
  ppc,                    \* step of i2sPushSample
  pushed,                 \* samples pushed, so also the number of the last one
  out,                    \* history: the word played last
  lost,                   \* history: ends of buffers that were lost
  starved                 \* history: the DMA has come to a buffer with no new data

dma  == <<dmaCur, dmaPos, eofPending, eofDesc, lost>>
task == <<currDMABuff, currDMABuffPos, ppc, pushed>>
ringvars == <<dma, dmaQueue, underrunCnt, i2sBuf, task, out, starved>>

\* next_link_ptr: the descriptors form a circle.
NextLink(b) == IF b < I2SDMABUFCNT - 1 THEN b + 1 ELSE 0

\* xQueueCreate(I2SDMABUFCNT-1, ...)
QueueDepth == I2SDMABUFCNT - 1

InQueue(b) == \E i \in 1..Len(dmaQueue) : dmaQueue[i] = b

----------------------------------------------------------------------------
(* The DMA engine and the interrupt.                                       *)

\* A buffer with no new data in it: handed out, or still being filled.
Unready(b) == InQueue(b) \/ (b = currDMABuff /\ currDMABuffPos < I2SDMABUFLEN)

DmaWord ==
  /\ dmaPos < I2SDMABUFLEN
  /\ out' = i2sBuf[dmaCur][dmaPos + 1]
  /\ dmaPos' = dmaPos + 1
  /\ UNCHANGED <<dmaCur, eofPending, eofDesc, lost, dmaQueue, underrunCnt, i2sBuf, task, starved>>

DmaEof ==
  /\ dmaPos = I2SDMABUFLEN
  /\ IF eofPending THEN lost < MaxLost /\ lost' = lost + 1 ELSE UNCHANGED lost
  /\ eofPending' = TRUE /\ eofDesc' = dmaCur
  /\ dmaCur' = NextLink(dmaCur) /\ dmaPos' = 0
  /\ starved' = (starved \/ (pushed > 0 /\ Unready(dmaCur')))
  /\ UNCHANGED <<dmaQueue, underrunCnt, i2sBuf, task, out>>

\* Mutant: the finished buffer is sent without making room for it, and the
\* send to the full queue fails.
slc_isr_NoPop ==
  /\ eofPending /\ eofPending' = FALSE
  /\ dmaQueue' = IF Len(dmaQueue) = QueueDepth THEN dmaQueue
                 ELSE Append(dmaQueue, eofDesc)
  /\ UNCHANGED <<dmaCur, dmaPos, eofDesc, lost, underrunCnt, i2sBuf, task, out, starved>>

\* Mutant: the send has slipped into the branch of the full queue.
slc_isr_SendIfFull ==
  /\ eofPending /\ eofPending' = FALSE
  /\ dmaQueue' = IF Len(dmaQueue) = QueueDepth THEN Append(Tail(dmaQueue), eofDesc)
                 ELSE dmaQueue
  /\ UNCHANGED <<dmaCur, dmaPos, eofDesc, lost, underrunCnt, i2sBuf, task, out, starved>>

slc_isr ==
  /\ eofPending /\ eofPending' = FALSE
  /\ \/ /\ Len(dmaQueue) = QueueDepth
        /\ underrunCnt' = IF underrunCnt < MaxUnderruns THEN underrunCnt + 1 ELSE underrunCnt
        /\ dmaQueue' = Append(Tail(dmaQueue), eofDesc)
     \/ /\ Len(dmaQueue) < QueueDepth
        /\ dmaQueue' = Append(dmaQueue, eofDesc)
        /\ UNCHANGED underrunCnt
  /\ UNCHANGED <<dmaCur, dmaPos, eofDesc, lost, i2sBuf, task, out, starved>>

----------------------------------------------------------------------------
(* i2sPushSample: the decoder task.                                        *)

PushCall ==
  /\ ppc = "idle" /\ pushed < MaxSamples
  /\ pushed' = pushed + 1
  /\ ppc' = IF currDMABuffPos = I2SDMABUFLEN \/ currDMABuff = NULL
            THEN "receive" ELSE "store"
  /\ UNCHANGED <<dma, dmaQueue, underrunCnt, i2sBuf, currDMABuff, currDMABuffPos, out, starved>>

\* Mutant: the buffer that has become free last is taken first.
PushReceive_Newest ==
  /\ ppc = "receive" /\ dmaQueue # << >>
  /\ currDMABuff' = dmaQueue[Len(dmaQueue)]
  /\ dmaQueue' = SubSeq(dmaQueue, 1, Len(dmaQueue) - 1)
  /\ currDMABuffPos' = 0
  /\ ppc' = "store"
  /\ starved' = (starved \/ currDMABuff' = dmaCur)
  /\ UNCHANGED <<dma, underrunCnt, i2sBuf, pushed, out>>

PushReceive ==
  /\ ppc = "receive" /\ dmaQueue # << >>
  /\ currDMABuff' = Head(dmaQueue) /\ dmaQueue' = Tail(dmaQueue)
  /\ currDMABuffPos' = 0
  /\ ppc' = "store"
  /\ starved' = (starved \/ currDMABuff' = dmaCur)
  /\ UNCHANGED <<dma, underrunCnt, i2sBuf, pushed, out>>

PushStore ==
  /\ ppc = "store"
  /\ i2sBuf' = [i2sBuf EXCEPT ![currDMABuff][currDMABuffPos + 1] = pushed]
  /\ currDMABuffPos' = currDMABuffPos + 1
  /\ ppc' = "idle"
  /\ UNCHANGED <<dma, dmaQueue, underrunCnt, currDMABuff, pushed, out, starved>>

----------------------------------------------------------------------------
\* i2sInit, and the initialisers of the two cursors of i2sPushSample
RingInit ==
  /\ dmaCur = 0 /\ dmaPos = 0 /\ eofPending = FALSE /\ eofDesc = 0
  /\ dmaQueue = << >> /\ underrunCnt = 0
  /\ i2sBuf = [b \in Buffers |-> [w \in 1..I2SDMABUFLEN |-> 0]]
  /\ currDMABuff = NULL /\ currDMABuffPos = 0
  /\ ppc = "idle" /\ pushed = 0
  /\ out = 0 /\ lost = 0 /\ starved = FALSE

Dma  == DmaWord \/ DmaEof
Push == PushReceive \/ PushStore

RingNext == Dma \/ slc_isr \/ PushCall \/ Push

RingSpec == RingInit /\ [][RingNext]_ringvars

\* The engine plays by its own clock and the interrupt is served.
FairSpec == RingSpec /\ WF_ringvars(Dma) /\ WF_ringvars(slc_isr) /\ WF_ringvars(Push)

----------------------------------------------------------------------------
\* The cursors stay inside the buffer and the ring.
TypeOK ==
  /\ dmaCur \in Buffers /\ dmaPos \in 0..I2SDMABUFLEN
  /\ eofPending \in BOOLEAN /\ eofDesc \in Buffers
  /\ dmaQueue \in Seq(Buffers) /\ Len(dmaQueue) <= QueueDepth
  /\ underrunCnt \in 0..MaxUnderruns
  /\ i2sBuf \in [Buffers -> [1..I2SDMABUFLEN -> Nat]]
  /\ currDMABuff \in Buffers \cup {NULL} /\ currDMABuffPos \in 0..I2SDMABUFLEN
  /\ ppc \in {"idle", "receive", "store"} /\ pushed \in 0..MaxSamples
  /\ out \in Nat /\ lost \in 0..MaxLost /\ starved \in BOOLEAN

\* The free buffers are the ones the DMA has just played, in the order it
\* will come back to them: the queue is a run of the ring that ends at the
\* last buffer handed over, even after slc_isr has dropped its head, as long
\* as every end of a buffer has been served.
QueueIsRun ==
  LET n == Len(dmaQueue)
      newest == IF eofPending THEN eofDesc ELSE dmaCur
  IN  lost = 0 =>
      /\ \A i \in 1..(n - 1) : dmaQueue[i + 1] = NextLink(dmaQueue[i])
      /\ n > 0 => NextLink(dmaQueue[n]) = newest

\* As long as the DMA has not caught up with the task, it plays
\* the samples pushed, all of them and in order, after the first silence.
PlaysInOrder ==
  [][dmaPos' = dmaPos + 1 /\ ~ starved /\ lost = 0 => out' = out + 1 \/ (out = 0 /\ out' = 0)]_ringvars

\* A task that waits for a buffer gets one, however many ends are lost: each
\* end that is served feeds it.
PushResumes == ppc = "receive" ~> ppc = "store"
=============================================================================
