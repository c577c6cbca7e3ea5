----------------------------- MODULE ByteChannel -----------------------------
(***************************************************************************)
(* What the audio FIFO promises its two clients, without its locks, its    *)
(* semaphores or its storage: a bounded channel that hands over, in order  *)
(* and in chunks, exactly the bytes that were put into it.  A byte is      *)
(* named by its index in the stream, so a lost, duplicated, reordered or   *)
(* torn byte shows as a wrong index.                                       *)
(***************************************************************************)
EXTENDS Naturals, Sequences

CONSTANTS Capacity,     \* bytes the channel can hold
          MaxChunk      \* most bytes one transfer moves

VARIABLES inflight,     \* the bytes put and not yet delivered, oldest first
          delivered     \* every byte the consumer has got, oldest first

vars == <<inflight, delivered>>

\* Index of the next byte the producer puts.
Sent == Len(delivered) + Len(inflight)

Init == inflight = << >> /\ delivered = << >>

Put(n) ==
  /\ Len(inflight) + n <= Capacity
  /\ inflight' = inflight \o [i \in 1..n |-> Sent + i - 1]
  /\ UNCHANGED delivered

Deliver(n) ==
  /\ n <= Len(inflight)
  /\ delivered' = delivered \o SubSeq(inflight, 1, n)
  /\ inflight' = SubSeq(inflight, n + 1, Len(inflight))

Next == \E n \in 1..MaxChunk : Put(n) \/ Deliver(n)

Spec == Init /\ [][Next]_vars
=============================================================================
