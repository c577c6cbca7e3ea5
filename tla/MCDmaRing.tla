------------------------------ MODULE MCDmaRing ------------------------------
(* The DMA ring on a small instance.                                       *)
EXTENDS DmaRing
=============================================================================
