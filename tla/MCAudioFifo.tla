---------------------------- MODULE MCAudioFifo ----------------------------
(* The audio FIFO on a small instance.                                     *)
EXTENDS AudioFifo
=============================================================================
