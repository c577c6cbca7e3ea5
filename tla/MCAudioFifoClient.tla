------------------------- MODULE MCAudioFifoClient -------------------------
(* The audio FIFO with a third task that calls the rest of its interface.  *)
EXTENDS AudioFifoClient

Ops == {"fill", "reset", "get_overflow", "get_underflow"}
=============================================================================
