--------------------------- MODULE AudioFifoClient ---------------------------
(***************************************************************************)
(* The rest of af-buffer.h: a third task that calls audio_buffer_reset,    *)
(* audio_buffer_fill (and audio_buffer_free, which subtracts it from the   *)
(* size), audio_buffer_get_overflow and audio_buffer_get_underflow while   *)
(* the decoder and the network task are at work.  The histories restart    *)
(* with a reset: StreamIntact then speaks of the stream since the last one.*)
(***************************************************************************)
EXTENDS AudioFifo

CONSTANT ClientOps      \* the calls the client makes

VARIABLES cpc, cop,     \* step and call
          ret           \* the value the call returns

cvars == <<cpc, cop, ret>>

ClientCall == \E op \in ClientOps :
  /\ cpc = "idle"
  /\ cop' = op /\ cpc' = "lock"
  /\ UNCHANGED <<vars, ret>>

\* util_mutex_take: every call's first statement, and the last but one of
\* the two counter calls, which take the mutex again where they should give it
ClientTake ==
  /\ cpc \in {"lock", "retake"} /\ mux = "free"
  /\ mux' = "client"
  /\ cpc' = IF cpc = "lock" THEN "body" ELSE "idle"
  /\ UNCHANGED <<store, sem_read, sem_write, count, rvars, wvars, hist, cop, ret>>

ClientFill ==
  /\ cpc = "body" /\ cop = "fill"
  /\ ret' = buf_fill /\ cpc' = "unlock"
  /\ UNCHANGED <<vars, cop>>

ClientCount ==
  /\ cpc = "body" /\ cop \in {"get_overflow", "get_underflow"}
  /\ ret' = IF cop = "get_overflow" THEN buf_overflow_count ELSE buf_underflow_count
  /\ cpc' = "retake"
  /\ UNCHANGED <<vars, cop>>

ResetZero ==
  /\ cpc = "body" /\ cop = "reset"
  /\ buf_read_pos' = 0 /\ buf_write_pos' = 0 /\ buf_fill' = 0
  /\ buf_overflow_count' = 0 /\ buf_underflow_count' = 0
  /\ received' = << >> /\ written' = 0
  /\ cpc' = "reset_give"
  /\ UNCHANGED <<buffer, sync, rvars, wvars, cop, ret>>

\* Mutant: the mutex is given before the wait for sem_read.
ResetGive_Unlock ==
  /\ cpc = "reset_give"
  /\ sem_write' = 1 /\ mux' = "free" /\ cpc' = "reset_take"
  /\ UNCHANGED <<store, sem_read, count, rvars, wvars, hist, cop, ret>>

ResetGive ==
  /\ cpc = "reset_give"
  /\ sem_write' = 1 /\ cpc' = "reset_take"
  /\ UNCHANGED <<store, sem_read, mux, count, rvars, wvars, hist, cop, ret>>

\* with the mutex still held
ResetTake ==
  /\ cpc = "reset_take" /\ sem_read = 1
  /\ sem_read' = 0 /\ cpc' = "unlock"
  /\ UNCHANGED <<store, sem_write, mux, count, rvars, wvars, hist, cop, ret>>

ClientUnlock ==
  /\ cpc = "unlock"
  /\ mux' = "free" /\ cpc' = "idle"
  /\ UNCHANGED <<store, sem_read, sem_write, count, rvars, wvars, hist, cop, ret>>

ClientInit == Init /\ cpc = "idle" /\ cop = "fill" /\ ret = 0

Client == \/ ClientCall \/ ClientTake \/ ClientFill \/ ClientCount \/ ResetZero
          \/ ResetGive \/ ResetTake \/ ClientUnlock

ClientNext == (Next /\ UNCHANGED cvars) \/ Client

ClientSpec == ClientInit /\ [][ClientNext]_<<vars, cvars>>

----------------------------------------------------------------------------
\* The client has caught the FIFO: it sleeps on the mutex it holds, or on
\* sem_read with the mutex held and no give of sem_read under way.
Caught ==
  \/ cpc = "retake"
  \/ cpc = "reset_take" /\ sem_read = 0 /\ wpc # "give"

\* What audio_buffer_get_overflow, _get_underflow and, once the decoder has
\* spent its token, _reset do to the player: from then on the FIFO carries
\* nothing.  No later step of any task lets the client go, takes the mutex or
\* moves a byte.
CaughtIsForEver ==
  [][Caught => Caught' /\ UNCHANGED <<store, mux, hist, cvars>>]_<<vars, cvars>>

\* A call that reports a fill reports one the FIFO had, not a half-done one:
\* under the mutex the fill agrees with the bytes gone in and out.
FillIsConsistent ==
  cpc # "idle" /\ mux = "client" => buf_fill = written - Len(received)
=============================================================================
