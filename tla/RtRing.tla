------------------------------- MODULE RtRing -------------------------------
(***************************************************************************)
(* adif-rt.cpp: the ring between the decoder task, which calls             *)
(* adif_rt_write, and RtAudio's callback thread, which calls               *)
(* rt_read_samples.  There is no lock: each side moves only its own        *)
(* cursor, after the copy, and works with the other's as it was when it    *)
(* looked.  A byte is its index in the stream.                             *)
(***************************************************************************)
EXTENDS Integers, Sequences

CONSTANTS m_buffersize,   \* bytes of the ring
          m_outburst,     \* bytes always kept free
          WriteSizes,     \* sizes the decoder writes
          ReadSizes,      \* sizes the callback is asked for
          MaxBytes        \* bound: bytes written in all

ASSUME BurstAssumption ==
  /\ m_buffersize \in Nat /\ m_outburst \in 1..m_buffersize
  /\ WriteSizes \subseteq Nat /\ ReadSizes \subseteq Nat /\ MaxBytes \in Nat

VARIABLES
  buffer, read_pos, write_pos,
  wpc, wlen, wfirst,      \* adif_rt_write: step, len and first_len
  rpc, rlen, rfirst,      \* rt_read_samples: step, len and first_len
  rout,                   \* outputBuffer, as far as it is filled
  sent,                   \* history: bytes the ring has accepted
  played                  \* history: bytes handed to the device

wvars == <<wpc, wlen, wfirst>>
rvars == <<rpc, rlen, rfirst, rout>>
vars  == <<buffer, read_pos, write_pos, wvars, rvars, sent, played>>

Slots == 0..(m_buffersize - 1)
Least(a, b) == IF a > b THEN b ELSE a

\* Mutant: no chunk is kept free.
buf_free_All ==
  LET free == read_pos - write_pos
  IN  IF free <= 0 THEN free + m_buffersize ELSE free

\* Mutant: one byte more is kept free, to tell full from empty.
buf_free_One ==
  LET free == read_pos - write_pos - m_outburst - 1
  IN  IF free < 0 THEN free + m_buffersize ELSE free

buf_free ==
  LET free == read_pos - write_pos - m_outburst
  IN  IF free < 0 THEN free + m_buffersize ELSE free

buf_used ==
  LET used == write_pos - read_pos
  IN  IF used < 0 THEN used + m_buffersize ELSE used

\* n bytes of the stream from byte k, copied to the ring from slot p.
Filled(p, n, k) == [s \in Slots |-> IF s \in p..(p + n - 1) THEN k + s - p ELSE buffer[s]]
\* n bytes of the ring from slot p.
Taken(p, n) == [i \in 1..n |-> buffer[p + i - 1]]

----------------------------------------------------------------------------
(* adif_rt_write.                                                          *)

WriteCall == \E size \in WriteSizes :
  /\ wpc = "idle" /\ sent + size <= MaxBytes
  /\ wlen' = Least(size, buf_free)
  /\ wfirst' = Least(m_buffersize - write_pos, wlen')
  /\ wpc' = "first"
  /\ UNCHANGED <<buffer, read_pos, write_pos, rvars, sent, played>>

WriteFirst ==
  /\ wpc = "first"
  /\ buffer' = Filled(write_pos, wfirst, sent)
  /\ wpc' = "rest"
  /\ UNCHANGED <<read_pos, write_pos, wlen, wfirst, rvars, sent, played>>

\* if (len > first_len); a copy of nothing otherwise
WriteRest ==
  /\ wpc = "rest"
  /\ buffer' = Filled(0, wlen - wfirst, sent + wfirst)
  /\ wpc' = "publish"
  /\ UNCHANGED <<read_pos, write_pos, wlen, wfirst, rvars, sent, played>>

WritePublish ==
  /\ wpc = "publish"
  /\ write_pos' = (write_pos + wlen) % m_buffersize
  /\ sent' = sent + wlen
  /\ wpc' = "idle"
  /\ UNCHANGED <<buffer, read_pos, wlen, wfirst, rvars, played>>

----------------------------------------------------------------------------
(* rt_read_samples.                                                        *)

ReadCall == \E len \in ReadSizes :
  /\ rpc = "idle"
  /\ rlen' = Least(len, buf_used)
  /\ rfirst' = Least(m_buffersize - read_pos, rlen')
  /\ rout' = << >>
  /\ rpc' = "first"
  /\ UNCHANGED <<buffer, read_pos, write_pos, wvars, sent, played>>

ReadFirst ==
  /\ rpc = "first"
  /\ rout' = Taken(read_pos, rfirst)
  /\ rpc' = "rest"
  /\ UNCHANGED <<buffer, read_pos, write_pos, wvars, rlen, rfirst, sent, played>>

ReadRest ==
  /\ rpc = "rest"
  /\ rout' = rout \o Taken(0, rlen - rfirst)
  /\ rpc' = "publish"
  /\ UNCHANGED <<buffer, read_pos, write_pos, wvars, rlen, rfirst, sent, played>>

ReadPublish ==
  /\ rpc = "publish"
  /\ read_pos' = (read_pos + rlen) % m_buffersize
  /\ played' = played \o rout
  /\ rpc' = "idle"
  /\ UNCHANGED <<buffer, write_pos, wvars, rlen, rfirst, rout, sent>>

----------------------------------------------------------------------------
\* adif_rt_init
Init ==
  /\ buffer = [s \in Slots |-> 0] /\ read_pos = 0 /\ write_pos = 0
  /\ wpc = "idle" /\ wlen = 0 /\ wfirst = 0
  /\ rpc = "idle" /\ rlen = 0 /\ rfirst = 0 /\ rout = << >>
  /\ sent = 0 /\ played = << >>

Reading == ReadCall \/ ReadFirst \/ ReadRest \/ ReadPublish
Writing == WriteFirst \/ WriteRest \/ WritePublish

Next == Reading \/ WriteCall \/ Writing

Spec == Init /\ [][Next]_vars

----------------------------------------------------------------------------
\* The device gets the written stream, whole and in order, although neither
\* side ever waits for the other.
StreamIntact == \A i \in 1..Len(played) : played[i] = i - 1

\* The kept-free chunk keeps full and empty apart: the cursors always agree
\* with the bytes gone in and out, and never more than the ring less the
\* chunk is stored.
CursorsCount ==
  /\ buf_used = sent - Len(played)
  /\ buf_used <= m_buffersize - m_outburst

\* The ring implements the bounded channel: what is under way is what lies
\* between the cursors.
Inflight == [i \in 1..buf_used |-> buffer[(read_pos + i - 1) % m_buffersize]]
Channel == INSTANCE ByteChannel
  WITH Capacity <- m_buffersize - m_outburst, MaxChunk <- m_buffersize,
       delivered <- played, inflight <- Inflight
ChannelSpec == Channel!Spec
=============================================================================
