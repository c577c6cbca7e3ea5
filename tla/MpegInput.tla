----------------------------- MODULE MpegInput -----------------------------
(***************************************************************************)
(* The decoder task between the audio FIFO and the synthesis: decode_input *)
(* and the loop of task_mpeg_decode (codec-mpeg.c) with the parts of       *)
(* libmad that move through its buffer: mad_stream_buffer, mad_stream_sync,*)
(* mad_header_decode, mad_frame_decode and the reservoir of mad_layer_III. *)
(*                                                                         *)
(* A byte is its position in the stream, 1 for the first that the FIFO     *)
(* gives.  stream.head says at which positions two bytes look like a sync  *)
(* word, in a frame's header or anywhere else, and what the header that    *)
(* starts there says: whether decode_header takes it (ok), the frame's     *)
(* length (size), the bytes up to the end of its side information (side)   *)
(* and its main_data_begin (begin).  Offsets into mpg_buf start at 0.      *)
(***************************************************************************)
EXTENDS MpegReservoir

CONSTANTS
  Streams,             \* the streams that may come
  BUFSIZE,             \* sizeof mpg_buf
  MAD_BUFFER_GUARD,
  MAX_FRAME_SIZE,
  MaxBegin,            \* the largest main_data_begin
  MAD_BUFFER_MDLEN,    \* bytes of stream->main_data
  NULL                 \* no offset

Headers == [ok : BOOLEAN, size : 1..MAX_FRAME_SIZE, side : 1..MAX_FRAME_SIZE,
            begin : 0..MaxBegin]

\* A whole frame and the header behind it fit in mpg_buf, and the reservoir
\* holds what one frame and the largest main_data_begin can ask for.
ASSUME SizesAssumption ==
  /\ BUFSIZE \in Nat /\ MAD_BUFFER_GUARD \in Nat \ {0} /\ MAX_FRAME_SIZE \in Nat
  /\ MaxBegin \in Nat /\ MAD_BUFFER_MDLEN \in Nat
  /\ MAX_FRAME_SIZE + MAD_BUFFER_GUARD <= BUFSIZE
  /\ MaxBegin + MAX_FRAME_SIZE <= MAD_BUFFER_MDLEN
  /\ NULL \notin Nat

ASSUME StreamsAssumption ==
  \A s \in Streams : s.size \in Nat /\ DOMAIN s.head \subseteq 1..s.size
                     /\ \A p \in DOMAIN s.head : s.head[p] \in Headers

\* stream.real lists where the stream's own frames start, one behind the
\* other; everything else that looks like a sync word is chance, and nothing
\* behind the last frame does.
ASSUME RealAssumption ==
  \A s \in Streams :
    /\ s.real \in Seq(Nat \ {0})
    /\ \A k \in DOMAIN s.real : s.real[k] \in DOMAIN s.head /\ s.head[s.real[k]].ok
    /\ \A k \in 1..(Len(s.real) - 1) : s.real[k + 1] = s.real[k] + s.head[s.real[k]].size
    /\ \A j, k \in DOMAIN s.real : j < k => s.real[j] < s.real[k]
    /\ \A p \in DOMAIN s.head : \E k \in DOMAIN s.real : p <= s.real[k]

\* What an encoder writes: a frame has its side information, and its main data
\* starts no earlier than the main data of the frame before it.
ASSUME EncoderAssumption ==
  \A s \in Streams :
    /\ \A k \in DOMAIN s.real : s.head[s.real[k]].side <= s.head[s.real[k]].size
    /\ \A k \in 1..(Len(s.real) - 1) :
         LET h == s.head[s.real[k]] IN s.head[s.real[k + 1]].begin <= h.begin + h.size - h.side

VARIABLES
  pc,           \* "input" or "decode"
  stream,       \* what the server sends
  taken,        \* bytes taken from the FIFO
  mpg_buf,      \* [buffer, bufend)
  next_frame,   \* an offset in mpg_buf
  sync,         \* next_frame is where a frame is expected
  main_data,    \* the reservoir
  frames,       \* history: the positions of the frames decoded
  handed        \* history: what III_decode was given for the last frame

vars == <<pc, stream, taken, mpg_buf, next_frame, sync, main_data, frames, handed>>

End       == Len(mpg_buf)
SyncAt(i) == i < End /\ mpg_buf[i + 1] \in DOMAIN stream.head
Header(i) == stream.head[mpg_buf[i + 1]]

\* memmove: what is left from next_frame on
Remaining == IF next_frame = NULL THEN << >> ELSE SubSeq(mpg_buf, next_frame + 1, End)
Fresh(n)  == [i \in 1..n |-> taken + i]

\* Mutant: the bytes that are left are not moved to the front.
decode_input_NoMove ==
  LET len == BUFSIZE - Len(Remaining)
  IN  /\ pc = "input" /\ taken + len <= stream.size
      /\ mpg_buf' = SubSeq(mpg_buf, 1, BUFSIZE - len) \o Fresh(len)
      /\ taken' = taken + len
      /\ next_frame' = 0 /\ sync' = TRUE
      /\ pc' = "decode"
      /\ UNCHANGED <<stream, main_data, frames, handed>>

\* audio_buffer_read returns when it has all of the bytes; mad_stream_buffer.
decode_input ==
  LET len == BUFSIZE - Len(Remaining)
  IN  /\ pc = "input" /\ taken + len <= stream.size
      /\ mpg_buf' = Remaining \o Fresh(len)
      /\ taken' = taken + len
      /\ next_frame' = 0 /\ sync' = TRUE
      /\ pc' = "decode"
      /\ UNCHANGED <<stream, main_data, frames, handed>>

----------------------------------------------------------------------------
(* mad_header_decode.                                                      *)

Room(c) == End - c >= MAD_BUFFER_GUARD

\* Mutant: one byte more is asked for.
TooLong_Exact(c) == Header(c).size + MAD_BUFFER_GUARD >= End - c

TooLong(c) == Header(c).size + MAD_BUFFER_GUARD > End - c

\* Where a search ends: a bad header, one that is not whole in the buffer, or
\* one with another behind its frame.
Stops(c) ==
  /\ c >= next_frame /\ Room(c) /\ SyncAt(c)
  /\ ~Header(c).ok \/ TooLong(c) \/ SyncAt(c + Header(c).size)

Offsets == 0..(End - 1)

\* The header that is decoded: the one expected at next_frame, or the first
\* that ends the search.
Candidate(c) ==
  IF sync THEN c = next_frame /\ Room(c) /\ SyncAt(c)
          ELSE Stops(c) /\ \A d \in Offsets : Stops(d) => c <= d

\* The offset to go on from when the rest of the buffer holds no frame.
RestOfBuffer ==
  IF ~sync /\ Room(next_frame) THEN End - MAD_BUFFER_GUARD ELSE next_frame

\* MAD_ERROR_BUFLEN: the loop ends and decode_input is called again.
OutOfData(n) ==
  /\ next_frame' = n /\ sync' = FALSE
  /\ pc' = "input"
  /\ UNCHANGED <<stream, taken, mpg_buf, main_data, frames, handed>>

NoHeader ==
  /\ pc = "decode"
  /\ IF sync THEN ~Room(next_frame) ELSE \A c \in Offsets : ~Stops(c)
  /\ OutOfData(RestOfBuffer)

\* Mutant: next_frame is left behind the sync word.
FrameNotWhole_Skip == \E c \in Offsets :
  /\ pc = "decode" /\ Candidate(c) /\ Header(c).ok /\ TooLong(c)
  /\ OutOfData(c + 1)

FrameNotWhole == \E c \in Offsets :
  /\ pc = "decode" /\ Candidate(c) /\ Header(c).ok /\ TooLong(c)
  /\ OutOfData(c)

\* A recoverable error: the search goes on at the next byte.
GoOn(n) ==
  /\ next_frame' = n /\ sync' = FALSE
  /\ UNCHANGED <<pc, stream, taken, mpg_buf, main_data, frames, handed>>

\* Mutant: the search starts where the sync word is missing.
LostSync_Stay ==
  /\ pc = "decode" /\ sync /\ Room(next_frame) /\ ~SyncAt(next_frame)
  /\ UNCHANGED vars

\* MAD_ERROR_LOSTSYNC
LostSync ==
  /\ pc = "decode" /\ sync /\ Room(next_frame) /\ ~SyncAt(next_frame)
  /\ GoOn(next_frame + 1)

BadHeader == \E c \in Offsets :
  /\ pc = "decode" /\ Candidate(c) /\ ~Header(c).ok
  /\ GoOn(c + 1)

----------------------------------------------------------------------------
(* mad_frame_decode and mad_layer_III.                                     *)

FrameAt(c) == pc = "decode" /\ Candidate(c) /\ Header(c).ok /\ ~TooLong(c)

\* The header is accepted and the next frame is behind it.
Advance(c) ==
  /\ next_frame' = c + Header(c).size /\ sync' = TRUE
  /\ frames' = Append(frames, mpg_buf[c + 1])
  /\ UNCHANGED <<pc, stream, taken, mpg_buf>>

\* MAD_ERROR_BADFRAMELEN: no room for the side information
BadFrameLen == \E c \in Offsets :
  /\ FrameAt(c) /\ Header(c).size < Header(c).side
  /\ Advance(c)
  /\ main_data' = << >> /\ handed' = << >>

\* The frame behind its side information, and main_data_begin of the frame
\* behind it when there is one.
Own(c) == SubSeq(mpg_buf, c + Header(c).side + 1, c + Header(c).size)
PeekBegin(c) == LET n == c + Header(c).size IN IF SyncAt(n) THEN Header(n).begin ELSE 0

LayerIII == \E c \in Offsets :
  LET begin == Header(c).begin
  IN  /\ FrameAt(c) /\ Header(c).size >= Header(c).side
      /\ Advance(c)
      /\ main_data' = Kept(main_data, Own(c), begin, PeekBegin(c))
      /\ handed' = IF Dangling(main_data, begin) THEN << >>
                   ELSE MainData(main_data, Own(c), begin, PeekBegin(c))

----------------------------------------------------------------------------
Init ==
  /\ stream \in Streams
  /\ pc = "input" /\ taken = 0 /\ mpg_buf = << >>
  /\ next_frame = NULL /\ sync = FALSE
  /\ main_data = << >> /\ frames = << >> /\ handed = << >>

Next == decode_input \/ NoHeader \/ FrameNotWhole \/ LostSync \/ BadHeader
        \/ BadFrameLen \/ LayerIII

Spec == Init /\ [][Next]_vars

\* The task runs, and the FIFO gives what has been written.
FairSpec == Spec /\ WF_vars(Next)

----------------------------------------------------------------------------
(* The properties.                                                         *)

Real       == stream.real
HeadOf(k)  == stream.head[Real[k]]
Decoded    == {frames[i] : i \in DOMAIN frames}
Clean      == DOMAIN stream.head = {Real[k] : k \in DOMAIN Real}

\* The main-data bytes of frame k of stream s, and those of frames 1 to k, one
\* after the other.
SpaceOf(s, k) == LET h == s.head[s.real[k]]
                 IN  [i \in 1..(h.size - h.side) |-> s.real[k] + h.side + i - 1]
AreaOf(s) ==
  LET area[k \in 0..Len(s.real)] == IF k = 0 THEN << >> ELSE area[k - 1] \o SpaceOf(s, k)
  IN  area
Area == AreaOf(stream)

\* Where frame k's main data starts and ends in it.
DataStart(k) == Len(Area[k - 1]) - HeadOf(k).begin
DataEnd(k)   == IF k < Len(Real) THEN DataStart(k + 1) ELSE Len(Area[k])

\* The buffer holds the stream, without a gap or a byte twice, up to the last
\* byte taken from the FIFO: decode_input moves what a frame is cut off at.
StreamIntact == \A i \in 1..End : mpg_buf[i] = taken - End + i

\* Wherever the buffer's end cuts the stream, a frame is followed by the next
\* one, and the first is found unless chance sync words come before it.
FramesInOrder ==
  /\ \A i \in 1..(Len(frames) - 1), k \in DOMAIN Real :
       frames[i] = Real[k] => k < Len(Real) /\ frames[i + 1] = Real[k + 1]
  /\ Clean /\ frames # << >> => frames[1] = Real[1]

\* The task asks for more bytes only when each frame that is whole in the
\* buffer, with the guard behind it, has been decoded.  A search stops at a
\* frame only for the sync word of another behind it, so the first of the
\* stream must not be its only one.
NoFrameWaits ==
  pc = "input" => \A k \in DOMAIN Real :
    /\ Real[k] + HeadOf(k).size - 1 + MAD_BUFFER_GUARD <= taken
    /\ (Clean /\ Len(Real) > 1) \/ \E j \in 1..k : Real[j] \in Decoded
    => Real[k] \in Decoded

\* A frame's main data is what the encoder put there for it, collected from
\* the frames before it; a frame whose data starts before the first frame that
\* was decoded is refused, and not decoded from other bytes.
MainDataRight == \A k \in DOMAIN Real :
  frames # << >> /\ frames[Len(frames)] = Real[k] =>
    LET j == CHOOSE j \in 1..k : Real[j] \in Decoded /\ \A i \in 1..(j - 1) : Real[i] \notin Decoded
    IN  IF DataStart(k) >= Len(Area[j - 1])
        THEN handed = SubSeq(Area[k], DataStart(k) + 1, DataEnd(k))
        ELSE frames[1] = Real[j] => handed = << >>

\* The reservoir never holds more than the next frame can reach back to, so
\* the assertion before the copy at layer3.c:2639 cannot fail.
ReservoirFits ==
  /\ Len(main_data) <= MaxBegin
  /\ \A c \in Offsets : FrameAt(c) /\ Header(c).size >= Header(c).side =>
       Len(Filled(main_data, Own(c), Header(c).begin, PeekBegin(c))) <= MAD_BUFFER_MDLEN

\* The task goes through the stream and ends up waiting for bytes that have
\* not come; less than one buffer of what came is left.
StreamTaken == <>[](pc = "input" /\ stream.size - taken < BUFSIZE)
=============================================================================
