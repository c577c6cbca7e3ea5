-------------------------- MODULE MpegInputProofs --------------------------
(***************************************************************************)
(* Proofs about the decoder's input, for every buffer and frame size and   *)
(* every stream: the buffer always holds a gapless piece of the stream,    *)
(* the bit reservoir never outgrows its array, frames are decoded one      *)
(* behind the other, none that is whole waits, and each is given the main  *)
(* data that the encoder put there for it.                                 *)
(***************************************************************************)
EXTENDS MpegInput, Lemmas

----------------------------------------------------------------------------
(* Lengths in the reservoir.                                               *)

LEMMA LastOfLength ==
  ASSUME NEW s \in Seq(Nat), NEW n \in Nat, n <= Len(s)
  PROVE  LastOf(s, n) \in Seq(Nat) /\ Len(LastOf(s, n)) = n
  BY DEF LastOf

\* A frame gives the reservoir what lies before the next frame's data, and
\* that is never more than its own space.
LEMMA FrameUsedBounds ==
  ASSUME NEW md \in Seq(Nat), NEW own \in Seq(Nat), NEW begin \in Nat, NEW next \in Nat
  PROVE  /\ FrameUsed(md, own, begin, next) \in 0..Len(own)
         /\ NextBegin(Len(own), begin, next) \in 0..next
         /\ MdLen(Len(own), begin, next) \in Nat
  BY DEF FrameUsed, MdLen, NextBegin, Dangling

LEMMA FilledLength ==
  ASSUME NEW md \in Seq(Nat), NEW own \in Seq(Nat), NEW begin \in Nat, NEW next \in Nat
  PROVE  /\ Filled(md, own, begin, next) \in Seq(Nat)
         /\ Len(Filled(md, own, begin, next)) <= Len(md) + Len(own)
<1> DEFINE used == FrameUsed(md, own, begin, next)
<1>1. used \in 0..Len(own)
  BY FrameUsedBounds
<1>2. SubSeq(own, 1, used) \in Seq(Nat) /\ Len(SubSeq(own, 1, used)) = used
  BY <1>1
<1>3. Stored(md, begin) \in Seq(Nat) /\ Len(Stored(md, begin)) <= Len(md)
  BY DEF Stored
<1> HIDE DEF used
<1> QED
  BY <1>1, <1>2, <1>3, SMTT(30) DEF Filled, used

\* What is kept of earlier frames is no more than the room asked for.
LEMMA KeptBeforeLength ==
  ASSUME NEW filled \in Seq(Nat), NEW begin \in Nat, NEW md_len \in Nat, NEW room \in Nat
  PROVE  /\ KeptBefore(filled, begin, md_len, room) \in Seq(Nat)
         /\ Len(KeptBefore(filled, begin, md_len, room)) <= room
<1> DEFINE extra == Least(begin - md_len, room)
<1>1. CASE md_len >= begin
  BY <1>1 DEF KeptBefore
<1>2. CASE ~(md_len >= begin)
  <2>1. extra \in Nat /\ extra <= room
    BY <1>2 DEF Least
  <2>2. CASE extra >= Len(filled)
    BY <1>2, <2>1, <2>2 DEF KeptBefore
  <2>3. CASE ~(extra >= Len(filled))
    <3>1. KeptBefore(filled, begin, md_len, room) = LastOf(filled, extra)
      BY <1>2, <2>3 DEF KeptBefore
    <3> HIDE DEF extra
    <3> QED
      BY <2>1, <2>3, <3>1, LastOfLength
  <2> QED
    BY <2>2, <2>3
<1> QED
  BY <1>1, <1>2

\* The reservoir left behind reaches back as far as the next frame needs.
LEMMA KeptLength ==
  ASSUME NEW md \in Seq(Nat), NEW own \in Seq(Nat), NEW begin \in Nat, NEW next \in Nat
  PROVE  /\ Kept(md, own, begin, next) \in Seq(Nat)
         /\ Len(Kept(md, own, begin, next)) <= next
<1> DEFINE wanted == NextBegin(Len(own), begin, next)
           free   == Len(own) - FrameUsed(md, own, begin, next)
           filled == Filled(md, own, begin, next)
           md_len == MdLen(Len(own), begin, next)
<1>1. wanted \in 0..next /\ free \in 0..Len(own) /\ md_len \in Nat
  <2>1. FrameUsed(md, own, begin, next) \in 0..Len(own)
    BY FrameUsedBounds
  <2>2. NextBegin(Len(own), begin, next) \in 0..next
    BY FrameUsedBounds
  <2>3. MdLen(Len(own), begin, next) \in Nat
    BY FrameUsedBounds
  <2> QED
    BY <2>1, <2>2, <2>3
<1>2. filled \in Seq(Nat)
  BY FilledLength
<1>3. Kept(md, own, begin, next) =
        IF free >= wanted THEN LastOf(own, wanted)
        ELSE KeptBefore(filled, begin, md_len, wanted - free) \o LastOf(own, free)
  BY DEF Kept
<1> HIDE DEF wanted, free, filled, md_len
<1>4. CASE free >= wanted
  <2>1. LastOf(own, wanted) \in Seq(Nat) /\ Len(LastOf(own, wanted)) = wanted
    BY <1>1, <1>4, LastOfLength
  <2> QED
    BY <1>1, <1>3, <1>4, <2>1
<1>5. CASE ~(free >= wanted)
  <2>1. wanted - free \in Nat
    BY <1>1, <1>5
  <2>2. /\ KeptBefore(filled, begin, md_len, wanted - free) \in Seq(Nat)
        /\ Len(KeptBefore(filled, begin, md_len, wanted - free)) <= wanted - free
    BY <1>1, <1>2, <2>1, KeptBeforeLength
  <2>3. LastOf(own, free) \in Seq(Nat) /\ Len(LastOf(own, free)) = free
    BY <1>1, LastOfLength
  <2> QED
    BY <1>1, <1>3, <1>5, <2>2, <2>3
<1> QED
  BY <1>4, <1>5

----------------------------------------------------------------------------
(* The inductive invariant.                                                *)

Types ==
  /\ pc \in {"input", "decode"} /\ stream \in Streams
  /\ taken \in Nat /\ mpg_buf \in Seq(Nat) /\ sync \in BOOLEAN
  /\ main_data \in Seq(Nat)

\* next_frame lies in the buffer, or there is no buffer yet.
NextFrameInBuffer ==
  /\ End <= BUFSIZE /\ End <= taken
  /\ \/ next_frame \in 0..End
     \/ next_frame = NULL /\ End = 0 /\ taken = 0 /\ pc = "input" /\ frames = << >>

InputInv == Types /\ NextFrameInBuffer /\ StreamIntact /\ Len(main_data) <= MaxBegin

LEMMA InitInput == Init => InputInv
<1> SUFFICES ASSUME Init PROVE InputInv
  OBVIOUS
<1>1. End = 0 /\ Len(main_data) = 0
  BY DEF Init, End
<1>2. Types
  <2>1. mpg_buf \in Seq(Nat) /\ main_data \in Seq(Nat) /\ taken \in Nat
    BY DEF Init
  <2>2. pc \in {"input", "decode"} /\ stream \in Streams /\ sync \in BOOLEAN
    BY Zenon DEF Init
  <2> QED
    BY <2>1, <2>2 DEF Types
<1>3. NextFrameInBuffer
  BY <1>1, SizesAssumption DEF Init, NextFrameInBuffer
<1>4. StreamIntact
  BY <1>1 DEF StreamIntact
<1> QED
  BY <1>1, <1>2, <1>3, <1>4, SizesAssumption DEF InputInv

\* The header that is decoded lies in the buffer, at or behind next_frame.
LEMMA CandidateInBuffer ==
  ASSUME InputInv, pc = "decode", NEW c \in Offsets, Candidate(c)
  PROVE  /\ c \in Nat /\ c < End /\ next_frame \in Nat /\ next_frame <= c
         /\ mpg_buf[c + 1] \in DOMAIN stream.head
         /\ Header(c) \in Headers
<1>1. End \in Nat /\ c \in Nat /\ c < End
  BY DEF InputInv, Types, End, Offsets
<1>2. next_frame \in Nat
  BY <1>1 DEF InputInv, NextFrameInBuffer
<1>3. next_frame <= c /\ SyncAt(c)
  BY <1>1, <1>2 DEF Candidate, Stops
<1>4. mpg_buf[c + 1] \in DOMAIN stream.head
  BY <1>3 DEF SyncAt
<1>5. stream.head[mpg_buf[c + 1]] \in Headers
  BY <1>4, StreamsAssumption DEF InputInv, Types
<1> QED
  BY <1>1, <1>2, <1>3, <1>4, <1>5 DEF Header

\* A frame that is decoded is whole, and its own bytes fit the largest frame.
LEMMA FrameInBuffer ==
  ASSUME InputInv, NEW c \in Offsets, FrameAt(c)
  PROVE  /\ c + Header(c).size \in 0..End
         /\ Header(c).size \in 1..MAX_FRAME_SIZE /\ Header(c).side \in 1..MAX_FRAME_SIZE
         /\ Header(c).begin \in 0..MaxBegin
<1>1. c \in Nat /\ Header(c) \in Headers
  BY CandidateInBuffer DEF FrameAt
<1>2. Header(c).size \in Nat /\ End \in Nat
  BY <1>1, SizesAssumption DEF Headers, InputInv, Types, End
<1>3. Header(c).size + MAD_BUFFER_GUARD <= End - c
  BY <1>1, <1>2, SizesAssumption DEF FrameAt, TooLong
<1> QED
  BY <1>1, <1>2, <1>3, SizesAssumption DEF Headers

LEMMA OwnLength ==
  ASSUME InputInv, NEW c \in Offsets, FrameAt(c), Header(c).size >= Header(c).side
  PROVE  /\ Own(c) \in Seq(Nat) /\ Len(Own(c)) <= MAX_FRAME_SIZE
         /\ PeekBegin(c) \in 0..MaxBegin
<1>1. c \in Nat /\ mpg_buf \in Seq(Nat) /\ End = Len(mpg_buf)
  BY DEF InputInv, Types, End, Offsets
<1>2. /\ Header(c).size \in 1..MAX_FRAME_SIZE /\ Header(c).side \in 1..MAX_FRAME_SIZE
      /\ c + Header(c).size \in 0..End
  BY FrameInBuffer
<1>3. Own(c) \in Seq(Nat) /\ Len(Own(c)) = Header(c).size - Header(c).side
  <2> DEFINE first == c + Header(c).side + 1
             last  == c + Header(c).size
  <2>1. first \in Nat \ {0} /\ last \in Nat /\ last <= Len(mpg_buf) /\ first <= last + 1
    BY <1>1, <1>2, SizesAssumption, SMTT(30)
  <2>2. last - first + 1 = Header(c).size - Header(c).side
    BY <1>1, <1>2, SizesAssumption, SMTT(30)
  <2>3. Own(c) = SubSeq(mpg_buf, first, last)
    BY DEF Own
  <2> HIDE DEF first, last
  <2>4. SubSeq(mpg_buf, first, last) \in Seq(Nat)
        /\ Len(SubSeq(mpg_buf, first, last)) = last - first + 1
    BY <1>1, <2>1
  <2> QED
    BY <2>2, <2>3, <2>4
<1>4. PeekBegin(c) \in 0..MaxBegin
  <2> DEFINE n == c + Header(c).size
  <2>1. CASE SyncAt(n)
    <3>1. stream.head[mpg_buf[n + 1]] \in Headers
      BY <2>1, StreamsAssumption DEF SyncAt, InputInv, Types
    <3> QED
      BY <2>1, <3>1 DEF PeekBegin, Header, Headers
  <2>2. CASE ~SyncAt(n)
    BY <2>2, SizesAssumption DEF PeekBegin
  <2> QED
    BY <2>1, <2>2
<1> QED
  BY <1>2, <1>3, <1>4, SizesAssumption

----------------------------------------------------------------------------
(* The steps.                                                              *)

LEMMA Appended ==
  ASSUME NEW s \in Seq(Nat), NEW t \in Seq(Nat)
  PROVE  /\ s \o t \in Seq(Nat) /\ Len(s \o t) = Len(s) + Len(t)
         /\ \A i \in 1..Len(s \o t) :
              (s \o t)[i] = IF i <= Len(s) THEN s[i] ELSE t[i - Len(s)]
  OBVIOUS

\* What decode_input moves to the front, and what it puts behind.
LEMMA RemainingIntact ==
  ASSUME InputInv
  PROVE  /\ Remaining \in Seq(Nat) /\ Len(Remaining) <= End
         /\ \A i \in 1..Len(Remaining) : Remaining[i] = taken - Len(Remaining) + i
         /\ next_frame # NULL => Len(Remaining) = End - next_frame
         /\ next_frame = NULL => Len(Remaining) = 0
<1>1. mpg_buf \in Seq(Nat) /\ End = Len(mpg_buf) /\ End \in Nat /\ taken \in Nat
  BY DEF InputInv, Types, End
<1>2. CASE next_frame = NULL
  <2>1. Remaining = << >> /\ Len(Remaining) = 0
    BY <1>2 DEF Remaining
  <2> QED
    BY <1>1, <1>2, <2>1
<1>3. CASE next_frame # NULL
  <2>1. next_frame \in 0..End
    BY <1>3 DEF InputInv, NextFrameInBuffer
  <2>2. Remaining = SubSeq(mpg_buf, next_frame + 1, End)
    BY <1>3 DEF Remaining
  <2>3. Remaining \in Seq(Nat) /\ Len(Remaining) = End - next_frame
    BY <1>1, <2>1, <2>2
  <2>4. \A i \in 1..Len(Remaining) : Remaining[i] = mpg_buf[next_frame + i]
    BY <1>1, <2>1, <2>2, <2>3
  <2>5. \A i \in 1..Len(Remaining) : mpg_buf[next_frame + i] = taken - End + next_frame + i
    BY <1>1, <2>1, <2>3 DEF InputInv, StreamIntact
  <2>6. Len(Remaining) <= End
    BY <1>1, <2>1, <2>3
  <2>7. ASSUME NEW i \in 1..Len(Remaining)
        PROVE  Remaining[i] = taken - Len(Remaining) + i
    <3>1. Remaining[i] = taken - End + next_frame + i
      BY <2>4, <2>5
    <3> QED
      BY <1>1, <2>1, <2>3, <3>1
  <2> QED
    BY <1>3, <2>3, <2>6, <2>7
<1> QED
  BY <1>2, <1>3

LEMMA DecodeInputStep ==
  ASSUME InputInv, decode_input
  PROVE  /\ InputInv'
         /\ (taken - End)' = taken - Len(Remaining)
<1> DEFINE len == BUFSIZE - Len(Remaining)
<1>1. /\ Remaining \in Seq(Nat) /\ Len(Remaining) <= BUFSIZE /\ Len(Remaining) <= taken
      /\ \A i \in 1..Len(Remaining) : Remaining[i] = taken - Len(Remaining) + i
      /\ taken \in Nat /\ BUFSIZE \in Nat /\ End \in Nat
  BY RemainingIntact, SizesAssumption DEF InputInv, Types, NextFrameInBuffer, End
<1>2. len \in Nat
  BY <1>1
<1>3. /\ mpg_buf' = Remaining \o Fresh(len) /\ taken' = taken + len
      /\ next_frame' = 0 /\ UNCHANGED <<stream, main_data>>
      /\ pc' = "decode" /\ sync' = TRUE
  BY Zenon DEF decode_input
<1> HIDE DEF len
<1>4. /\ Fresh(len) \in Seq(Nat) /\ Len(Fresh(len)) = len
      /\ \A i \in 1..len : Fresh(len)[i] = taken + i
  BY <1>1, <1>2 DEF Fresh
<1>5. /\ mpg_buf' \in Seq(Nat) /\ Len(mpg_buf') = Len(Remaining) + len
      /\ \A i \in 1..Len(mpg_buf') :
           mpg_buf'[i] = IF i <= Len(Remaining) THEN Remaining[i]
                         ELSE Fresh(len)[i - Len(Remaining)]
  BY <1>1, <1>3, <1>4, Appended, ZenonT(30)
<1>6. Len(mpg_buf') = BUFSIZE
  BY <1>1, <1>5 DEF len
<1>7. \A i \in 1..Len(mpg_buf') : mpg_buf'[i] = taken' - Len(mpg_buf') + i
  <2> SUFFICES ASSUME NEW i \in 1..Len(mpg_buf')
               PROVE  mpg_buf'[i] = taken' - Len(mpg_buf') + i
    OBVIOUS
  <2>1. taken' - Len(mpg_buf') + i = taken - Len(Remaining) + i
    BY <1>1, <1>2, <1>3, <1>5
  <2>2. CASE i <= Len(Remaining)
    BY <1>1, <1>3, <1>4, <1>5, <2>1, <2>2
  <2>3. CASE i > Len(Remaining)
    <3>1. mpg_buf'[i] = Fresh(len)[i - Len(Remaining)]
      BY <1>1, <1>3, <1>4, <1>5, <2>3
    <3>2. i - Len(Remaining) \in 1..len
      BY <1>1, <1>2, <1>5, <2>3
    <3> QED
      BY <1>1, <1>4, <2>1, <3>1, <3>2
  <2> QED
    BY <1>1, <2>2, <2>3
<1>8. Types'
  <2>1. taken' \in Nat /\ mpg_buf' \in Seq(Nat) /\ main_data' \in Seq(Nat)
    BY <1>1, <1>2, <1>3, <1>5 DEF InputInv, Types
  <2>2. pc' \in {"input", "decode"} /\ stream' \in Streams /\ sync' \in BOOLEAN
    BY <1>3, Zenon DEF InputInv, Types
  <2> QED
    BY <2>1, <2>2 DEF Types
<1>9. NextFrameInBuffer'
  BY <1>1, <1>2, <1>3, <1>5, <1>6 DEF NextFrameInBuffer, End
<1>10. StreamIntact'
  BY <1>7 DEF StreamIntact, End
<1>11. Len(main_data)' <= MaxBegin
  BY <1>3 DEF InputInv
<1>12. (taken - End)' = taken - Len(Remaining)
  BY <1>1, <1>2, <1>3, <1>5 DEF End
<1> QED
  BY <1>8, <1>9, <1>10, <1>11, <1>12 DEF InputInv

\* Steps that decode nothing only move next_frame, forwards or not at all.
LEMMA SearchStep ==
  ASSUME InputInv, NoHeader \/ FrameNotWhole \/ LostSync \/ BadHeader
  PROVE  /\ UNCHANGED <<stream, taken, mpg_buf, main_data, frames>>
         /\ next_frame \in 0..End /\ next_frame' \in 0..End /\ next_frame' >= next_frame
         /\ sync' = FALSE /\ pc' \in {"input", "decode"} /\ pc = "decode"
<1>1. End \in Nat
  BY DEF InputInv, Types, End
<1>2. pc = "decode"
  BY Zenon DEF NoHeader, FrameNotWhole, LostSync, BadHeader
<1>3. next_frame \in 0..End
  BY <1>2 DEF InputInv, NextFrameInBuffer
<1>4. CASE NoHeader
  <2>1. /\ next_frame' = RestOfBuffer /\ sync' = FALSE /\ pc' = "input"
        /\ UNCHANGED <<stream, taken, mpg_buf, main_data, frames>>
    BY <1>4, Zenon DEF NoHeader, OutOfData
  <2>2. RestOfBuffer \in 0..End /\ RestOfBuffer >= next_frame
    BY <1>1, <1>3, SizesAssumption DEF RestOfBuffer, Room
  <2> QED
    BY <1>2, <1>3, <2>1, <2>2
<1>5. CASE FrameNotWhole
  <2>1. PICK c \in Offsets : pc = "decode" /\ Candidate(c) /\ OutOfData(c)
    BY <1>5 DEF FrameNotWhole
  <2>2. c \in 0..End /\ c >= next_frame
    BY <1>1, <1>3, <2>1, CandidateInBuffer
  <2> QED
    BY <1>2, <1>3, <2>1, <2>2 DEF OutOfData
<1>6. CASE LostSync
  <2>1. Room(next_frame) /\ GoOn(next_frame + 1)
    BY <1>6 DEF LostSync
  <2>2. next_frame + 1 \in 0..End
    BY <1>1, <1>3, <2>1, SizesAssumption DEF Room
  <2> QED
    BY <1>2, <1>3, <2>1, <2>2 DEF GoOn
<1>7. CASE BadHeader
  <2>1. PICK c \in Offsets : pc = "decode" /\ Candidate(c) /\ GoOn(c + 1)
    BY <1>7 DEF BadHeader
  <2>2. c + 1 \in 0..End /\ c + 1 >= next_frame
    BY <1>1, <1>3, <2>1, CandidateInBuffer
  <2> QED
    BY <1>2, <1>3, <2>1, <2>2 DEF GoOn
<1> QED
  BY <1>4, <1>5, <1>6, <1>7

\* A decoded frame moves next_frame behind it and trims the reservoir.
LEMMA FrameStep ==
  ASSUME InputInv, BadFrameLen \/ LayerIII
  PROVE  /\ UNCHANGED <<stream, taken, mpg_buf, pc>> /\ pc = "decode"
         /\ main_data' \in Seq(Nat) /\ Len(main_data') <= MaxBegin
         /\ sync' = TRUE
         /\ \E c \in Offsets : FrameAt(c) /\ Advance(c)
<1>1. CASE BadFrameLen
  <2>1. main_data' = << >> /\ Len(main_data') = 0
    BY <1>1 DEF BadFrameLen
  <2>2. PICK c \in Offsets : FrameAt(c) /\ Advance(c)
    BY <1>1 DEF BadFrameLen
  <2> QED
    BY <2>1, <2>2, SizesAssumption DEF Advance, FrameAt
<1>2. CASE LayerIII
  <2>1. PICK c \in Offsets :
          /\ FrameAt(c) /\ Advance(c) /\ Header(c).size >= Header(c).side
          /\ main_data' = Kept(main_data, Own(c), Header(c).begin, PeekBegin(c))
    BY <1>2 DEF LayerIII
  <2>2. Own(c) \in Seq(Nat) /\ PeekBegin(c) \in 0..MaxBegin /\ Header(c).begin \in 0..MaxBegin
    BY <2>1, OwnLength, FrameInBuffer
  <2>3. main_data \in Seq(Nat)
    BY DEF InputInv, Types
  <2>4. main_data' \in Seq(Nat) /\ Len(main_data') <= PeekBegin(c)
    BY <2>1, <2>2, <2>3, KeptLength, SizesAssumption
  <2>5. Len(main_data') <= MaxBegin
    BY <2>2, <2>4, SizesAssumption
  <2> QED
    BY <2>1, <2>4, <2>5 DEF Advance, FrameAt
<1> QED
  BY <1>1, <1>2

LEMMA NextInput == InputInv /\ [Next]_vars => InputInv'
<1> SUFFICES ASSUME InputInv, [Next]_vars PROVE InputInv'
  OBVIOUS
<1>1. CASE decode_input
  BY <1>1, DecodeInputStep
<1>2. CASE NoHeader \/ FrameNotWhole \/ LostSync \/ BadHeader
  <2>1. /\ UNCHANGED <<stream, taken, mpg_buf, main_data, frames>>
        /\ next_frame' \in 0..End /\ sync' \in BOOLEAN /\ pc' \in {"input", "decode"}
    BY <1>2, SearchStep
  <2>2. Types'
    BY <2>1, Zenon DEF InputInv, Types
  <2>3. NextFrameInBuffer'
    BY <2>1 DEF InputInv, NextFrameInBuffer, End
  <2>4. StreamIntact'
    BY <2>1 DEF InputInv, StreamIntact, End
  <2> QED
    BY <2>1, <2>2, <2>3, <2>4 DEF InputInv
<1>3. CASE BadFrameLen \/ LayerIII
  <2>1. /\ UNCHANGED <<stream, taken, mpg_buf, pc>>
        /\ main_data' \in Seq(Nat) /\ Len(main_data') <= MaxBegin
        /\ sync' \in BOOLEAN
    BY <1>3, FrameStep
  <2>2. PICK c \in Offsets : FrameAt(c) /\ Advance(c)
    BY <1>3, FrameStep
  <2>3. next_frame' \in 0..End
    BY <2>2, FrameInBuffer DEF Advance
  <2>4. Types'
    BY <2>1, Zenon DEF InputInv, Types
  <2>5. NextFrameInBuffer'
    BY <2>1, <2>3 DEF InputInv, NextFrameInBuffer, End
  <2>6. StreamIntact'
    BY <2>1 DEF InputInv, StreamIntact, End
  <2> QED
    BY <2>1, <2>4, <2>5, <2>6 DEF InputInv
<1>4. CASE UNCHANGED vars
  BY <1>4 DEF vars, InputInv, Types, NextFrameInBuffer, StreamIntact, End
<1> QED
  BY <1>1, <1>2, <1>3, <1>4 DEF Next

\* The inductive invariant of the buffer holds at every step.
THEOREM InputInvariance == Spec => []InputInv
  BY InitInput, NextInput, PTL DEF Spec

\* mpg_buf holds the stream without a gap or a byte twice, for every size of
\* the buffer and of the guard, and every stream.
THEOREM BufferIntact == Spec => []StreamIntact
<1>1. InputInv => StreamIntact
  BY DEF InputInv
<1> QED
  BY <1>1, InputInvariance, PTL

\* The assertion at layer3.c:2639 holds for every stream of frames that fit
\* the largest frame and reach back at most MaxBegin bytes.
THEOREM ReservoirBounded == Spec => []ReservoirFits
<1>1. InputInv => ReservoirFits
  <2> SUFFICES ASSUME InputInv, NEW c \in Offsets, FrameAt(c),
                      Header(c).size >= Header(c).side
               PROVE  Len(Filled(main_data, Own(c), Header(c).begin, PeekBegin(c)))
                        <= MAD_BUFFER_MDLEN
    BY DEF InputInv, ReservoirFits
  <2>1. /\ Own(c) \in Seq(Nat) /\ Len(Own(c)) <= MAX_FRAME_SIZE
        /\ PeekBegin(c) \in 0..MaxBegin /\ Header(c).begin \in 0..MaxBegin
    BY OwnLength, FrameInBuffer
  <2>2. main_data \in Seq(Nat) /\ Len(main_data) <= MaxBegin
    BY DEF InputInv, Types
  <2> DEFINE filled == Filled(main_data, Own(c), Header(c).begin, PeekBegin(c))
  <2>3. filled \in Seq(Nat) /\ Len(filled) <= Len(main_data) + Len(Own(c))
    BY <2>1, <2>2, FilledLength, SizesAssumption
  <2> HIDE DEF filled
  <2>4. Len(filled) <= MAD_BUFFER_MDLEN
    BY <2>1, <2>2, <2>3, SizesAssumption
  <2> QED
    BY <2>4 DEF filled
<1> QED
  BY <1>1, InputInvariance, PTL

----------------------------------------------------------------------------
(* The order of the frames.                                                *)

\* The position in the stream of the byte at offset n.
Pos(n) == taken - End + n + 1

\* Behind a frame of the stream the task is at the next one, and expects it
\* there; behind the last one it searches what no header is in.
Behind(k) ==
  /\ Pos(next_frame) >= Real[k] + HeadOf(k).size
  /\ k < Len(Real) => /\ Pos(next_frame) = Real[k + 1]
                      /\ pc = "decode" => sync

LastBehind == frames # << >> =>
  \A k \in DOMAIN Real : frames[Len(frames)] = Real[k] => Behind(k)

\* Until a frame has been decoded the first one is still ahead.
FirstAhead ==
  Clean /\ frames = << >> /\ next_frame # NULL /\ Len(Real) > 1 => Pos(next_frame) <= Real[1]

OrderInv == frames \in Seq(Nat) /\ FramesInOrder /\ LastBehind /\ FirstAhead

LEMMA StreamFacts ==
  ASSUME InputInv
  PROVE  /\ Real \in Seq(Nat \ {0}) /\ Len(Real) \in Nat /\ DOMAIN Real = 1..Len(Real)
         /\ \A k \in DOMAIN Real : /\ Real[k] \in Nat \ {0} /\ Real[k] \in DOMAIN stream.head
                                   /\ HeadOf(k).ok /\ HeadOf(k).size \in Nat \ {0}
         /\ \A k \in 1..(Len(Real) - 1) : Real[k + 1] = Real[k] + HeadOf(k).size
         /\ \A j, k \in DOMAIN Real : j < k => Real[j] < Real[k]
         /\ \A p \in DOMAIN stream.head : \E k \in DOMAIN Real : p <= Real[k]
<1>1. stream \in Streams
  BY DEF InputInv, Types
<1>2. /\ Real \in Seq(Nat \ {0})
      /\ \A k \in DOMAIN Real : Real[k] \in DOMAIN stream.head /\ HeadOf(k).ok
      /\ \A k \in 1..(Len(Real) - 1) : Real[k + 1] = Real[k] + HeadOf(k).size
      /\ \A j, k \in DOMAIN Real : j < k => Real[j] < Real[k]
      /\ \A p \in DOMAIN stream.head : \E k \in DOMAIN Real : p <= Real[k]
  BY <1>1, RealAssumption DEF Real, HeadOf
<1>3. Len(Real) \in Nat /\ DOMAIN Real = 1..Len(Real)
  BY <1>2
<1>4. \A k \in DOMAIN Real : HeadOf(k) \in Headers
  BY <1>1, <1>2, StreamsAssumption DEF HeadOf
<1>5. \A k \in DOMAIN Real : HeadOf(k).size \in Nat \ {0} /\ Real[k] \in Nat \ {0}
  BY <1>2, <1>3, <1>4, SizesAssumption DEF Headers
<1> QED
  BY <1>2, <1>3, <1>5

LEMMA ByteAt ==
  ASSUME InputInv
  PROVE  /\ End \in Nat /\ taken \in Nat /\ taken - End \in Nat
         /\ \A n \in Nat : n < End => mpg_buf[n + 1] = Pos(n)
<1>1. End \in Nat /\ taken \in Nat /\ End <= taken
  BY DEF InputInv, Types, NextFrameInBuffer, End
<1>2. ASSUME NEW n \in Nat, n < End PROVE mpg_buf[n + 1] = Pos(n)
  BY <1>1, <1>2 DEF InputInv, StreamIntact, Pos
<1> QED
  BY <1>1, <1>2

LEMMA PosOf ==
  ASSUME InputInv, NEW n \in Nat
  PROVE  Pos(n) \in Nat /\ Pos(n) = taken - End + n + 1 /\ taken - End \in Nat
  BY ByteAt DEF Pos

\* Behind a frame of the stream only its successor is decoded.
LEMMA CandidateBehind ==
  ASSUME InputInv, pc = "decode", NEW k \in DOMAIN Real, Behind(k),
         NEW c \in Offsets, Candidate(c)
  PROVE  k < Len(Real) /\ c = next_frame /\ mpg_buf[c + 1] = Real[k + 1]
<1>1. /\ c \in Nat /\ c < End /\ next_frame \in Nat /\ next_frame <= c
      /\ mpg_buf[c + 1] \in DOMAIN stream.head
  BY CandidateInBuffer
<1>2. mpg_buf[c + 1] = Pos(c)
  BY <1>1, ByteAt
<1>3. CASE k < Len(Real)
  <2>1. c = next_frame
    BY <1>3 DEF Behind, Candidate
  <2> QED
    BY <1>2, <1>3, <2>1 DEF Behind
<1>4. CASE ~(k < Len(Real))
  <2>1. PICK j \in DOMAIN Real : Pos(c) <= Real[j]
    BY <1>1, <1>2, StreamFacts
  <2>2. Real[j] <= Real[k]
    <3>1. /\ j \in Nat /\ k \in Nat /\ j <= k /\ Real[j] \in Nat /\ Real[k] \in Nat
          /\ j < k => Real[j] < Real[k]
      BY <1>4, StreamFacts
    <3>2. CASE j < k
      BY <3>1, <3>2
    <3>3. CASE j = k
      BY <3>1, <3>3
    <3> QED
      BY <3>1, <3>2, <3>3
  <2>3. Pos(c) >= Pos(next_frame) /\ Pos(c) \in Nat
    BY <1>1, PosOf
  <2>4. Pos(next_frame) >= Real[k] + HeadOf(k).size
    BY DEF Behind
  <2>5. /\ Real[j] \in Nat /\ Real[k] \in Nat
        /\ HeadOf(k).size \in Nat \ {0} /\ Pos(next_frame) \in Nat
    BY <1>1, StreamFacts, PosOf
  <2> QED
    BY <2>1, <2>2, <2>3, <2>4, <2>5
<1> QED
  BY <1>3, <1>4

\* A position between those of two offsets has an offset between them.
LEMMA OffsetBetween ==
  ASSUME NEW base \in Nat, NEW p \in Nat, NEW m \in Nat, NEW n \in Nat,
         base + m + 1 <= p, p < base + n + 1
  PROVE  p - (base + 1) \in Nat /\ p - (base + 1) >= m /\ p - (base + 1) < n
  OBVIOUS

\* A search that gets to the first frame stops there.
LEMMA StopsAtFirst ==
  ASSUME InputInv, Len(Real) > 1, next_frame \in Nat,
         NEW d \in Nat, d >= next_frame, Room(d), Pos(d) = Real[1]
  PROVE  Stops(d) /\ d \in Offsets
<1>1. End \in Nat /\ MAD_BUFFER_GUARD \in Nat \ {0} /\ d < End
  BY ByteAt, SizesAssumption DEF Room
<1>2. /\ 1 \in DOMAIN Real /\ 2 \in DOMAIN Real
      /\ Real[2] = Real[1] + HeadOf(1).size /\ HeadOf(1).size \in Nat \ {0}
      /\ Real[1] \in DOMAIN stream.head /\ Real[2] \in DOMAIN stream.head
  <2>1. 1 \in DOMAIN Real /\ 2 \in DOMAIN Real /\ 1 \in 1..(Len(Real) - 1)
    BY StreamFacts
  <2>2. /\ Real[1 + 1] = Real[1] + HeadOf(1).size /\ HeadOf(1).size \in Nat \ {0}
        /\ Real[1] \in DOMAIN stream.head
    BY <2>1, StreamFacts
  <2>3. Real[2] \in DOMAIN stream.head
    BY <2>1, StreamFacts
  <2> QED
    BY <2>1, <2>2, <2>3
<1>3. mpg_buf[d + 1] = Real[1]
  BY <1>1, ByteAt
<1>4. SyncAt(d) /\ Header(d) = HeadOf(1)
  BY <1>1, <1>2, <1>3 DEF SyncAt, Header, HeadOf
<1>5. CASE TooLong(d)
  BY <1>1, <1>4, <1>5 DEF Stops, Offsets
<1>6. CASE ~TooLong(d)
  <2> DEFINE n == d + HeadOf(1).size
  <2>1. n \in Nat /\ n < End
    BY <1>1, <1>2, <1>4, <1>6 DEF TooLong
  <2>2. Pos(n) = Real[2]
    <3>1. Pos(d) = taken - End + d + 1 /\ taken - End \in Nat
      BY PosOf
    <3>2. Pos(n) = taken - End + n + 1
      BY <2>1, PosOf
    <3> QED
      BY <1>2, <3>1, <3>2
  <2>3. mpg_buf[n + 1] = Real[2]
    BY <2>1, <2>2, ByteAt
  <2>4. SyncAt(n)
    BY <1>2, <2>1, <2>3 DEF SyncAt
  <2> QED
    BY <1>1, <1>4, <2>4 DEF Stops, Offsets
<1> QED
  BY <1>5, <1>6

\* Without chance sync words the first header that is decoded is the first
\* frame's.
LEMMA FirstCandidate ==
  ASSUME InputInv, FirstAhead, Clean, frames = << >>, pc = "decode",
         NEW c \in Offsets, Candidate(c)
  PROVE  1 \in DOMAIN Real /\ mpg_buf[c + 1] = Real[1]
<1>1. /\ c \in Nat /\ c < End /\ next_frame \in Nat /\ next_frame <= c
      /\ mpg_buf[c + 1] \in DOMAIN stream.head
  BY CandidateInBuffer
<1>2. mpg_buf[c + 1] = Pos(c)
  BY <1>1, ByteAt
<1>3. PICK j \in DOMAIN Real : Pos(c) = Real[j]
  BY <1>1, <1>2 DEF Clean
<1>4. /\ Len(Real) \in Nat /\ j \in 1..Len(Real) /\ 1 \in DOMAIN Real
      /\ Real[1] \in Nat \ {0} /\ Real[j] \in Nat \ {0}
      /\ 1 < j => Real[1] < Real[j]
  <2>1. Len(Real) \in Nat /\ j \in 1..Len(Real) /\ DOMAIN Real = 1..Len(Real)
    BY StreamFacts
  <2>2. 1 \in DOMAIN Real
    BY <2>1
  <2> QED
    BY <2>1, <2>2, StreamFacts
<1>5. SUFFICES ASSUME 1 < j PROVE FALSE
  BY <1>2, <1>3, <1>4
<1>6. next_frame # NULL
  BY <1>1, SizesAssumption
<1>7. Pos(next_frame) <= Real[1] /\ Real[1] < Pos(c) /\ Len(Real) > 1
  BY <1>3, <1>4, <1>5, <1>6 DEF FirstAhead
<1>8. ~sync /\ Stops(c)
  <2>1. Pos(next_frame) \in Nat /\ Pos(c) \in Nat
    BY <1>1, PosOf
  <2>2. c # next_frame
    <3>1. ~(Pos(c) <= Real[1])
      BY <1>4, <1>7, <2>1
    <3> QED
      BY <1>7, <3>1
  <2> QED
    BY <2>2, Zenon DEF Candidate
<1> DEFINE d == Real[1] - (taken - End + 1)
<1>9. d \in Nat /\ d >= next_frame /\ d < c /\ Pos(d) = Real[1]
  <2> DEFINE base == taken - End
  <2>1. Pos(next_frame) = base + next_frame + 1 /\ Pos(c) = base + c + 1 /\ base \in Nat
    BY <1>1, PosOf
  <2>2. d = Real[1] - (base + 1)
    OBVIOUS
  <2> HIDE DEF base, d
  <2>3. d \in Nat /\ d >= next_frame /\ d < c
    <3>1. base + next_frame + 1 <= Real[1] /\ Real[1] < base + c + 1
      BY <1>7, <2>1
    <3>2. Real[1] \in Nat /\ next_frame \in Nat /\ c \in Nat
      BY <1>1, <1>4
    <3> QED
      BY <2>1, <2>2, <3>1, <3>2, OffsetBetween
  <2>4. Pos(d) = base + d + 1
    BY <2>3, PosOf DEF base
  <2> QED
    BY <1>4, <2>1, <2>2, <2>3, <2>4, SMTT(30)
<1>10. Room(d)
  <2>1. Room(c)
    BY <1>8 DEF Stops
  <2> QED
    BY <1>1, <1>9, <2>1, ByteAt, SizesAssumption DEF Room
<1> HIDE DEF d
<1>11. Stops(d) /\ d \in Offsets
  BY <1>1, <1>7, <1>9, <1>10, StopsAtFirst
<1>12. c <= d
  BY <1>8, <1>11 DEF Candidate
<1> QED
  BY <1>1, <1>9, <1>12

LEMMA InitOrder == Init => OrderInv
<1> SUFFICES ASSUME Init PROVE OrderInv
  OBVIOUS
<1>1. frames = << >> /\ frames \in Seq(Nat) /\ Len(frames) = 0 /\ next_frame = NULL
  BY DEF Init
<1>2. FramesInOrder
  BY <1>1 DEF FramesInOrder
<1> QED
  BY <1>1, <1>2 DEF OrderInv, LastBehind, FirstAhead

\* decode_input keeps the place in the stream.
LEMMA DecodeInputOrder ==
  ASSUME InputInv, OrderInv, decode_input
  PROVE  OrderInv'
<1>1. /\ stream' = stream /\ frames' = frames
      /\ next_frame' = 0 /\ sync' = TRUE
  BY Zenon DEF decode_input
<1>2. (taken - End)' = taken - Len(Remaining) /\ taken \in Nat /\ End \in Nat
  BY DecodeInputStep, ByteAt
<1>3. Pos(next_frame)' = taken - Len(Remaining) + 1
  <2>1. (taken - End)' \in Nat
    BY DecodeInputStep, ByteAt, <1>2, RemainingIntact DEF InputInv, NextFrameInBuffer
  <2>2. Pos(next_frame)' = (taken - End)' + 0 + 1
    BY <1>1 DEF Pos
  <2> QED
    BY <1>2, <2>1, <2>2
<1>4. CASE next_frame = NULL
  <2>1. Pos(next_frame)' = 1 /\ frames = << >>
    BY <1>3, <1>4, RemainingIntact, SizesAssumption DEF InputInv, NextFrameInBuffer
  <2>2. Len(Real) > 1 => Real[1] \in Nat \ {0}
    BY StreamFacts
  <2>3. FirstAhead'
    BY <1>1, <2>1, <2>2 DEF FirstAhead, Real
  <2> QED
    BY <1>1, <2>1, <2>3 DEF OrderInv, FramesInOrder, LastBehind, Real, HeadOf, Clean
<1>5. CASE next_frame # NULL
  <2>1. next_frame \in 0..End /\ Len(Remaining) = End - next_frame
    BY <1>5, RemainingIntact DEF InputInv, NextFrameInBuffer
  <2>2. Pos(next_frame)' = Pos(next_frame)
    BY <1>2, <1>3, <2>1, PosOf
  <2>3. FramesInOrder'
    BY <1>1 DEF OrderInv, FramesInOrder, Real, Clean
  <2>4. ASSUME NEW k, Behind(k) PROVE Behind(k)'
    BY <1>1, <2>2, <2>4 DEF Behind, Real, HeadOf
  <2>5. LastBehind'
    BY <1>1, <2>4 DEF OrderInv, LastBehind, Real
  <2>6. FirstAhead'
    BY <1>1, <1>5, <2>2 DEF OrderInv, FirstAhead, Real, Clean
  <2> QED
    BY <1>1, <2>3, <2>5, <2>6 DEF OrderInv
<1> QED
  BY <1>4, <1>5

\* A search or a cut frame leaves the next frame of the stream ahead.
LEMMA SearchBehind ==
  ASSUME InputInv, NoHeader \/ FrameNotWhole \/ LostSync \/ BadHeader,
         NEW k \in DOMAIN Real, Behind(k)
  PROVE  Behind(k)'
<1>1. /\ UNCHANGED <<stream, taken, mpg_buf, main_data, frames>>
      /\ next_frame \in 0..End /\ next_frame' \in 0..End /\ next_frame' >= next_frame
      /\ pc = "decode" /\ End \in Nat
  BY SearchStep, ByteAt
<1>2. Pos(next_frame)' = taken - End + next_frame' + 1
  BY <1>1 DEF Pos, End
<1>3. Pos(next_frame)' >= Real'[k] + HeadOf(k)'.size
  <2>1. Pos(next_frame) \in Nat /\ Pos(next_frame) = taken - End + next_frame + 1
        /\ taken - End \in Nat
    BY <1>1, PosOf
  <2>2. Real[k] \in Nat /\ HeadOf(k).size \in Nat
    BY StreamFacts
  <2>3. Pos(next_frame) >= Real[k] + HeadOf(k).size
    BY DEF Behind
  <2>4. Real' = Real /\ HeadOf(k)' = HeadOf(k)
    BY <1>1 DEF Real, HeadOf
  <2> QED
    BY <1>1, <1>2, <2>1, <2>2, <2>3, <2>4
<1>4. ASSUME k < Len(Real)
      PROVE  next_frame' = next_frame /\ pc' = "input"
  <2>1. sync /\ Pos(next_frame) = Real[k + 1]
    BY <1>1, <1>4 DEF Behind
  <2>2. k + 1 \in DOMAIN Real
    BY <1>4, StreamFacts
  <2>3. Real[k + 1] \in DOMAIN stream.head /\ stream.head[Real[k + 1]].ok
    BY <2>2, StreamFacts DEF HeadOf
  <2>4. CASE NoHeader
    BY <2>1, <2>4 DEF NoHeader, OutOfData, RestOfBuffer
  <2>5. CASE FrameNotWhole
    <3>1. PICK c \in Offsets : Candidate(c) /\ OutOfData(c)
      BY <2>5 DEF FrameNotWhole
    <3>2. c = next_frame
      BY <1>1, <3>1, CandidateBehind
    <3> QED
      BY <3>1, <3>2 DEF OutOfData
  <2>6. CASE LostSync
    <3>1. next_frame < End /\ next_frame \in Nat
      BY <1>1, <2>6, SizesAssumption DEF LostSync, Room
    <3>2. mpg_buf[next_frame + 1] = Real[k + 1]
      BY <2>1, <3>1, ByteAt
    <3> QED
      BY <2>3, <2>6, <3>1, <3>2 DEF LostSync, SyncAt
  <2>7. CASE BadHeader
    <3>1. PICK c \in Offsets : Candidate(c) /\ ~Header(c).ok
      BY <2>7 DEF BadHeader
    <3>2. mpg_buf[c + 1] = Real[k + 1]
      BY <1>1, <3>1, CandidateBehind
    <3> QED
      BY <2>3, <3>1, <3>2 DEF Header
  <2> QED
    BY <2>4, <2>5, <2>6, <2>7
<1>5. ASSUME k < Len(Real)
      PROVE  Pos(next_frame)' = Real'[k + 1] /\ pc' # "decode"
  <2>1. next_frame' = next_frame /\ pc' = "input" /\ Pos(next_frame) = Real[k + 1]
    BY <1>4, <1>5 DEF Behind
  <2>2. Pos(next_frame)' = Pos(next_frame)
    BY <1>1, <1>2, <2>1, PosOf
  <2> QED
    BY <1>1, <2>1, <2>2 DEF Real
<1> QED
  BY <1>1, <1>3, <1>5 DEF Behind, Real
\* A search does not pass the first frame.
LEMMA SearchFirst ==
  ASSUME InputInv, NoHeader \/ FrameNotWhole \/ LostSync \/ BadHeader,
         FirstAhead, Clean, frames = << >>, Len(Real) > 1
  PROVE  Pos(next_frame)' <= Real[1]
<1>1. /\ UNCHANGED <<stream, taken, mpg_buf, main_data, frames>>
      /\ next_frame \in 0..End /\ next_frame' \in 0..End
      /\ pc = "decode" /\ End \in Nat /\ taken - End \in Nat
  BY SearchStep, ByteAt
<1>2. /\ Pos(next_frame)' = taken - End + next_frame' + 1
      /\ Pos(next_frame) = taken - End + next_frame + 1 /\ Pos(next_frame) \in Nat
  BY <1>1, PosOf DEF Pos, End
<1>3. Pos(next_frame) <= Real[1]
  BY <1>1, SizesAssumption DEF FirstAhead
<1>4. 1 \in DOMAIN Real /\ Real[1] \in Nat /\ Real[1] \in DOMAIN stream.head /\ HeadOf(1).ok
  <2>1. 1 \in DOMAIN Real
    BY StreamFacts
  <2> QED
    BY <2>1, StreamFacts
<1>5. CASE next_frame' = next_frame
  BY <1>2, <1>3, <1>5
<1>6. CASE NoHeader /\ next_frame' # next_frame
  <2>1. /\ ~sync /\ Room(next_frame) /\ next_frame' = End - MAD_BUFFER_GUARD
        /\ \A c \in Offsets : ~Stops(c)
    BY <1>6 DEF NoHeader, OutOfData, RestOfBuffer
  <2> SUFFICES ASSUME ~(Pos(next_frame)' <= Real[1]) PROVE FALSE
    OBVIOUS
  <2> DEFINE base == taken - End
             d    == Real[1] - (base + 1)
  <2>2. d = Real[1] - (base + 1) /\ base \in Nat
    BY <1>1
  <2>3. base + next_frame + 1 <= Real[1] /\ Real[1] < base + next_frame' + 1
    BY <1>1, <1>2, <1>3, <1>4, SMTT(30)
  <2> HIDE DEF d
  <2> HIDE DEF base
  <2>4. d \in Nat /\ d >= next_frame /\ d < next_frame'
    <3>1. Real[1] \in Nat /\ next_frame \in Nat /\ next_frame' \in Nat
      BY <1>1, <1>4
    <3> QED
      BY <2>2, <2>3, <3>1, OffsetBetween
  <2>5. Room(d)
    <3>1. d < End - MAD_BUFFER_GUARD
      BY <2>1, <2>4
    <3> QED
      BY <1>1, <2>4, <3>1, SizesAssumption DEF Room
  <2>6. Pos(d) = Real[1]
    <3>1. Pos(d) = base + d + 1
      BY <2>4, PosOf DEF base
    <3> QED
      BY <1>4, <2>2, <2>4, <3>1
  <2>7. Stops(d) /\ d \in Offsets
    BY <1>1, <2>4, <2>5, <2>6, StopsAtFirst
  <2> QED
    BY <2>1, <2>7
<1>7. CASE FrameNotWhole
  <2>1. PICK c \in Offsets : Candidate(c) /\ OutOfData(c)
    BY <1>7 DEF FrameNotWhole
  <2>2. mpg_buf[c + 1] = Real[1] /\ c \in Nat /\ c < End
    BY <1>1, <2>1, FirstCandidate, CandidateInBuffer
  <2>3. Pos(c) = Real[1]
    BY <2>2, ByteAt
  <2>4. Pos(next_frame)' = Pos(c)
    BY <1>2, <2>1, <2>2, PosOf DEF OutOfData
  <2> QED
    BY <1>4, <2>3, <2>4
<1>8. CASE LostSync
  <2>1. ~SyncAt(next_frame) /\ next_frame' = next_frame + 1
    BY <1>8 DEF LostSync, GoOn
  <2>2. next_frame < End
    BY <1>1, <1>8, SizesAssumption DEF LostSync, Room
  <2>3. mpg_buf[next_frame + 1] = Pos(next_frame)
    BY <1>1, <2>2, ByteAt
  <2>4. Pos(next_frame) # Real[1]
    BY <1>4, <2>1, <2>2, <2>3 DEF SyncAt
  <2> QED
    BY <1>1, <1>2, <1>3, <1>4, <2>1, <2>4
<1>9. CASE BadHeader
  <2>1. PICK c \in Offsets : Candidate(c) /\ ~Header(c).ok
    BY <1>9 DEF BadHeader
  <2>2. mpg_buf[c + 1] = Real[1]
    BY <1>1, <2>1, FirstCandidate
  <2> QED
    BY <1>4, <2>1, <2>2 DEF Header, HeadOf
<1> QED
  BY <1>5, <1>6, <1>7, <1>8, <1>9

LEMMA SearchOrder ==
  ASSUME InputInv, OrderInv, NoHeader \/ FrameNotWhole \/ LostSync \/ BadHeader
  PROVE  OrderInv'
<1>1. UNCHANGED <<stream, frames>>
  BY SearchStep
<1>2. FramesInOrder'
  BY <1>1 DEF OrderInv, FramesInOrder, Real, Clean
<1>3. ASSUME NEW k \in DOMAIN Real, Behind(k) PROVE Behind(k)'
  BY <1>3, SearchBehind
<1>4. LastBehind'
  BY <1>1, <1>3 DEF OrderInv, LastBehind, Real
<1>5. Clean /\ frames = << >> /\ Len(Real) > 1 => Pos(next_frame)' <= Real[1]
  BY SearchFirst DEF OrderInv
<1>6. FirstAhead'
  BY <1>1, <1>5 DEF FirstAhead, Real, Clean
<1> QED
  BY <1>1, <1>2, <1>4, <1>6 DEF OrderInv

\* A decoded frame is the successor of the one before.
LEMMA FrameOrder ==
  ASSUME InputInv, OrderInv, BadFrameLen \/ LayerIII
  PROVE  OrderInv'
<1>1. PICK c \in Offsets : FrameAt(c) /\ Advance(c)
  BY FrameStep
<1>2. /\ pc = "decode" /\ Candidate(c) /\ stream' = stream /\ sync' = TRUE
      /\ taken' = taken /\ mpg_buf' = mpg_buf
      /\ next_frame' = c + Header(c).size
  BY <1>1, Zenon DEF FrameAt, Advance
<1> DEFINE p == mpg_buf[c + 1]
<1>3. c \in Nat /\ c < End /\ p = Pos(c) /\ p \in Nat
  BY <1>2, CandidateInBuffer, ByteAt, PosOf
<1>4. frames' = Append(frames, p)
  BY <1>1 DEF Advance
<1>5. frames \in Seq(Nat)
  BY DEF OrderInv
<1>6. ASSUME NEW k \in DOMAIN Real, frames # << >>, frames[Len(frames)] = Real[k]
      PROVE  k < Len(Real) /\ p = Real[k + 1]
  BY <1>2, <1>6, CandidateBehind DEF OrderInv, LastBehind
<1> HIDE DEF p
<1>7. /\ frames' \in Seq(Nat) /\ Len(frames') = Len(frames) + 1 /\ frames' # << >>
      /\ frames'[Len(frames')] = p /\ \A i \in 1..Len(frames) : frames'[i] = frames[i]
      /\ Len(frames) \in Nat
  BY <1>3, <1>4, <1>5
<1>8. FramesInOrder'
  <2>1. ASSUME NEW i \in 1..Len(frames), NEW k \in DOMAIN Real, frames'[i] = Real[k]
        PROVE  k < Len(Real) /\ frames'[i + 1] = Real[k + 1]
    <3>1. CASE i = Len(frames)
      BY <1>6, <1>7, <2>1, <3>1
    <3>2. CASE i # Len(frames)
      <4>1. i \in 1..(Len(frames) - 1) /\ i + 1 \in 1..Len(frames) /\ frames[i] = Real[k]
        BY <1>7, <2>1, <3>2
      <4>2. k < Len(Real) /\ frames[i + 1] = Real[k + 1]
        BY <4>1 DEF OrderInv, FramesInOrder
      <4> QED
        BY <1>7, <4>1, <4>2
    <3> QED
      BY <3>1, <3>2
  <2>2. Clean => frames'[1] = Real[1]
    <3>1. CASE frames = << >>
      <4>1. Len(frames') = 1
        BY <1>7, <3>1
      <4>2. Clean => p = Real[1]
        BY <1>2, <3>1, FirstCandidate DEF OrderInv, p
      <4> QED
        BY <1>7, <4>1, <4>2
    <3>2. CASE frames # << >>
      <4>1. 1 \in 1..Len(frames)
        BY <1>5, <1>7, <3>2
      <4> QED
        BY <1>7, <3>2, <4>1 DEF OrderInv, FramesInOrder
    <3> QED
      BY <3>1, <3>2
  <2>3. Len(frames') - 1 = Len(frames)
    BY <1>7
  <2>4. Real' = Real /\ Clean' = Clean
    BY <1>2 DEF Real, Clean
  <2> QED
    BY <2>1, <2>2, <2>3, <2>4 DEF FramesInOrder
<1>9. LastBehind'
  <2>1. Real' = Real /\ \A k : HeadOf(k)' = HeadOf(k)
    BY <1>2 DEF Real, HeadOf
  <2>2. ASSUME NEW k \in DOMAIN Real, p = Real[k] PROVE Behind(k)'
    <3>1. Header(c).size = HeadOf(k).size
      <4>1. mpg_buf[c + 1] = Real[k]
        BY <2>2 DEF p
      <4> QED
        BY <4>1 DEF Header, HeadOf
    <3>2. Pos(next_frame)' = taken - End + next_frame' + 1
      BY <1>2 DEF Pos, End
    <3>3. HeadOf(k).size \in Nat
      BY StreamFacts
    <3>4. Pos(c) = taken - End + c + 1 /\ taken - End \in Nat
      BY <1>3, PosOf
    <3>5. Pos(next_frame)' = Real[k] + HeadOf(k).size
      <4>1. next_frame' = c + HeadOf(k).size
        BY <1>2, <3>1
      <4>2. Real[k] = taken - End + c + 1
        BY <1>3, <2>2, <3>4
      <4> QED
        BY <1>3, <3>2, <3>3, <3>4, <4>1, <4>2
    <3>6. k < Len(Real) => Real[k + 1] = Real[k] + HeadOf(k).size
      BY StreamFacts
    <3>7. Real[k] \in Nat
      BY StreamFacts
    <3>8. Pos(next_frame)' >= Real[k] + HeadOf(k).size
      BY <3>3, <3>5, <3>7
    <3>9. k < Len(Real) => Pos(next_frame)' = Real[k + 1]
      BY <3>5, <3>6
    <3> QED
      BY <1>2, <2>1, <3>8, <3>9 DEF Behind
  <2> QED
    BY <1>7, <2>1, <2>2 DEF LastBehind
<1>10. FirstAhead'
  BY <1>7 DEF FirstAhead
<1> QED
  BY <1>7, <1>8, <1>9, <1>10 DEF OrderInv

LEMMA NextOrder == InputInv /\ OrderInv /\ [Next]_vars => OrderInv'
<1> SUFFICES ASSUME InputInv, OrderInv, [Next]_vars PROVE OrderInv'
  OBVIOUS
<1>1. CASE decode_input
  BY <1>1, DecodeInputOrder
<1>2. CASE NoHeader \/ FrameNotWhole \/ LostSync \/ BadHeader
  BY <1>2, SearchOrder
<1>3. CASE BadFrameLen \/ LayerIII
  BY <1>3, FrameOrder
<1>4. CASE UNCHANGED vars
  BY <1>4 DEF vars, OrderInv, FramesInOrder, LastBehind, FirstAhead, Behind, Pos, End,
              Real, HeadOf, Clean
<1> QED
  BY <1>1, <1>2, <1>3, <1>4 DEF Next

\* Wherever the end of the buffer cuts the stream, frames are decoded one after
\* the other from the first one found, for every stream and size of buffer.
THEOREM FramesSucceed == Spec => []FramesInOrder
<1>1. OrderInv => FramesInOrder
  BY DEF OrderInv
<1>2. Spec => []OrderInv
  BY InputInvariance, InitOrder, NextOrder, PTL DEF Spec
<1> QED
  BY <1>1, <1>2, PTL

----------------------------------------------------------------------------
(* No frame is left behind.                                                *)

\* Frame k ends, with the guard behind it, after the last byte taken.
NotWhole(k) == Real[k] + HeadOf(k).size - 1 + MAD_BUFFER_GUARD > taken

\* Frames of the stream that are decoded follow each other without a gap.
InSequence == \A i, n \in 1..Len(frames), j \in DOMAIN Real :
  i <= n /\ frames[i] = Real[j] => j + n - i \in DOMAIN Real /\ frames[n] = Real[j + n - i]

\* The task asks for bytes when the next frame is not whole.
NextWaits == pc = "input" => \A k \in DOMAIN Real :
  \/ frames # << >> /\ k > 1 /\ frames[Len(frames)] = Real[k - 1]
  \/ frames = << >> /\ k = 1 /\ Clean /\ Len(Real) > 1
  => NotWhole(k)

WaitInv == InSequence /\ NextWaits

\* A header that is too long for the buffer, or that the guard cuts off.
LEMMA CutOff ==
  ASSUME NEW base \in Nat, NEW n \in Nat, NEW g \in Nat \ {0}, NEW e \in Nat, NEW z \in Nat \ {0}
  PROVE  /\ \A r \in Nat : base + n + 1 <= r /\ e - n < g => r + z - 1 + g > base + e
         /\ \A r \in Nat : base + (e - g) + 1 <= r => r + z - 1 + g > base + e
         /\ z + g > e - n => (base + n + 1) + z - 1 + g > base + e
  OBVIOUS

LEMMA SearchWaits ==
  ASSUME InputInv, OrderInv, NoHeader \/ FrameNotWhole, NEW k \in DOMAIN Real,
         \/ frames # << >> /\ k > 1 /\ frames[Len(frames)] = Real[k - 1]
         \/ frames = << >> /\ k = 1 /\ Clean /\ Len(Real) > 1
  PROVE  NotWhole(k)
<1> DEFINE base == taken - End
<1>1. /\ next_frame \in Nat /\ next_frame' \in Nat /\ pc = "decode"
      /\ UNCHANGED <<taken, mpg_buf>>
      /\ End \in Nat /\ base \in Nat /\ taken = base + End
      /\ MAD_BUFFER_GUARD \in Nat \ {0}
  <2>1. /\ next_frame \in 0..End /\ next_frame' \in 0..End /\ pc = "decode"
        /\ UNCHANGED <<taken, mpg_buf>>
    BY SearchStep
  <2>2. End \in Nat /\ taken \in Nat /\ taken - End \in Nat
    BY ByteAt
  <2> QED
    BY <2>1, <2>2, SizesAssumption
<1>2. /\ Real[k] \in Nat /\ HeadOf(k).size \in Nat \ {0} /\ k \in 1..Len(Real)
      /\ Len(Real) \in Nat
  <2>1. k \in 1..Len(Real) /\ Len(Real) \in Nat
    BY StreamFacts
  <2> QED
    BY <2>1, StreamFacts
<1>3. frames # << >> => /\ k - 1 \in DOMAIN Real /\ k - 1 < Len(Real) /\ k = (k - 1) + 1
                        /\ Behind(k - 1)
  <2> SUFFICES ASSUME frames # << >> PROVE /\ k - 1 \in DOMAIN Real /\ k - 1 < Len(Real)
                                           /\ k = (k - 1) + 1 /\ Behind(k - 1)
    OBVIOUS
  <2>1. k > 1 /\ frames[Len(frames)] = Real[k - 1]
    OBVIOUS
  <2>2. k - 1 \in DOMAIN Real /\ k - 1 < Len(Real) /\ k = (k - 1) + 1
    BY <1>2, <2>1, StreamFacts
  <2> QED
    BY <2>1, <2>2 DEF OrderInv, LastBehind
<1>4. Pos(next_frame) <= Real[k] /\ (frames # << >> => sync)
  <2>1. CASE frames # << >>
    <3>1. Pos(next_frame) = Real[k] /\ sync
      BY <1>1, <1>3, <2>1 DEF Behind
    <3> QED
      BY <1>2, <3>1
  <2>2. CASE frames = << >>
    <3>1. next_frame # NULL
      BY <1>1, SizesAssumption
    <3> QED
      BY <2>2, <3>1 DEF OrderInv, FirstAhead
  <2> QED
    BY <2>1, <2>2
<1>5. Pos(next_frame) = base + next_frame + 1
  BY <1>1, PosOf
<1>6. CASE FrameNotWhole
  <2>1. PICK c \in Offsets : Candidate(c) /\ TooLong(c)
    BY <1>6 DEF FrameNotWhole
  <2>2. mpg_buf[c + 1] = Real[k] /\ c \in Nat /\ c < End
    <3>1. c \in Nat /\ c < End
      BY <1>1, <2>1, CandidateInBuffer
    <3>2. CASE frames # << >>
      BY <1>1, <1>3, <2>1, <3>1, <3>2, CandidateBehind
    <3>3. CASE frames = << >>
      BY <1>1, <2>1, <3>1, <3>3, FirstCandidate DEF OrderInv
    <3> QED
      BY <3>2, <3>3
  <2>3. Real[k] = base + c + 1 /\ Header(c) = HeadOf(k)
    BY <2>2, ByteAt, PosOf DEF Header, HeadOf
  <2>4. HeadOf(k).size + MAD_BUFFER_GUARD > End - c
    BY <2>1, <2>3 DEF TooLong
  <2> HIDE DEF base
  <2>5. (base + c + 1) + HeadOf(k).size - 1 + MAD_BUFFER_GUARD > base + End
    BY <1>1, <1>2, <2>2, <2>4, CutOff
  <2> QED
    BY <1>1, <2>3, <2>5 DEF NotWhole
<1>7. CASE NoHeader
  <2> HIDE DEF base
  <2>1. CASE ~Room(next_frame)
    <3>1. End - next_frame < MAD_BUFFER_GUARD
      BY <1>1, <2>1 DEF Room
    <3>2. Real[k] + HeadOf(k).size - 1 + MAD_BUFFER_GUARD > base + End
      BY <1>1, <1>2, <1>4, <1>5, <3>1, CutOff
    <3> QED
      BY <1>1, <3>2 DEF NotWhole
  <2>2. CASE Room(next_frame)
    <3>1. ~sync /\ next_frame' = End - MAD_BUFFER_GUARD
      BY <1>7, <2>2 DEF NoHeader, OutOfData, RestOfBuffer
    <3>2. frames = << >> /\ k = 1 /\ Clean /\ Len(Real) > 1
      BY <1>4, <3>1
    <3>3. Pos(next_frame)' <= Real[k]
      BY <1>7, <3>2, SearchFirst DEF OrderInv
    <3>4. Pos(next_frame)' = base + (End - MAD_BUFFER_GUARD) + 1
      BY <1>1, <3>1 DEF Pos, End, base
    <3>5. Real[k] + HeadOf(k).size - 1 + MAD_BUFFER_GUARD > base + End
      BY <1>1, <1>2, <3>3, <3>4, CutOff
    <3> QED
      BY <1>1, <3>5 DEF NotWhole
  <2> QED
    BY <2>1, <2>2
<1> QED
  BY <1>6, <1>7

LEMMA SequenceStep ==
  ASSUME InputInv, OrderInv, InSequence, [Next]_vars PROVE InSequence'
<1>1. CASE BadFrameLen \/ LayerIII
  <2>1. PICK c \in Offsets : FrameAt(c) /\ Advance(c)
    BY <1>1, FrameStep
  <2> DEFINE p == mpg_buf[c + 1]
  <2>2. /\ pc = "decode" /\ Candidate(c) /\ stream' = stream /\ frames' = Append(frames, p)
    BY <2>1, Zenon DEF FrameAt, Advance
  <2>3. p \in Nat
    BY <2>2, CandidateInBuffer, ByteAt, PosOf
  <2>4. ASSUME NEW k \in DOMAIN Real, frames # << >>, frames[Len(frames)] = Real[k]
        PROVE  k < Len(Real) /\ p = Real[k + 1]
    BY <2>2, <2>4, CandidateBehind DEF OrderInv, LastBehind
  <2> HIDE DEF p
  <2>5. /\ Len(frames') = Len(frames) + 1 /\ frames'[Len(frames')] = p /\ Len(frames) \in Nat
        /\ \A i \in 1..Len(frames) : frames'[i] = frames[i]
        /\ Len(frames) > 0 => frames # << >>
    BY <2>2, <2>3 DEF OrderInv
  <2>6. Real' = Real /\ DOMAIN Real = 1..Len(Real) /\ Len(Real) \in Nat
    BY <2>2, StreamFacts DEF Real
  <2>7. ASSUME NEW i \in 1..Len(frames'), NEW n \in 1..Len(frames'), NEW j \in DOMAIN Real,
               i <= n, frames'[i] = Real[j]
        PROVE  j + n - i \in DOMAIN Real /\ frames'[n] = Real[j + n - i]
    <3>1. CASE n <= Len(frames)
      <4>1. i \in 1..Len(frames) /\ n \in 1..Len(frames)
        BY <2>5, <2>7, <3>1
      <4> QED
        BY <2>5, <2>7, <4>1 DEF InSequence
    <3>2. CASE n = Len(frames') /\ i = n
      BY <2>5, <2>6, <2>7, <3>2
    <3>3. CASE n = Len(frames') /\ i < n
      <4> DEFINE m == j + Len(frames) - i
      <4>1. i \in 1..Len(frames) /\ Len(frames) \in 1..Len(frames) /\ frames[i] = Real[j]
        BY <2>5, <2>7, <3>3
      <4>2. m \in DOMAIN Real /\ frames[Len(frames)] = Real[m]
        BY <4>1, <2>5 DEF InSequence
      <4>3. m < Len(Real) /\ p = Real[m + 1]
        BY <2>4, <2>5, <4>1, <4>2
      <4>4. m + 1 = j + n - i /\ m \in Nat
        BY <2>5, <2>6, <2>7, <3>3
      <4> HIDE DEF m
      <4> QED
        BY <2>5, <2>6, <3>3, <4>3, <4>4
    <3> QED
      BY <2>5, <2>7, <3>1, <3>2, <3>3
  <2> QED
    BY <2>6, <2>7 DEF InSequence
<1>2. CASE decode_input \/ NoHeader \/ FrameNotWhole \/ LostSync \/ BadHeader \/ UNCHANGED vars
  <2>1. UNCHANGED <<stream, frames>>
    BY <1>2, SearchStep, Zenon DEF decode_input, vars
  <2> QED
    BY <2>1 DEF InSequence, Real
<1> QED
  BY <1>1, <1>2 DEF Next

LEMMA WaitsStep ==
  ASSUME InputInv, OrderInv, NextWaits, [Next]_vars PROVE NextWaits'
<1>1. CASE NoHeader \/ FrameNotWhole
  <2>1. UNCHANGED <<stream, taken, frames>>
    BY <1>1, SearchStep
  <2>2. /\ Real' = Real /\ Clean' = Clean /\ frames' = frames
        /\ \A k : NotWhole(k)' <=> NotWhole(k)
    BY <2>1 DEF Real, Clean, NotWhole, HeadOf
  <2> QED
    BY <1>1, <2>2, SearchWaits DEF NextWaits
<1>2. CASE decode_input \/ LostSync \/ BadHeader \/ BadFrameLen \/ LayerIII
  <2>1. pc' = "decode"
    BY <1>2 DEF decode_input, LostSync, BadHeader, BadFrameLen, LayerIII, FrameAt, Advance, GoOn
  <2> QED
    BY <2>1 DEF NextWaits
<1>3. CASE UNCHANGED vars
  BY <1>3 DEF vars, NextWaits, NotWhole, Real, HeadOf, Clean
<1> QED
  BY <1>1, <1>2, <1>3 DEF Next

LEMMA EndsLater ==
  ASSUME NEW p \in Nat, NEW z \in Nat, NEW q \in Nat, NEW y \in Nat \ {0}, NEW g \in Nat,
         NEW t \in Nat, p + z <= q, p + z - 1 + g > t
  PROVE  q + y - 1 + g > t
  OBVIOUS

\* What lies behind a frame that is not whole is not whole either.
LEMMA LaterNotWhole ==
  ASSUME InputInv, NEW m \in DOMAIN Real, NotWhole(m), NEW k \in DOMAIN Real, m <= k
  PROVE  NotWhole(k)
<1>1. /\ m \in Nat /\ k \in Nat /\ Real[m] \in Nat /\ Real[k] \in Nat /\ k <= Len(Real)
      /\ HeadOf(m).size \in Nat /\ HeadOf(k).size \in Nat \ {0} /\ Len(Real) \in Nat
      /\ m >= 1 /\ DOMAIN Real = 1..Len(Real)
  BY StreamFacts
<1>2. CASE m < k
  <2>1. m + 1 \in DOMAIN Real /\ Real[m + 1] = Real[m] + HeadOf(m).size
    BY <1>1, <1>2, StreamFacts, SMTT(30)
  <2>2. Real[m + 1] <= Real[k]
    <3>1. CASE m + 1 = k
      BY <1>1, <3>1
    <3>2. CASE m + 1 < k
      <4>1. Real[m + 1] < Real[k]
        BY <2>1, <3>2, StreamFacts
      <4> QED
        BY <1>1, <2>1, <4>1
    <3> QED
      BY <1>1, <1>2, <3>1, <3>2
  <2>3. taken \in Nat /\ MAD_BUFFER_GUARD \in Nat
    BY ByteAt, SizesAssumption
  <2>4. Real[m] + HeadOf(m).size <= Real[k] /\ Real[m] + HeadOf(m).size - 1 + MAD_BUFFER_GUARD > taken
    BY <2>1, <2>2 DEF NotWhole
  <2>5. Real[k] + HeadOf(k).size - 1 + MAD_BUFFER_GUARD > taken
    BY <1>1, <2>3, <2>4, EndsLater
  <2> QED
    BY <2>5 DEF NotWhole
<1>3. CASE m = k
  BY <1>3
<1> QED
  BY <1>1, <1>2, <1>3

\* The frames decoded are consecutive, and when the task asks for bytes the
\* next one is not whole.
THEOREM WaitInvariance == Spec => [](InputInv /\ OrderInv /\ WaitInv)
<1>1. Spec => [](InputInv /\ OrderInv)
  BY InputInvariance, InitOrder, NextOrder, PTL DEF Spec
<1>2. Init => WaitInv
  <2> SUFFICES ASSUME Init PROVE WaitInv
    OBVIOUS
  <2>1. frames = << >> /\ taken = 0 /\ InputInv
    BY InitInput DEF Init
  <2>2. ASSUME NEW k \in DOMAIN Real PROVE NotWhole(k)
    BY <2>1, <2>2, StreamFacts, SizesAssumption DEF NotWhole
  <2> QED
    BY <2>1, <2>2 DEF WaitInv, InSequence, NextWaits
<1>3. InputInv /\ OrderInv /\ WaitInv /\ [Next]_vars => WaitInv'
  BY SequenceStep, WaitsStep DEF WaitInv
<1> QED
  BY <1>1, <1>2, <1>3, PTL DEF Spec

\* Each frame that is whole in the buffer is decoded before more bytes are
\* asked for, wherever decode_input cut the stream.
THEOREM WholeFramesDecoded == Spec => []NoFrameWaits
<1>1. InputInv /\ OrderInv /\ WaitInv => NoFrameWaits
  <2> SUFFICES ASSUME InputInv, OrderInv, WaitInv, pc = "input", NEW k \in DOMAIN Real,
                      Real[k] + HeadOf(k).size - 1 + MAD_BUFFER_GUARD <= taken,
                      (Clean /\ Len(Real) > 1) \/ \E j \in 1..k : Real[j] \in Decoded
               PROVE  Real[k] \in Decoded
    BY DEF NoFrameWaits
  <2>0. ~NotWhole(k)
    <3>1. taken \in Nat /\ Real[k] \in Nat /\ HeadOf(k).size \in Nat /\ MAD_BUFFER_GUARD \in Nat
      BY ByteAt, StreamFacts, SizesAssumption
    <3> QED
      BY <3>1 DEF NotWhole
  <2>1. /\ DOMAIN Real = 1..Len(Real) /\ Len(Real) \in Nat /\ Len(frames) \in Nat
        /\ DOMAIN frames = 1..Len(frames)
    BY StreamFacts DEF OrderInv
  <2>2. ASSUME NEW j \in 1..k, NEW i \in 1..Len(frames), frames[i] = Real[j]
        PROVE  Real[k] \in Decoded
    <3> DEFINE m == j + Len(frames) - i
    <3>1. j \in DOMAIN Real /\ Len(frames) \in 1..Len(frames) /\ i <= Len(frames)
      BY <2>1, <2>2
    <3>2. m \in DOMAIN Real /\ frames[Len(frames)] = Real[m]
      BY <2>2, <3>1 DEF WaitInv, InSequence
    <3>3. CASE k <= m
      <4> DEFINE n == i + (k - j)
      <4>1. n \in 1..Len(frames) /\ i <= n /\ j + n - i = k
        BY <2>1, <2>2, <3>1, <3>2, <3>3
      <4>2. frames[n] = Real[k]
        <5> HIDE DEF n, m
        <5>1. frames[n] = Real[j + n - i]
          BY <2>2, <3>1, <4>1 DEF WaitInv, InSequence
        <5> QED
          BY <4>1, <5>1
      <4> HIDE DEF n
      <4> QED
        BY <2>1, <4>1, <4>2 DEF Decoded
    <3>4. CASE ~(k <= m)
      <4> HIDE DEF m
      <4>1. m + 1 \in DOMAIN Real /\ m + 1 <= k /\ m + 1 > 1 /\ (m + 1) - 1 = m
        BY <2>1, <3>2, <3>4
      <4>2. frames # << >>
        BY <2>1, <3>1
      <4>3. NotWhole(m + 1)
        BY <3>2, <4>1, <4>2 DEF WaitInv, NextWaits
      <4> QED
        BY <2>0, <4>1, <4>3, LaterNotWhole
    <3> QED
      BY <3>3, <3>4
  <2>3. CASE \E j \in 1..k : Real[j] \in Decoded
    BY <2>1, <2>2, <2>3 DEF Decoded
  <2>4. CASE Clean /\ Len(Real) > 1 /\ frames # << >>
    <3>1. frames[1] = Real[1] /\ 1 \in 1..Len(frames) /\ 1 \in 1..k
      BY <2>1, <2>4 DEF OrderInv, FramesInOrder
    <3> QED
      BY <2>2, <3>1
  <2>5. CASE Clean /\ Len(Real) > 1 /\ frames = << >>
    <3>1. 1 \in DOMAIN Real /\ 1 <= k
      BY <2>1
    <3>2. NotWhole(1)
      BY <2>5, <3>1 DEF WaitInv, NextWaits
    <3> QED
      BY <2>0, <3>1, <3>2, LaterNotWhole
  <2> QED
    BY <2>3, <2>4, <2>5
<1> QED
  BY <1>1, WaitInvariance, PTL

----------------------------------------------------------------------------
(* Ends of sequences, and the reservoir as one.                            *)

\* Sequences are equal element by element.
LEMMA SameSeq ==
  ASSUME NEW s \in Seq(Nat), NEW t \in Seq(Nat), Len(s) = Len(t),
         \A i \in 1..Len(s) : s[i] = t[i]
  PROVE  s = t
<1>1. s = [i \in 1..Len(s) |-> s[i]] /\ t = [i \in 1..Len(t) |-> t[i]]
  OBVIOUS
<1>2. [i \in 1..Len(s) |-> s[i]] = [i \in 1..Len(t) |-> t[i]]
  BY Zenon
<1> QED
  BY <1>1, <1>2

\* The elements of a concatenation.
LEMMA CatAt ==
  ASSUME NEW s \in Seq(Nat), NEW t \in Seq(Nat)
  PROVE  /\ s \o t \in Seq(Nat) /\ Len(s \o t) = Len(s) + Len(t)
         /\ \A i \in 1..Len(s) : (s \o t)[i] = s[i]
         /\ \A i \in 1..Len(t) : (s \o t)[Len(s) + i] = t[i]
  OBVIOUS

\* The n elements behind the first a.
LEMMA PartAt ==
  ASSUME NEW s \in Seq(Nat), NEW a \in Nat, NEW n \in Nat, a + n <= Len(s)
  PROVE  /\ SubSeq(s, a + 1, a + n) \in Seq(Nat) /\ Len(SubSeq(s, a + 1, a + n)) = n
         /\ \A i \in 1..n : SubSeq(s, a + 1, a + n)[i] = s[a + i]
<1> DEFINE first == a + 1
           last == a + n
<1>1. first \in Nat \ {0} /\ last \in Nat /\ last <= Len(s) /\ first <= last + 1
      /\ last - first + 1 = n /\ \A i \in 1..n : first + i - 1 = a + i
  OBVIOUS
<1> HIDE DEF first, last
<1>2. /\ SubSeq(s, first, last) \in Seq(Nat) /\ Len(SubSeq(s, first, last)) = last - first + 1
      /\ \A i \in 1..(last - first + 1) : SubSeq(s, first, last)[i] = s[first + i - 1]
  BY <1>1
<1> QED
  BY <1>1, <1>2 DEF first, last

\* The last n elements.
LEMMA LastAt ==
  ASSUME NEW s \in Seq(Nat), NEW n \in 0..Len(s)
  PROVE  /\ LastOf(s, n) \in Seq(Nat) /\ Len(LastOf(s, n)) = n
         /\ \A i \in 1..n : LastOf(s, n)[i] = s[Len(s) - n + i]
<1>1. Len(s) - n + 1 \in Nat \ {0} /\ Len(s) - n + 1 <= Len(s) + 1 /\ Len(s) \in Nat /\ n \in Nat
  OBVIOUS
<1> DEFINE first == Len(s) - n + 1
<1>2. /\ SubSeq(s, first, Len(s)) \in Seq(Nat) /\ Len(SubSeq(s, first, Len(s))) = Len(s) - first + 1
      /\ \A i \in 1..(Len(s) - first + 1) : SubSeq(s, first, Len(s))[i] = s[first + i - 1]
  <2> HIDE DEF first
  <2> QED
    BY <1>1, SMTT(30) DEF first
<1>3. Len(s) - first + 1 = n
  BY <1>1
<1>4. LastOf(s, n) = SubSeq(s, first, Len(s))
  BY DEF LastOf
<1>5. \A i \in 1..n : first + i - 1 = Len(s) - n + i
  BY <1>1
<1> HIDE DEF first
<1> QED
  BY <1>2, <1>3, <1>4, <1>5

\* The end of the second of two sequences, or the end of both.
LEMMA LastOfCat ==
  ASSUME NEW s \in Seq(Nat), NEW t \in Seq(Nat)
  PROVE  /\ \A n \in 0..Len(t) : LastOf(s \o t, n) = LastOf(t, n)
         /\ \A n \in 0..Len(s) : LastOf(s \o t, n + Len(t)) = LastOf(s, n) \o t
<1>1. /\ s \o t \in Seq(Nat) /\ Len(s \o t) = Len(s) + Len(t) /\ Len(s) \in Nat /\ Len(t) \in Nat
      /\ \A i \in 1..Len(s) : (s \o t)[i] = s[i]
      /\ \A i \in 1..Len(t) : (s \o t)[Len(s) + i] = t[i]
  BY CatAt
<1> DEFINE st == s \o t
<1> HIDE DEF st
<1>2. ASSUME NEW n \in 0..Len(t) PROVE LastOf(st, n) = LastOf(t, n)
  <2>1. n \in 0..Len(st)
    BY <1>1 DEF st
  <2>2. /\ LastOf(st, n) \in Seq(Nat) /\ Len(LastOf(st, n)) = n
        /\ \A i \in 1..n : LastOf(st, n)[i] = st[Len(st) - n + i]
    BY <2>1, <1>1, LastAt DEF st
  <2>3. /\ LastOf(t, n) \in Seq(Nat) /\ Len(LastOf(t, n)) = n
        /\ \A i \in 1..n : LastOf(t, n)[i] = t[Len(t) - n + i]
    BY LastAt
  <2>4. ASSUME NEW i \in 1..n PROVE st[Len(st) - n + i] = t[Len(t) - n + i]
    <3>1. Len(t) - n + i \in 1..Len(t)
      BY <1>1
    <3>2. Len(st) - n + i = Len(s) + (Len(t) - n + i)
      BY <1>1 DEF st
    <3> QED
      BY <1>1, <3>1, <3>2 DEF st
  <2> HIDE DEF LastOf
  <2>5. \A i \in 1..n : LastOf(st, n)[i] = LastOf(t, n)[i]
    BY <2>2, <2>3, <2>4
  <2> QED
    BY <2>2, <2>3, <2>5, SameSeq
<1>3. ASSUME NEW n \in 0..Len(s) PROVE LastOf(st, n + Len(t)) = LastOf(s, n) \o t
  <2> DEFINE all == n + Len(t)
             end == LastOf(s, n)
  <2>1. all \in 0..Len(st)
    BY <1>1 DEF st
  <2>2. /\ LastOf(st, all) \in Seq(Nat) /\ Len(LastOf(st, all)) = all
        /\ \A i \in 1..all : LastOf(st, all)[i] = st[Len(st) - all + i]
    <3> HIDE DEF all
    <3> QED
      BY <2>1, <1>1, LastAt DEF st
  <2>3. /\ end \in Seq(Nat) /\ Len(end) = n
        /\ \A i \in 1..n : end[i] = s[Len(s) - n + i]
    BY LastAt
  <2> HIDE DEF end
  <2>4. /\ end \o t \in Seq(Nat) /\ Len(end \o t) = all
        /\ \A i \in 1..n : (end \o t)[i] = end[i]
        /\ \A i \in 1..Len(t) : (end \o t)[n + i] = t[i]
    BY <2>3, CatAt
  <2>5. Len(st) - all = Len(s) - n
    BY <1>1 DEF st
  <2>6. ASSUME NEW i \in 1..all PROVE LastOf(st, all)[i] = (end \o t)[i]
    <3>1. CASE i <= n
      <4>1. Len(s) - n + i \in 1..Len(s) /\ i \in 1..n
        BY <1>1, <3>1
      <4>2. st[Len(s) - n + i] = s[Len(s) - n + i]
        BY <1>1, <4>1 DEF st
      <4> QED
        BY <2>2, <2>3, <2>4, <2>5, <4>1, <4>2
    <3>2. CASE ~ (i <= n)
      <4>1. i - n \in 1..Len(t) /\ Len(s) - n + i = Len(s) + (i - n) /\ n + (i - n) = i
        BY <1>1, <3>2
      <4>2. st[Len(s) + (i - n)] = t[i - n] /\ (end \o t)[n + (i - n)] = t[i - n]
        BY <1>1, <2>4, <4>1 DEF st
      <4> QED
        BY <2>2, <2>5, <4>1, <4>2
    <3> QED
      BY <3>1, <3>2
  <2> DEFINE et == end \o t
             l == LastOf(st, all)
  <2>7. l \in Seq(Nat) /\ et \in Seq(Nat) /\ Len(l) = Len(et) /\ \A i \in 1..Len(l) : l[i] = et[i]
    BY <2>2, <2>4, <2>6
  <2> HIDE DEF et, l
  <2>8. l = et
    BY <2>7, SameSeq
  <2> QED
    BY <2>8 DEF et, l, end
<1> QED
  BY <1>2, <1>3 DEF st

\* What the reservoir keeps is the end of what it held and of the frame: as
\* much as the next frame reaches back, or all there is.
LEMMA KeptIsEnd ==
  ASSUME NEW md \in Seq(Nat), NEW own \in Seq(Nat), NEW begin \in Nat, NEW next \in Nat,
         next <= begin + Len(own)
  PROVE  Kept(md, own, begin, next) = LastOf(md \o own, Least(next, Len(md) + Len(own)))
<1> DEFINE used == FrameUsed(md, own, begin, next)
           md_len == MdLen(Len(own), begin, next)
           filled == Filled(md, own, begin, next)
<1>1. Len(md) \in Nat /\ Len(own) \in Nat
  OBVIOUS
<1>2. NextBegin(Len(own), begin, next) = next /\ md_len = begin + Len(own) - next /\ md_len \in Nat
  <2>1. PICK k \in Nat : k = Len(own)
    BY <1>1
  <2>2. ~ (next > begin + k) /\ begin + k - next \in Nat
    BY <2>1
  <2>3. NextBegin(Len(own), begin, next) = next
    BY <2>1, <2>2 DEF NextBegin
  <2>4. md_len = begin + Len(own) - next
    BY <2>3 DEF MdLen
  <2> HIDE DEF md_len
  <2> QED
    BY <2>1, <2>2, <2>3, <2>4
<1>3. used = IF ~ Dangling(md, begin) /\ md_len > begin THEN md_len - begin ELSE 0
  BY DEF FrameUsed
<1>4. Kept(md, own, begin, next) =
        IF Len(own) - used >= next THEN LastOf(own, next)
        ELSE KeptBefore(filled, begin, md_len, next - (Len(own) - used)) \o LastOf(own, Len(own) - used)
  BY <1>2 DEF Kept
<1>5. filled = Stored(md, begin) \o SubSeq(own, 1, used)
  BY DEF Filled
<1> HIDE DEF used, md_len, filled
<1>6. CASE next <= Len(own)
  <2>1. Len(own) - used >= next
    BY <1>1, <1>2, <1>3, <1>6
  <2>2. Least(next, Len(md) + Len(own)) = next /\ next \in 0..Len(own)
    BY <1>1, <1>6 DEF Least
  <2>3. LastOf(md \o own, next) = LastOf(own, next)
    BY <2>2, LastOfCat
  <2> QED
    BY <1>4, <2>1, <2>2, <2>3
<1>7. CASE ~ (next <= Len(own))
  <2>1. used = 0 /\ begin > 0 /\ ~ (Len(own) - used >= next) /\ ~ (md_len >= begin)
    BY <1>1, <1>2, <1>3, <1>7
  <2>2. filled = md
    <3>1. SubSeq(own, 1, 0) = << >>
      OBVIOUS
    <3>2. Stored(md, begin) = md /\ SubSeq(own, 1, used) = << >>
      BY <2>1, <3>1 DEF Stored
    <3>3. md \o << >> = md
      OBVIOUS
    <3> QED
      BY <1>5, <3>2, <3>3
  <2>3. LastOf(own, Len(own)) = own
    BY DEF LastOf
  <2> DEFINE extra == Least(begin - md_len, next - Len(own))
  <2>4. extra = next - Len(own)
    BY <1>1, <1>2, <1>7 DEF Least
  <2>5. Kept(md, own, begin, next) = KeptBefore(md, begin, md_len, next - Len(own)) \o own
    BY <1>1, <1>4, <2>1, <2>2, <2>3
  <2>6. KeptBefore(md, begin, md_len, next - Len(own)) =
          IF extra >= Len(md) THEN md ELSE LastOf(md, extra)
    BY <2>1 DEF KeptBefore
  <2> HIDE DEF extra
  <2>7. CASE extra >= Len(md)
    <3>1. Least(next, Len(md) + Len(own)) = Len(md) + Len(own)
      BY <1>1, <2>4, <2>7, SMTT(30) DEF Least
    <3>2. LastOf(md \o own, Len(md) + Len(own)) = LastOf(md, Len(md)) \o own
      <4>1. Len(md) \in 0..Len(md)
        BY <1>1
      <4> QED
        BY <4>1, LastOfCat
    <3>3. LastOf(md, Len(md)) = md
      BY DEF LastOf
    <3> QED
      BY <2>5, <2>6, <2>7, <3>1, <3>2, <3>3
  <2>8. CASE ~ (extra >= Len(md))
    <3>1. Least(next, Len(md) + Len(own)) = extra + Len(own) /\ extra \in 0..Len(md)
      BY <1>1, <1>7, <2>4, <2>8 DEF Least
    <3>2. LastOf(md \o own, extra + Len(own)) = LastOf(md, extra) \o own
      BY <3>1, LastOfCat
    <3> QED
      BY <2>5, <2>6, <2>8, <3>1, <3>2
  <2> QED
    BY <2>7, <2>8
<1> QED
  BY <1>6, <1>7

\* What a frame is given: its data lie behind the begin last bytes before it.
LEMMA MainDataIs ==
  ASSUME NEW md \in Seq(Nat), NEW own \in Seq(Nat), NEW begin \in Nat, NEW next \in Nat,
         next <= begin + Len(own), begin <= Len(md)
  PROVE  MainData(md, own, begin, next)
           = SubSeq(md \o own, Len(md) - begin + 1, Len(md) + Len(own) - next)
<1> DEFINE used == FrameUsed(md, own, begin, next)
           md_len == MdLen(Len(own), begin, next)
           filled == Filled(md, own, begin, next)
           store == Stored(md, begin)
<1>1. Len(md) \in Nat /\ Len(own) \in Nat
  OBVIOUS
<1>2. md_len = begin + Len(own) - next /\ md_len \in Nat
  <2>1. NextBegin(Len(own), begin, next) = next
    BY <1>1 DEF NextBegin
  <2> QED
    BY <1>1, <2>1 DEF MdLen
<1>3. used = IF md_len > begin THEN md_len - begin ELSE 0
  BY DEF FrameUsed, Dangling
<1>4. used \in 0..Len(own) /\ md_len <= begin + used
  <2> HIDE DEF used, md_len
  <2> QED
    BY <1>1, <1>2, <1>3
<1>5. MainData(md, own, begin, next)
        = SubSeq(filled, Len(store) - begin + 1, Len(store) - begin + md_len)
  BY DEF MainData
<1>6. filled = store \o SubSeq(own, 1, used)
  BY DEF Filled
<1>7. store = IF begin = 0 THEN << >> ELSE md
  BY DEF Stored
<1> HIDE DEF used, md_len, filled, store
<1> DEFINE own1 == SubSeq(own, 1, used)
<1>8. /\ own1 \in Seq(Nat) /\ Len(own1) = used
      /\ \A i \in 1..used : own1[i] = own[i]
  BY <1>1, <1>4, SMTT(30)
<1> HIDE DEF own1
<1>9. store \in Seq(Nat) /\ Len(store) \in Nat /\ begin <= Len(store)
      /\ \A i \in 1..begin : store[Len(store) - begin + i] = md[Len(md) - begin + i]
  BY <1>1, <1>7
<1>10. /\ filled \in Seq(Nat) /\ Len(filled) = Len(store) + used
       /\ \A i \in 1..Len(store) : filled[i] = store[i]
       /\ \A i \in 1..used : filled[Len(store) + i] = own1[i]
  <2>1. filled = store \o own1
    BY <1>6 DEF own1
  <2>2. PICK u : u = store \o own1
    OBVIOUS
  <2>3. /\ u \in Seq(Nat) /\ Len(u) = Len(store) + Len(own1)
        /\ \A i \in 1..Len(store) : u[i] = store[i]
        /\ \A i \in 1..Len(own1) : u[Len(store) + i] = own1[i]
    BY <1>8, <1>9, <2>2, CatAt, Zenon
  <2> QED
    BY <1>8, <2>1, <2>2, <2>3, Zenon
<1> DEFINE a == Len(store) - begin
           b == Len(md) - begin
           whole == md \o own
<1>11. /\ whole \in Seq(Nat) /\ Len(whole) = Len(md) + Len(own)
       /\ \A i \in 1..Len(md) : whole[i] = md[i]
       /\ \A i \in 1..Len(own) : whole[Len(md) + i] = own[i]
  BY CatAt
<1> HIDE DEF whole
<1>12. a \in Nat /\ b \in Nat /\ a + md_len <= Len(filled) /\ b + md_len <= Len(whole)
  BY <1>1, <1>2, <1>4, <1>9, <1>10, <1>11
<1>13. ASSUME NEW i \in 1..md_len PROVE filled[a + i] = whole[b + i]
  <2>1. CASE i <= begin
    <3>1. i \in 1..begin /\ a + i \in 1..Len(store) /\ b + i \in 1..Len(md)
      BY <1>1, <1>2, <1>9, <2>1, SMTT(30)
    <3> QED
      BY <3>1, <1>9, <1>10, <1>11
  <2>2. CASE ~ (i <= begin)
    <3>1. /\ i - begin \in 1..used /\ i - begin \in 1..Len(own)
          /\ a + i = Len(store) + (i - begin) /\ b + i = Len(md) + (i - begin)
      BY <1>1, <1>2, <1>4, <1>9, <2>2
    <3> QED
      BY <3>1, <1>8, <1>10, <1>11, ZenonT(30)
  <2> QED
    BY <2>1, <2>2
<1> HIDE DEF a, b
<1> DEFINE l == SubSeq(filled, a + 1, a + md_len)
           r == SubSeq(whole, b + 1, b + md_len)
<1>14. l \in Seq(Nat) /\ Len(l) = md_len /\ \A i \in 1..md_len : l[i] = filled[a + i]
  BY <1>2, <1>10, <1>12, PartAt, ZenonT(30)
<1>15. r \in Seq(Nat) /\ Len(r) = md_len /\ \A i \in 1..md_len : r[i] = whole[b + i]
  BY <1>2, <1>11, <1>12, PartAt, ZenonT(30)
<1> HIDE DEF l, r
<1>16. l = r
  BY <1>13, <1>14, <1>15, SameSeq
<1>17. b + 1 = Len(md) - begin + 1 /\ b + md_len = Len(md) + Len(own) - next
  BY <1>1, <1>2 DEF b
<1> QED
  BY <1>5, <1>16, <1>17 DEF l, r, a, b, whole

\* Two sequences have the same last n elements, as far as the first one goes.
EndAlike(s, t, n) == \A i \in Nat : i < n /\ i < Len(s) => s[Len(s) - i] = t[Len(t) - i]

\* What is put behind both is alike as well.
LEMMA AlikeCat ==
  ASSUME NEW s \in Seq(Nat), NEW t \in Seq(Nat), NEW end \in Seq(Nat),
         NEW n \in 0..Len(t), EndAlike(s, t, n)
  PROVE  EndAlike(s \o end, t \o end, n + Len(end))
<1> DEFINE se == s \o end
           te == t \o end
<1>1. /\ Len(se) = Len(s) + Len(end) /\ Len(te) = Len(t) + Len(end)
      /\ Len(s) \in Nat /\ Len(t) \in Nat /\ Len(end) \in Nat
      /\ \A i \in 1..Len(s) : se[i] = s[i]
      /\ \A i \in 1..Len(t) : te[i] = t[i]
      /\ \A i \in 1..Len(end) : se[Len(s) + i] = end[i] /\ te[Len(t) + i] = end[i]
  BY CatAt
<1> HIDE DEF se, te
<1>2. ASSUME NEW i \in Nat, i < n + Len(end), i < Len(se)
      PROVE  se[Len(se) - i] = te[Len(te) - i]
  <2>1. CASE i < Len(end)
    <3>1. /\ Len(end) - i \in 1..Len(end)
          /\ Len(se) - i = Len(s) + (Len(end) - i) /\ Len(te) - i = Len(t) + (Len(end) - i)
      BY <1>1, <2>1
    <3> QED
      BY <1>1, <3>1, ZenonT(30)
  <2>2. CASE ~ (i < Len(end))
    <3> DEFINE j == i - Len(end)
    <3>1. /\ j \in Nat /\ j < n /\ j < Len(s) /\ Len(s) - j \in 1..Len(s) /\ Len(t) - j \in 1..Len(t)
          /\ Len(se) - i = Len(s) - j /\ Len(te) - i = Len(t) - j
      BY <1>1, <1>2, <2>2
    <3> HIDE DEF j
    <3>2. s[Len(s) - j] = t[Len(t) - j]
      BY <3>1 DEF EndAlike
    <3> QED
      BY <1>1, <3>1, <3>2
  <2> QED
    BY <2>1, <2>2
<1> QED
  BY <1>2 DEF EndAlike, se, te

\* The end of a sequence is alike as far as it goes.
LEMMA AlikeLast ==
  ASSUME NEW s \in Seq(Nat), NEW t \in Seq(Nat), NEW n \in Nat, EndAlike(s, t, n),
         NEW m \in 0..Len(s)
  PROVE  EndAlike(LastOf(s, m), t, n)
<1> DEFINE l == LastOf(s, m)
<1>1. /\ Len(l) = m /\ \A i \in 1..m : l[i] = s[Len(s) - m + i]
      /\ Len(s) \in Nat /\ m \in Nat /\ m <= Len(s)
  <2>1. Len(l) = m /\ \A i \in 1..m : l[i] = s[Len(s) - m + i]
    BY LastAt
  <2> QED
    BY <2>1
<1> HIDE DEF l
<1>2. ASSUME NEW i \in Nat, i < n, i < Len(l) PROVE l[Len(l) - i] = t[Len(t) - i]
  <2>1. m - i \in 1..m /\ Len(l) - i = m - i /\ Len(s) - m + (m - i) = Len(s) - i /\ i < Len(s)
    BY <1>1, <1>2
  <2>2. s[Len(s) - i] = t[Len(t) - i]
    BY <1>2, <2>1 DEF EndAlike
  <2> QED
    BY <1>1, <2>1, <2>2
<1> QED
  BY <1>2 DEF EndAlike, l

\* Parts counted from the end are equal within what is alike.
LEMMA AlikeParts ==
  ASSUME NEW s \in Seq(Nat), NEW t \in Seq(Nat), NEW n \in 0..Len(t), EndAlike(s, t, n),
         NEW from \in 0..n, from <= Len(s), NEW to \in 0..from
  PROVE  SubSeq(s, Len(s) - from + 1, Len(s) - to) = SubSeq(t, Len(t) - from + 1, Len(t) - to)
<1> DEFINE a == Len(s) - from
           b == Len(t) - from
           len == from - to
<1>1. /\ Len(s) \in Nat /\ Len(t) \in Nat /\ a \in Nat /\ b \in Nat /\ len \in Nat
      /\ Len(s) - from + 1 = a + 1 /\ Len(s) - to = a + len
      /\ Len(t) - from + 1 = b + 1 /\ Len(t) - to = b + len
      /\ a + len <= Len(s) /\ b + len <= Len(t)
  OBVIOUS
<1>2. ASSUME NEW i \in 1..len PROVE s[a + i] = t[b + i]
  <2>1. from - i \in Nat /\ from - i < n /\ from - i < Len(s)
        /\ Len(s) - (from - i) = a + i /\ Len(t) - (from - i) = b + i
    BY <1>1
  <2> HIDE DEF a, b, len
  <2> QED
    BY <2>1 DEF EndAlike
<1> HIDE DEF a, b, len
<1> DEFINE l == SubSeq(s, a + 1, a + len)
           r == SubSeq(t, b + 1, b + len)
<1>3. l \in Seq(Nat) /\ Len(l) = len /\ \A i \in 1..len : l[i] = s[a + i]
  BY <1>1, PartAt
<1>4. r \in Seq(Nat) /\ Len(r) = len /\ \A i \in 1..len : r[i] = t[b + i]
  BY <1>1, PartAt
<1> HIDE DEF l, r
<1>5. l = r
  BY <1>2, <1>3, <1>4, SameSeq
<1> QED
  BY <1>1, <1>5 DEF l, r

\* As much is kept as the next frame asks for or is known.
LEMMA RoomLeft ==
  ASSUME NEW begin \in Nat, NEW next \in Nat, NEW held \in Nat, NEW own \in Nat,
         NEW known \in Nat, next <= begin + own, held >= Least(begin, known)
  PROVE  /\ Least(next, held + own) >= Least(next, known + own)
         /\ held <= known => Least(next, held + own) <= known + own
  BY DEF Least

\* The reservoir behind one frame: area is the main data up to it, and the
\* first bytes of that may be lost, when they are of frames not decoded.
GoesOn(md, own, area, lost, begin, next) ==
  /\ EndAlike(Kept(md, own, begin, next), area \o own, Len(area \o own) - lost)
  /\ Len(Kept(md, own, begin, next)) >= Least(next, Len(area \o own) - lost)
  /\ Len(md) <= Len(area) - lost =>
       Len(Kept(md, own, begin, next)) <= Len(area \o own) - lost
  /\ begin <= Len(area) - lost =>
       /\ ~ Dangling(md, begin)
       /\ MainData(md, own, begin, next)
          = SubSeq(area \o own, Len(area) - begin + 1, Len(area \o own) - next)
  /\ begin > Len(area) - lost /\ Len(md) <= Len(area) - lost => Dangling(md, begin)

LEMMA ReservoirStep ==
  ASSUME NEW md \in Seq(Nat), NEW own \in Seq(Nat), NEW area \in Seq(Nat),
         NEW lost \in 0..Len(area), NEW begin \in Nat, NEW next \in Nat,
         next <= begin + Len(own),
         EndAlike(md, area, Len(area) - lost), Len(md) >= Least(begin, Len(area) - lost)
  PROVE  GoesOn(md, own, area, lost, begin, next)
<1> DEFINE mo == md \o own
           ao == area \o own
           m == Least(next, Len(md) + Len(own))
           kept == Kept(md, own, begin, next)
<1>1. /\ Len(mo) = Len(md) + Len(own) /\ Len(ao) = Len(area) + Len(own)
      /\ mo \in Seq(Nat) /\ ao \in Seq(Nat)
      /\ Len(md) \in Nat /\ Len(area) \in Nat /\ Len(own) \in Nat
  BY CatAt
<1> DEFINE known == Len(area) - lost
<1>2. known \in 0..Len(area) /\ known + Len(own) \in 0..Len(ao) /\ Len(ao) - lost = known + Len(own)
  BY <1>1
<1>3. EndAlike(mo, ao, known + Len(own))
  BY <1>2, AlikeCat
<1>4. m \in 0..Len(mo) /\ m = Least(next, Len(mo))
  BY <1>1 DEF Least
<1>5. kept = LastOf(mo, m)
  BY KeptIsEnd
<1> HIDE DEF mo, ao, known
<1>6. EndAlike(kept, ao, known + Len(own)) /\ Len(kept) = m
  <2> HIDE DEF m, kept
  <2>1. known + Len(own) \in Nat
    BY <1>2
  <2> QED
    BY <1>1, <1>3, <1>4, <1>5, <2>1, AlikeLast, LastAt
<1> HIDE DEF kept
<1>7. m >= Least(next, known + Len(own)) /\ (Len(md) <= known => m <= known + Len(own))
  <2>1. known \in Nat
    BY <1>2
  <2>2. Len(md) >= Least(begin, known)
    BY DEF known
  <2> HIDE DEF m
  <2>3. m = Least(next, Len(md) + Len(own))
    BY DEF m
  <2> QED
    BY <1>1, <2>1, <2>2, <2>3, RoomLeft
<1>8. ASSUME begin <= known
      PROVE  /\ ~ Dangling(md, begin)
             /\ MainData(md, own, begin, next) = SubSeq(ao, Len(area) - begin + 1, Len(ao) - next)
  <2>1. begin <= Len(md)
    BY <1>1, <1>2, <1>8 DEF Least, known
  <2>2. MainData(md, own, begin, next) = SubSeq(mo, Len(md) - begin + 1, Len(md) + Len(own) - next)
    BY <2>1, MainDataIs DEF mo
  <2> DEFINE from == begin + Len(own)
  <2>3. /\ from \in 0..(known + Len(own)) /\ from <= Len(mo) /\ next \in 0..from
        /\ Len(md) - begin + 1 = Len(mo) - from + 1 /\ Len(md) + Len(own) - next = Len(mo) - next
        /\ Len(area) - begin + 1 = Len(ao) - from + 1
    BY <1>1, <1>2, <1>8, <2>1
  <2> HIDE DEF from
  <2>4. SubSeq(mo, Len(mo) - from + 1, Len(mo) - next) = SubSeq(ao, Len(ao) - from + 1, Len(ao) - next)
    BY <1>1, <1>2, <1>3, <2>3, AlikeParts
  <2>5. ~ Dangling(md, begin)
    BY <1>1, <2>1 DEF Dangling
  <2> QED
    BY <2>2, <2>3, <2>4, <2>5
<1>9. begin > known /\ Len(md) <= known => Dangling(md, begin)
  BY <1>1, <1>2 DEF Dangling
<1> QED
  BY <1>2, <1>6, <1>7, <1>8, <1>9 DEF known, ao, kept, GoesOn

----------------------------------------------------------------------------
(* The main data of a stream, and what is known of it behind a frame.      *)

\* main_data_begin of frame k, and that of the frame behind it.
BeginOf(s, k) == s.head[s.real[k]].begin
NextOf(s, k)  == IF k < Len(s.real) THEN BeginOf(s, k + 1) ELSE 0

\* What the assumptions say of a stream's frames.
LEMMA HeadType ==
  ASSUME NEW s \in Streams
  PROVE  /\ Len(s.real) \in Nat /\ DOMAIN s.real = 1..Len(s.real)
         /\ \A k \in DOMAIN s.real :
              LET h == s.head[s.real[k]]
              IN  /\ s.real[k] \in Nat /\ h.size \in Nat /\ h.side \in Nat /\ h.side <= h.size
                  /\ h.begin \in Nat
<1>1. /\ s.real \in Seq(Nat \ {0})
      /\ \A k \in DOMAIN s.real : s.real[k] \in DOMAIN s.head
  BY RealAssumption
<1>2. Len(s.real) \in Nat /\ DOMAIN s.real = 1..Len(s.real)
  BY <1>1
<1>3. ASSUME NEW k \in DOMAIN s.real
      PROVE  s.head[s.real[k]] \in Headers /\ s.real[k] \in Nat
             /\ s.head[s.real[k]].side <= s.head[s.real[k]].size
  BY <1>1, <1>2, StreamsAssumption, EncoderAssumption
<1>4. \A h \in Headers : h.size \in Nat /\ h.side \in Nat /\ h.begin \in Nat
  BY SizesAssumption DEF Headers
<1> QED
  BY <1>2, <1>3, <1>4

\* A frame's space is a run of the stream.
LEMMA SpaceType ==
  ASSUME NEW s \in Streams, NEW k \in DOMAIN s.real
  PROVE  LET h == s.head[s.real[k]]
         IN  /\ SpaceOf(s, k) = Run(s.real[k] + h.side, h.size - h.side)
             /\ SpaceOf(s, k) \in Seq(Nat) /\ Len(SpaceOf(s, k)) = h.size - h.side
<1> DEFINE h == s.head[s.real[k]]
           from == s.real[k] + h.side
           n == h.size - h.side
<1>1. from \in Nat /\ n \in Nat
  BY HeadType, SMTT(30)
<1>2. SpaceOf(s, k) = Run(from, n)
  BY DEF SpaceOf, Run
<1> HIDE DEF from, n
<1>3. SpaceOf(s, k) \in Seq(Nat) /\ Len(SpaceOf(s, k)) = n
  BY <1>1, <1>2, RunSeq
<1> QED
  BY <1>2, <1>3 DEF from, n

\* The space of frames 1 to k, frame by frame.
LEMMA AreaIs ==
  ASSUME NEW s \in Streams
  PROVE  \A k \in 0..Len(s.real) :
           /\ AreaOf(s)[k] \in Seq(Nat)
           /\ AreaOf(s)[k] = IF k = 0 THEN << >> ELSE AreaOf(s)[k - 1] \o SpaceOf(s, k)
<1> DEFINE N == Len(s.real)
           Is(f) == f = [k \in 0..N |-> IF k = 0 THEN << >> ELSE f[k - 1] \o SpaceOf(s, k)]
           area == CHOOSE f : Is(f)
           F == [kx \in (0..N) \X Seq(Nat) |->
                   IF kx[1] = 0 THEN << >> ELSE kx[2] \o SpaceOf(s, kx[1])]
           none == << >>
<1>1. N \in Nat /\ \A k \in 0..N : k # 0 => SpaceOf(s, k) \in Seq(Nat)
  <2>1. N \in Nat /\ DOMAIN s.real = 1..N
    BY HeadType
  <2>2. \A k \in 0..N : k # 0 => k \in DOMAIN s.real
    BY <2>1
  <2> QED
    BY <2>1, <2>2, SpaceType
<1> HIDE DEF N
<1>2. none \in Seq(Nat)
  OBVIOUS
<1>3. F \in [(0..N) \X Seq(Nat) -> Seq(Nat)]
  <2>1. ASSUME NEW kx \in (0..N) \X Seq(Nat)
        PROVE  (IF kx[1] = 0 THEN << >> ELSE kx[2] \o SpaceOf(s, kx[1])) \in Seq(Nat)
    <3>1. kx[1] \in 0..N /\ kx[2] \in Seq(Nat)
      OBVIOUS
    <3>2. kx[1] # 0 => kx[2] \o SpaceOf(s, kx[1]) \in Seq(Nat)
      BY <3>1, <1>1, Joined
    <3> QED
      BY <3>2
  <2> QED
    BY <2>1
<1>4. \A k \in 0..N, x \in Seq(Nat) :
        F[<<k, x>>] = IF k = 0 THEN << >> ELSE x \o SpaceOf(s, k)
  OBVIOUS
<1> HIDE DEF F
<1>5. PICK f \in [0..N -> Seq(Nat)] : Iterates(f, F, none, 0, N)
  <2>1. 0 <= N
    BY <1>1
  <2> HIDE DEF none
  <2> QED
    BY <1>1, <1>2, <1>3, <2>1, Iteration
<1>6. ASSUME NEW k \in 0..N PROVE f[k] = IF k = 0 THEN << >> ELSE f[k - 1] \o SpaceOf(s, k)
  <2>1. Before(f, k, 0, none) \in Seq(Nat)
    BY <1>1, <1>2 DEF Before
  <2>2. f[k] = F[<<k, Before(f, k, 0, none)>>]
    BY <1>5 DEF Iterates
  <2>3. k # 0 => Before(f, k, 0, none) = f[k - 1]
    BY DEF Before
  <2> HIDE DEF none
  <2> QED
    BY <2>1, <2>2, <2>3, <1>4
<1>7. Is(f)
  BY <1>6
<1>8. Is(area)
  BY <1>7, Zenon
<1>9. AreaOf(s) = area
  BY DEF AreaOf, N
<1> HIDE DEF area
<1>10. \A k \in 0..N : area[k] = IF k = 0 THEN << >> ELSE area[k - 1] \o SpaceOf(s, k)
  BY <1>8
<1> DEFINE Odd == {k \in 0..N : area[k] \notin Seq(Nat)}
<1>11. Odd = {}
  <2> SUFFICES ASSUME Odd # {} PROVE FALSE
    OBVIOUS
  <2>1. Odd \in SUBSET Nat
    BY <1>1
  <2> HIDE DEF Odd
  <2>2. PICK k \in Odd : \A m \in Odd : k <= m
    BY <2>1, LeastOf
  <2>3. k \in 0..N /\ area[k] \notin Seq(Nat)
    BY DEF Odd
  <2>4. k # 0 /\ area[k] = area[k - 1] \o SpaceOf(s, k)
    BY <2>3, <1>2, <1>10
  <2>5. k - 1 \in 0..N /\ ~ (k <= k - 1)
    BY <2>3, <2>4, <1>1
  <2>6. area[k - 1] \in Seq(Nat)
    BY <2>2, <2>5 DEF Odd
  <2>7. SpaceOf(s, k) \in Seq(Nat)
    BY <2>3, <2>4, <1>1
  <2>8. area[k - 1] \o SpaceOf(s, k) \in Seq(Nat)
    BY <2>6, <2>7, Joined
  <2> QED
    BY <2>3, <2>4, <2>8
<1> QED
  BY <1>9, <1>10, <1>11 DEF N

\* Frames j to k of stream s, and nothing before them, are known.
Lost(s, j)     == Len(AreaOf(s)[j - 1])
Known(s, j, k) == Len(AreaOf(s)[k]) - Lost(s, j)

\* The reservoir ends with the main-data bytes up to frame k, as far as they
\* are known, and reaches back as far as the next frame asks for.
Held(s, j, k, md) ==
  /\ Lost(s, j) <= Len(AreaOf(s)[k])
  /\ EndAlike(md, AreaOf(s)[k], Known(s, j, k))
  /\ Len(md) >= Least(NextOf(s, k), Known(s, j, k))

\* Nothing else is in it.
Tight(s, j, k, md) == Len(md) <= Known(s, j, k)

\* What III_decode is given for frame k.
Reaches(s, j, k) == Len(AreaOf(s)[k - 1]) - BeginOf(s, k) >= Lost(s, j)
Given(s, j, k, got) ==
  Reaches(s, j, k) =>
    got = SubSeq(AreaOf(s)[k], Len(AreaOf(s)[k - 1]) - BeginOf(s, k) + 1,
                 Len(AreaOf(s)[k]) - NextOf(s, k))
Refused(s, j, k, got) == ~ Reaches(s, j, k) => got = << >>

\* The area up to a frame is the one before it and the frame's space.
LEMMA AreaNext ==
  ASSUME NEW s \in Streams, NEW k \in DOMAIN s.real
  PROVE  /\ AreaOf(s)[k - 1] \in Seq(Nat) /\ AreaOf(s)[k] \in Seq(Nat)
         /\ AreaOf(s)[k] = AreaOf(s)[k - 1] \o SpaceOf(s, k)
         /\ Len(AreaOf(s)[k - 1]) <= Len(AreaOf(s)[k])
<1>1. k \in 0..Len(s.real) /\ k - 1 \in 0..Len(s.real) /\ k # 0
  BY HeadType
<1>2. /\ AreaOf(s)[k - 1] \in Seq(Nat)
      /\ AreaOf(s)[k] = AreaOf(s)[k - 1] \o SpaceOf(s, k)
  BY <1>1, AreaIs
<1>3. SpaceOf(s, k) \in Seq(Nat)
  BY SpaceType
<1>4. AreaOf(s)[k] \in Seq(Nat) /\ Len(AreaOf(s)[k]) = Len(AreaOf(s)[k - 1]) + Len(SpaceOf(s, k))
      /\ Len(SpaceOf(s, k)) \in Nat /\ Len(AreaOf(s)[k - 1]) \in Nat
  BY <1>2, <1>3, CatAt
<1> QED
  BY <1>2, <1>4

\* The encoder's choice: a frame reaches back no further than the one before.
LEMMA NextReaches ==
  ASSUME NEW s \in Streams, NEW k \in DOMAIN s.real
  PROVE  /\ BeginOf(s, k) \in Nat /\ NextOf(s, k) \in Nat
         /\ NextOf(s, k) <= BeginOf(s, k) + Len(SpaceOf(s, k))
<1> DEFINE h == s.head[s.real[k]]
<1>1. /\ h.begin \in Nat /\ Len(SpaceOf(s, k)) = h.size - h.side /\ h.size - h.side \in Nat
      /\ k \in 1..Len(s.real) /\ Len(s.real) \in Nat /\ h.size \in Nat /\ h.side \in Nat
  BY HeadType, SpaceType
<1>2. CASE k < Len(s.real)
  <2>1. k + 1 \in DOMAIN s.real /\ k \in 1..(Len(s.real) - 1)
    BY <1>1, <1>2, HeadType
  <2>2. BeginOf(s, k + 1) \in Nat /\ BeginOf(s, k + 1) <= h.begin + h.size - h.side
    BY <2>1, HeadType, EncoderAssumption DEF BeginOf
  <2> HIDE DEF h
  <2>3. BeginOf(s, k) = h.begin /\ NextOf(s, k) = BeginOf(s, k + 1)
    BY <1>2 DEF BeginOf, NextOf, h
  <2> QED
    BY <1>1, <2>2, <2>3
<1>3. CASE ~ (k < Len(s.real))
  <2>1. BeginOf(s, k) = h.begin /\ NextOf(s, k) = 0
    BY <1>3 DEF BeginOf, NextOf
  <2> HIDE DEF h
  <2> QED
    BY <1>1, <2>1
<1> QED
  BY <1>2, <1>3

\* A frame more.
LEMMA HoldsNext ==
  ASSUME NEW s \in Streams, NEW j \in DOMAIN s.real, NEW m \in DOMAIN s.real,
         NEW md \in Seq(Nat), Held(s, j, m - 1, md),
         NEW own, own = SpaceOf(s, m), NEW begin, begin = BeginOf(s, m),
         NEW next, next = NextOf(s, m),
         NEW got, got = IF Dangling(md, begin) THEN << >> ELSE MainData(md, own, begin, next)
  PROVE  /\ Held(s, j, m, Kept(md, own, begin, next))
         /\ Given(s, j, m, got)
         /\ Tight(s, j, m - 1, md) => /\ Tight(s, j, m, Kept(md, own, begin, next))
                                      /\ Refused(s, j, m, got)
<1>0. PICK area, lost : area = AreaOf(s)[m - 1] /\ lost = Lost(s, j)
  OBVIOUS
<1>1. /\ own \in Seq(Nat) /\ begin \in Nat /\ next \in Nat /\ next <= begin + Len(own)
      /\ area \in Seq(Nat) /\ AreaOf(s)[m] = area \o own
      /\ AreaOf(s)[m] \in Seq(Nat) /\ Len(area) <= Len(AreaOf(s)[m])
  BY <1>0, NextReaches, SpaceType, AreaNext
<1>2. lost \in 0..Len(area) /\ lost \in Nat
  <2>1. Len(AreaOf(s)[j - 1]) \in Nat
    BY AreaNext
  <2>2. lost <= Len(area)
    BY <1>0 DEF Held
  <2>3. Len(area) \in Nat /\ lost \in Nat
    BY <1>0, <1>1, <2>1 DEF Lost
  <2> QED
    BY <2>2, <2>3
<1>3. NextOf(s, m - 1) = begin
  <2>1. m - 1 < Len(s.real) /\ (m - 1) + 1 = m
    BY HeadType
  <2> QED
    BY <2>1 DEF NextOf
<1>4. EndAlike(md, area, Len(area) - lost) /\ Len(md) >= Least(begin, Len(area) - lost)
  BY <1>0, <1>3 DEF Held, Known
<1> DEFINE ao == area \o own
           kept == Kept(md, own, begin, next)
<1>5. ao = AreaOf(s)[m] /\ Len(ao) \in Nat /\ Len(area) \in Nat /\ Len(area) <= Len(ao)
  BY <1>1
<1>6. Known(s, j, m) = Len(ao) - lost /\ Known(s, j, m - 1) = Len(area) - lost
  BY <1>0, <1>1 DEF Known
<1>7. /\ EndAlike(kept, ao, Len(ao) - lost) /\ Len(kept) >= Least(next, Len(ao) - lost)
      /\ Len(md) <= Len(area) - lost => Len(kept) <= Len(ao) - lost
      /\ begin <= Len(area) - lost =>
           /\ ~ Dangling(md, begin)
           /\ MainData(md, own, begin, next) = SubSeq(ao, Len(area) - begin + 1, Len(ao) - next)
      /\ begin > Len(area) - lost /\ Len(md) <= Len(area) - lost => Dangling(md, begin)
  <2>1. GoesOn(md, own, area, lost, begin, next)
    BY <1>1, <1>2, <1>4, ReservoirStep
  <2> QED
    BY <2>1 DEF GoesOn
<1> HIDE DEF kept, ao
<1>8. Reaches(s, j, m) <=> begin <= Len(area) - lost
  <2>1. Reaches(s, j, m) <=> Len(area) - begin >= lost
    BY <1>0 DEF Reaches
  <2> QED
    BY <2>1, <1>1, <1>2, <1>5
<1>9. lost <= Len(ao)
  BY <1>2, <1>5
<1>10. Held(s, j, m, kept)
  BY <1>0, <1>5, <1>6, <1>7, <1>9 DEF Held
<1>11. Given(s, j, m, got)
  BY <1>0, <1>5, <1>7, <1>8 DEF Given
<1>12. ASSUME Tight(s, j, m - 1, md) PROVE Tight(s, j, m, kept) /\ Refused(s, j, m, got)
  <2>1. Len(md) <= Len(area) - lost
    BY <1>6, <1>12 DEF Tight
  <2>2. ~ Reaches(s, j, m) => begin > Len(area) - lost
    BY <1>1, <1>2, <1>5, <1>8
  <2> QED
    BY <1>6, <1>7, <2>1, <2>2 DEF Tight, Refused
<1> QED
  BY <1>10, <1>11, <1>12 DEF kept

\* When nothing is known of the stream.
LEMMA HeldNothing ==
  ASSUME NEW s \in Streams, NEW m \in DOMAIN s.real, NEW md \in Seq(Nat)
  PROVE  Held(s, m, m - 1, md) /\ (Len(md) = 0 => Tight(s, m, m - 1, md))
<1> DEFINE area == AreaOf(s)[m - 1]
           x == NextOf(s, m - 1)
<1>1. Len(area) \in Nat /\ Len(md) \in Nat
  BY AreaNext
<1>2. Lost(s, m) = Len(area) /\ Known(s, m, m - 1) = Len(area) - Len(area)
  BY DEF Lost, Known
<1>3. x \in Nat
  <2>1. m - 1 < Len(s.real) /\ (m - 1) + 1 = m
    BY HeadType
  <2> QED
    BY <2>1, NextReaches DEF NextOf
<1> HIDE DEF area, x
<1>4. Known(s, m, m - 1) = 0
  BY <1>1, <1>2
<1>5. EndAlike(md, area, 0)
  BY DEF EndAlike
<1>6. Len(md) >= Least(x, 0)
  BY <1>1, <1>3 DEF Least
<1> QED
  BY <1>1, <1>2, <1>4, <1>5, <1>6 DEF Held, Tight, area, x

----------------------------------------------------------------------------
(* The reservoir holds the bytes of the stream.                            *)

\* Frame j is the first one of the stream that has been decoded.
FirstFound(j) == Real[j] \in Decoded /\ \A i \in 1..(j - 1) : Real[i] \notin Decoded

\* Behind frame k, with j the first one found, the reservoir ends with what is
\* known of the main data, and III_decode was given the frame's part of it.
\* Nothing else is in the reservoir unless a chance frame came first.
ReservoirInv ==
  /\ frames = << >> => Len(main_data) = 0
  /\ \A j, k \in DOMAIN Real :
       FirstFound(j) /\ frames # << >> /\ frames[Len(frames)] = Real[k] =>
         /\ Held(stream, j, k, main_data) /\ Given(stream, j, k, handed)
         /\ frames[1] = Real[j] => /\ Tight(stream, j, k, main_data)
                                   /\ Refused(stream, j, k, handed)

\* A frame of the stream that is whole in the buffer is read as it was written.
LEMMA ReadAsWritten ==
  ASSUME InputInv, NEW c \in Offsets, FrameAt(c),
         NEW k \in DOMAIN Real, mpg_buf[c + 1] = Real[k]
  PROVE  /\ Header(c) = HeadOf(k) /\ Header(c).size >= Header(c).side
         /\ Header(c).begin = BeginOf(stream, k)
         /\ Own(c) = SpaceOf(stream, k)
         /\ PeekBegin(c) = NextOf(stream, k)
<1> DEFINE h == HeadOf(k)
           size == h.size
           side == h.side
<1>1. Header(c) = h /\ stream \in Streams /\ k \in DOMAIN stream.real
      /\ h = stream.head[stream.real[k]]
  BY DEF Header, HeadOf, Real, InputInv, Types
<1>2. /\ Real[k] \in Nat /\ size \in Nat \ {0} /\ side \in Nat /\ side <= size
      /\ Header(c).begin = BeginOf(stream, k)
  BY <1>1, HeadType, StreamFacts DEF BeginOf, Real
<1>3. /\ c \in Nat /\ End \in Nat /\ c + size + MAD_BUFFER_GUARD <= End
      /\ mpg_buf \in Seq(Nat) /\ End = Len(mpg_buf) /\ MAD_BUFFER_GUARD \in Nat \ {0}
  <2>1. c \in Nat /\ End \in Nat /\ MAD_BUFFER_GUARD \in Nat \ {0}
    BY CandidateInBuffer, ByteAt, SizesAssumption DEF FrameAt
  <2>2. ~ (size + MAD_BUFFER_GUARD > End - c)
    BY <1>1 DEF FrameAt, TooLong
  <2>3. mpg_buf \in Seq(Nat) /\ End = Len(mpg_buf)
    BY DEF InputInv, Types, End
  <2> HIDE DEF size
  <2> QED
    BY <1>2, <2>1, <2>2, <2>3
<1>4. Own(c) = SubSeq(mpg_buf, c + side + 1, c + size)
      /\ PeekBegin(c) = IF SyncAt(c + size) THEN Header(c + size).begin ELSE 0
  BY <1>1 DEF Own, PeekBegin
<1> DEFINE base == taken - End
<1>5. base \in Nat /\ Real[k] = base + c + 1
      /\ \A n \in Nat : n < End => mpg_buf[n + 1] = base + n + 1
  <2>1. \A n \in Nat : n < End => mpg_buf[n + 1] = Pos(n) /\ Pos(n) = base + n + 1
    BY ByteAt, PosOf
  <2>2. base \in Nat /\ c < End
    BY <1>2, <1>3, ByteAt
  <2> QED
    BY <1>3, <2>1, <2>2
<1>6. SpaceOf(stream, k) = Run(Real[k] + side, size - side)
  BY <1>1, SpaceType DEF Real
<1> HIDE DEF h, size, side, base
<1>7. Own(c) = SpaceOf(stream, k)
  <2> DEFINE a == c + side
             n == size - side
             own == SubSeq(mpg_buf, a + 1, a + n)
  <2>1. a \in Nat /\ n \in Nat /\ a + n <= Len(mpg_buf) /\ a + n = c + size
    BY <1>2, <1>3
  <2> HIDE DEF n, a
  <2>2. own \in Seq(Nat) /\ Len(own) = n /\ \A i \in 1..n : own[i] = mpg_buf[a + i]
    BY <1>3, <2>1, PartAt
  <2>3. ASSUME NEW i \in 1..n PROVE own[i] = Real[k] + side + i - 1
    <3>1. a + i - 1 \in Nat /\ a + i - 1 < End /\ (a + i - 1) + 1 = a + i
      BY <1>3, <2>1
    <3>2. mpg_buf[a + i] = base + (a + i - 1) + 1
      BY <1>5, <3>1
    <3>3. base + (a + i - 1) + 1 = Real[k] + side + i - 1
      BY <1>2, <1>3, <1>5, <2>1 DEF a
    <3> QED
      BY <2>2, <3>2, <3>3
  <2>4. Own(c) = own
    BY <1>4, <2>1 DEF a
  <2> HIDE DEF own
  <2>5. own = Run(Real[k] + side, Len(own))
    <3>1. Real[k] + side \in Nat
      BY <1>2
    <3> QED
      BY <2>2, <2>3, <3>1, IsRun
  <2> QED
    BY <1>6, <2>2, <2>4, <2>5 DEF n
<1>8. PeekBegin(c) = NextOf(stream, k)
  <2> DEFINE n == c + size
  <2>1. n \in Nat /\ n < End
    BY <1>2, <1>3
  <2>2. mpg_buf[n + 1] = Real[k] + size
    <3>1. mpg_buf[n + 1] = base + n + 1
      BY <1>5, <2>1
    <3> QED
      BY <1>2, <1>3, <1>5, <3>1
  <2>3. CASE k < Len(stream.real)
    <3>1. k \in 1..(Len(Real) - 1) /\ k + 1 \in DOMAIN Real
      BY <2>3, StreamFacts DEF Real
    <3>2. mpg_buf[n + 1] = Real[k + 1] /\ Real[k + 1] \in DOMAIN stream.head
      BY <2>2, <3>1, StreamFacts DEF size, h
    <3>3. SyncAt(n) /\ Header(n) = stream.head[stream.real[k + 1]]
      BY <2>1, <3>2 DEF SyncAt, Header, Real
    <3> QED
      BY <1>4, <2>3, <3>3 DEF NextOf, BeginOf
  <2>4. CASE ~ (k < Len(stream.real))
    <3> SUFFICES ASSUME SyncAt(n) PROVE FALSE
      BY <1>4, <2>4 DEF NextOf
    <3>1. Real[k] + size \in DOMAIN stream.head
      BY <2>2 DEF SyncAt
    <3>2. PICK q \in DOMAIN Real : Real[k] + size <= Real[q]
      BY <3>1, StreamFacts
    <3>3. /\ q \in Nat /\ k \in Nat /\ q <= k /\ Real[q] \in Nat
          /\ q < k => Real[q] < Real[k]
      BY <2>4, StreamFacts DEF Real
    <3>4. Real[q] <= Real[k]
      <4>1. CASE q < k
        BY <1>2, <3>3, <4>1
      <4>2. CASE q = k
        BY <1>2, <4>2
      <4> QED
        BY <3>3, <4>1, <4>2
    <3> QED
      BY <1>2, <3>2, <3>3, <3>4
  <2> QED
    BY <2>3, <2>4
<1> QED
  BY <1>1, <1>2, <1>7, <1>8 DEF h, size, side

\* No two frames start at the same position.
LEMMA RealOnce ==
  ASSUME InputInv, NEW i \in DOMAIN Real, NEW j \in DOMAIN Real, Real[i] = Real[j]
  PROVE  i = j
<1>1. /\ i \in Nat /\ j \in Nat /\ Real[i] \in Nat /\ Real[j] \in Nat
      /\ i < j => Real[i] < Real[j]
      /\ j < i => Real[j] < Real[i]
  BY StreamFacts
<1> QED
  BY <1>1

\* Frame k is decoded: what was known of the frames before it.
LEMMA KnownBefore ==
  ASSUME InputInv, OrderInv, InSequence, ReservoirInv, NEW p, NEW k \in DOMAIN Real, p = Real[k],
         \A m \in DOMAIN Real : frames # << >> /\ frames[Len(frames)] = Real[m] =>
           m < Len(Real) /\ p = Real[m + 1],
         NEW j \in DOMAIN Real, Real[j] \in Decoded \cup {p},
         \A i \in 1..(j - 1) : Real[i] \notin Decoded \cup {p}
  PROVE  /\ Held(stream, j, k - 1, main_data)
         /\ (IF frames = << >> THEN p ELSE frames[1]) = Real[j] => Tight(stream, j, k - 1, main_data)
<1> DEFINE l == Len(frames)
<1>1. /\ l \in Nat /\ DOMAIN frames = 1..l /\ (frames = << >> <=> l = 0)
      /\ DOMAIN Real = 1..Len(Real) /\ Len(Real) \in Nat
  BY StreamFacts DEF OrderInv
<1>2. main_data \in Seq(Nat) /\ stream \in Streams /\ Real = stream.real
  BY DEF InputInv, Types, Real
<1>3. CASE frames # << >> /\ \E m \in DOMAIN Real : frames[l] = Real[m]
  <2>1. PICK m \in DOMAIN Real : frames[l] = Real[m]
    BY <1>3
  <2>2. m + 1 \in DOMAIN Real /\ p = Real[m + 1] /\ m \in 1..Len(Real)
    BY <1>1, <1>3, <2>1
  <2>3. k = m + 1
    BY <2>2, RealOnce
  <2>4. Real[m] \in Decoded
    BY <1>1, <1>3, <2>1 DEF Decoded
  <2>5. j # k
    BY <1>1, <2>2, <2>3, <2>4
  <2>6. Real[j] \in Decoded
    BY <2>5, RealOnce
  <2>7. FirstFound(j)
    BY <2>6 DEF FirstFound
  <2>8. m = k - 1
    BY <2>2, <2>3
  <2> QED
    BY <1>3, <2>1, <2>7, <2>8 DEF ReservoirInv
<1>4. CASE ~ (frames # << >> /\ \E m \in DOMAIN Real : frames[l] = Real[m])
  <2>1. ASSUME NEW i \in DOMAIN Real PROVE Real[i] \notin Decoded
    <3> SUFFICES ASSUME Real[i] \in Decoded PROVE FALSE
      OBVIOUS
    <3>1. PICK n \in 1..l : frames[n] = Real[i]
      BY <1>1 DEF Decoded
    <3>2. n <= l /\ l \in 1..l /\ l # 0
      BY <1>1
    <3>3. i + l - n \in DOMAIN Real /\ frames[l] = Real[i + l - n]
      BY <3>1, <3>2 DEF InSequence
    <3> QED
      BY <1>1, <1>4, <3>2, <3>3
  <2>2. j = k
    <3>1. Real[j] = p
      BY <2>1
    <3> QED
      BY <3>1, RealOnce
  <2>3. Held(stream, k, k - 1, main_data)
        /\ (Len(main_data) = 0 => Tight(stream, k, k - 1, main_data))
    BY <1>2, HeldNothing
  <2>4. frames # << >> => frames[1] # Real[j]
    <3>1. frames # << >> => frames[1] \in Decoded
      BY <1>1 DEF Decoded
    <3> QED
      BY <2>1, <3>1
  <2>5. frames = << >> => Len(main_data) = 0
    BY DEF ReservoirInv
  <2> QED
    BY <2>2, <2>3, <2>4, <2>5
<1> QED
  BY <1>3, <1>4

\* A frame that is decoded keeps the invariant.
LEMMA ReservoirFrame ==
  ASSUME InputInv, OrderInv, InSequence, ReservoirInv, BadFrameLen \/ LayerIII
  PROVE  ReservoirInv'
<1>1. PICK c \in Offsets :
        /\ FrameAt(c) /\ Advance(c)
        /\ \/ Header(c).size < Header(c).side
           \/ /\ main_data' = Kept(main_data, Own(c), Header(c).begin, PeekBegin(c))
              /\ handed' = IF Dangling(main_data, Header(c).begin) THEN << >>
                           ELSE MainData(main_data, Own(c), Header(c).begin, PeekBegin(c))
  BY DEF BadFrameLen, LayerIII
<1> DEFINE p == mpg_buf[c + 1]
<1>2. /\ pc = "decode" /\ Candidate(c) /\ stream' = stream /\ frames' = Append(frames, p)
  BY <1>1, Zenon DEF FrameAt, Advance
<1>3. p \in Nat
  BY <1>2, CandidateInBuffer, ByteAt, PosOf
<1>4. \A m \in DOMAIN Real : frames # << >> /\ frames[Len(frames)] = Real[m] =>
        m < Len(Real) /\ p = Real[m + 1]
  BY <1>2, CandidateBehind DEF OrderInv, LastBehind
<1>5. ASSUME NEW k \in DOMAIN Real, p = Real[k]
      PROVE  /\ Own(c) = SpaceOf(stream, k) /\ Header(c).begin = BeginOf(stream, k)
             /\ PeekBegin(c) = NextOf(stream, k) /\ Header(c).size >= Header(c).side
  BY <1>1, <1>5, ReadAsWritten
<1>6. /\ main_data \in Seq(Nat) /\ stream \in Streams /\ Real = stream.real
      /\ Real' = Real
  BY <1>2 DEF InputInv, Types, Real
<1>7. ASSUME NEW k \in DOMAIN Real, p = Real[k]
      PROVE  /\ main_data' = Kept(main_data, Own(c), Header(c).begin, PeekBegin(c))
             /\ handed' = IF Dangling(main_data, Header(c).begin) THEN << >>
                          ELSE MainData(main_data, Own(c), Header(c).begin, PeekBegin(c))
  <2>1. Header(c).size \in Nat /\ Header(c).side \in Nat
    BY <1>1, FrameInBuffer, SizesAssumption
  <2>2. ~ (Header(c).size < Header(c).side)
    BY <1>5, <1>7, <2>1
  <2> QED
    BY <1>1, <2>2
<1> HIDE DEF p
<1>8. /\ Len(frames') = Len(frames) + 1 /\ frames'[Len(frames')] = p /\ Len(frames) \in Nat
      /\ \A i \in 1..Len(frames) : frames'[i] = frames[i]
      /\ frames # << >> <=> Len(frames) > 0
      /\ DOMAIN frames' = 1..(Len(frames) + 1) /\ DOMAIN frames = 1..Len(frames)
      /\ frames' # << >>
  BY <1>2, <1>3 DEF OrderInv
<1>9. frames'[1] = IF frames = << >> THEN p ELSE frames[1]
  BY <1>8
<1>10. Decoded' = Decoded \cup {p}
  <2>1. \A i \in 1..(Len(frames) + 1) : frames'[i] = IF i <= Len(frames) THEN frames[i] ELSE p
    BY <1>8
  <2> QED
    BY <1>8, <2>1 DEF Decoded
<1>11. ASSUME NEW j \in DOMAIN Real, NEW k \in DOMAIN Real, FirstFound(j)', p = Real[k]
       PROVE  /\ Held(stream, j, k, main_data') /\ Given(stream, j, k, handed')
              /\ frames'[1] = Real[j] => /\ Tight(stream, j, k, main_data')
                                         /\ Refused(stream, j, k, handed')
  <2>1. Real[j] \in Decoded \cup {p} /\ \A i \in 1..(j - 1) : Real[i] \notin Decoded \cup {p}
    BY <1>6, <1>10, <1>11 DEF FirstFound
  <2>2. /\ Held(stream, j, k - 1, main_data)
        /\ frames'[1] = Real[j] => Tight(stream, j, k - 1, main_data)
    BY <1>4, <1>9, <1>11, <2>1, KnownBefore
  <2>3. /\ Own(c) = SpaceOf(stream, k) /\ Header(c).begin = BeginOf(stream, k)
        /\ PeekBegin(c) = NextOf(stream, k)
    BY <1>5, <1>11
  <2>4. /\ main_data' = Kept(main_data, Own(c), Header(c).begin, PeekBegin(c))
        /\ handed' = IF Dangling(main_data, Header(c).begin) THEN << >>
                     ELSE MainData(main_data, Own(c), Header(c).begin, PeekBegin(c))
    BY <1>7, <1>11
  <2>5. PICK md, own, begin, next, got, new :
          /\ md = main_data /\ own = Own(c) /\ begin = Header(c).begin /\ next = PeekBegin(c)
          /\ got = handed' /\ new = main_data'
    OBVIOUS
  <2>6. PICK s : s = stream
    OBVIOUS
  <2>7. /\ s \in Streams /\ j \in DOMAIN s.real /\ k \in DOMAIN s.real /\ md \in Seq(Nat)
        /\ Held(s, j, k - 1, md)
        /\ own = SpaceOf(s, k) /\ begin = BeginOf(s, k) /\ next = NextOf(s, k)
        /\ got = IF Dangling(md, begin) THEN << >> ELSE MainData(md, own, begin, next)
        /\ new = Kept(md, own, begin, next)
    BY <1>6, <2>2, <2>3, <2>4, <2>5, <2>6
  <2>8. /\ Held(s, j, k, Kept(md, own, begin, next))
        /\ Given(s, j, k, got)
        /\ Tight(s, j, k - 1, md) => /\ Tight(s, j, k, Kept(md, own, begin, next))
                                     /\ Refused(s, j, k, got)
    BY <2>7, HoldsNext
  <2> QED
    BY <2>2, <2>5, <2>6, <2>7, <2>8
<1> QED
  BY <1>2, <1>6, <1>8, <1>11 DEF ReservoirInv

\* So does every other step.
LEMMA ReservoirNext ==
  ASSUME InputInv, OrderInv, InSequence, ReservoirInv, [Next]_vars PROVE ReservoirInv'
<1>1. CASE BadFrameLen \/ LayerIII
  BY <1>1, ReservoirFrame
<1>2. CASE decode_input \/ NoHeader \/ FrameNotWhole \/ LostSync \/ BadHeader \/ UNCHANGED vars
  <2>1. UNCHANGED <<stream, main_data, frames, handed>>
    BY <1>2, Zenon DEF decode_input, NoHeader, FrameNotWhole, LostSync, BadHeader, OutOfData,
                       GoOn, vars
  <2>2. Real' = Real /\ Decoded' = Decoded
    BY <2>1 DEF Real, Decoded
  <2>3. \A j : FirstFound(j)' <=> FirstFound(j)
    BY <2>2 DEF FirstFound
  <2> QED
    BY <2>1, <2>2, <2>3 DEF ReservoirInv
<1> QED
  BY <1>1, <1>2 DEF Next

\* The reservoir holds the end of the main data up to the last frame, as far
\* as it is known.
THEOREM ReservoirInvariance == Spec => []ReservoirInv
<1>1. Init => ReservoirInv
  <2> SUFFICES ASSUME Init PROVE ReservoirInv
    OBVIOUS
  <2>1. frames = << >> /\ main_data = << >>
    BY DEF Init
  <2> QED
    BY <2>1 DEF ReservoirInv
<1>2. InputInv /\ OrderInv /\ WaitInv /\ ReservoirInv /\ [Next]_vars => ReservoirInv'
  BY ReservoirNext DEF WaitInv
<1> QED
  BY <1>1, <1>2, WaitInvariance, PTL DEF Spec

\* Each frame behind one that was decoded is given the bytes that the encoder
\* put there for it, wherever decode_input cut the stream.
THEOREM MainDataArrives == Spec => []MainDataRight
<1>1. InputInv /\ OrderInv /\ ReservoirInv => MainDataRight
  <2> SUFFICES ASSUME InputInv, OrderInv, ReservoirInv, NEW k \in DOMAIN Real, frames # << >>,
                      frames[Len(frames)] = Real[k]
               PROVE  LET j == CHOOSE j \in 1..k : /\ Real[j] \in Decoded
                                                   /\ \A i \in 1..(j - 1) : Real[i] \notin Decoded
                      IN  IF DataStart(k) >= Len(Area[j - 1])
                          THEN handed = SubSeq(Area[k], DataStart(k) + 1, DataEnd(k))
                          ELSE frames[1] = Real[j] => handed = << >>
    BY DEF MainDataRight
  <2> DEFINE Found == {i \in 1..k : Real[i] \in Decoded}
  <2>1. /\ k \in 1..Len(Real) /\ DOMAIN Real = 1..Len(Real) /\ Len(Real) \in Nat
        /\ Len(frames) \in 1..Len(frames) /\ DOMAIN frames = 1..Len(frames)
    BY StreamFacts DEF OrderInv
  <2>2. Found # {} /\ Found \in SUBSET Nat
    BY <2>1 DEF Decoded
  <2>3. \E j \in 1..k : Real[j] \in Decoded /\ \A i \in 1..(j - 1) : Real[i] \notin Decoded
    <3> HIDE DEF Found
    <3>1. PICK j \in Found : \A m \in Found : j <= m
      BY <2>2, LeastOf
    <3>2. j \in 1..k /\ Real[j] \in Decoded
      BY DEF Found
    <3>3. ASSUME NEW i \in 1..(j - 1) PROVE Real[i] \notin Decoded
      <4>1. i \in 1..k /\ ~ (j <= i)
        BY <2>1, <3>2
      <4> QED
        BY <3>1, <4>1 DEF Found
    <3> QED
      BY <3>2, <3>3
  <2> DEFINE j == CHOOSE j \in 1..k : /\ Real[j] \in Decoded
                                      /\ \A i \in 1..(j - 1) : Real[i] \notin Decoded
  <2>4. j \in 1..k /\ FirstFound(j)
    BY <2>3, Zenon DEF FirstFound
  <2> HIDE DEF j
  <2>5. j \in DOMAIN Real
    BY <2>1, <2>4
  <2>6. /\ Given(stream, j, k, handed)
        /\ frames[1] = Real[j] => Refused(stream, j, k, handed)
    BY <2>4, <2>5 DEF ReservoirInv
  <2>7. /\ DataStart(k) = Len(AreaOf(stream)[k - 1]) - BeginOf(stream, k)
        /\ DataStart(k) >= Len(Area[j - 1]) <=> Reaches(stream, j, k)
    BY DEF DataStart, Area, HeadOf, Real, BeginOf, Reaches, Lost
  <2>8. DataEnd(k) = Len(AreaOf(stream)[k]) - NextOf(stream, k)
    <3>1. CASE k < Len(Real)
      <4>1. DataEnd(k) = Len(AreaOf(stream)[(k + 1) - 1]) - BeginOf(stream, k + 1)
        BY <3>1 DEF DataEnd, DataStart, Area, HeadOf, Real, BeginOf
      <4>2. (k + 1) - 1 = k
        BY <2>1
      <4> QED
        BY <3>1, <4>1, <4>2 DEF NextOf, Real
    <3>2. CASE ~ (k < Len(Real))
      <4>1. DataEnd(k) = Len(AreaOf(stream)[k]) /\ NextOf(stream, k) = 0
        BY <3>2 DEF DataEnd, Area, NextOf, Real
      <4>2. Len(AreaOf(stream)[k]) \in Nat
        BY AreaNext DEF InputInv, Types, Real
      <4> QED
        BY <4>1, <4>2
    <3> QED
      BY <3>1, <3>2
  <2>9. IF DataStart(k) >= Len(Area[j - 1])
        THEN handed = SubSeq(Area[k], DataStart(k) + 1, DataEnd(k))
        ELSE frames[1] = Real[j] => handed = << >>
    BY <2>6, <2>7, <2>8 DEF Given, Refused, Area
  <2> QED
    BY <2>9 DEF j
<1> QED
  BY <1>1, WaitInvariance, ReservoirInvariance, PTL
=============================================================================
