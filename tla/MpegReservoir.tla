--------------------------- MODULE MpegReservoir ---------------------------
(***************************************************************************)
(* The bit reservoir of mad_layer_III (layer3.c).  The main data of a      *)
(* Layer III frame starts main_data_begin bytes before the frame's own     *)
(* space, in bytes that earlier frames left unused, and ends where the     *)
(* main data of the next frame starts, which is read from the header       *)
(* behind the frame.  stream->main_data keeps the bytes that are still to  *)
(* be used.                                                                *)
(*                                                                         *)
(* md is the reservoir (stream->main_data[0 .. md_len)), own the bytes of  *)
(* the frame behind its side information (frame_space of them), begin its  *)
(* main_data_begin, and next the one of the frame behind it.               *)
(***************************************************************************)
EXTENDS Integers, Sequences

Least(a, b) == IF a > b THEN b ELSE a
LastOf(s, n) == SubSeq(s, Len(s) - n + 1, Len(s))

\* next_md_begin
NextBegin(space, begin, next) == IF next > begin + space THEN 0 ELSE next

MdLen(space, begin, next) == begin + space - NextBegin(space, begin, next)

\* MAD_ERROR_BADDATAPTR: the data starts before what was kept
Dangling(md, begin) == begin > Len(md)

FrameUsed(md, own, begin, next) ==
  LET md_len == MdLen(Len(own), begin, next)
  IN  IF ~Dangling(md, begin) /\ md_len > begin THEN md_len - begin ELSE 0

\* A frame that starts with its own bytes drops what is left of the others.
Stored(md, begin) == IF begin = 0 THEN << >> ELSE md

\* The reservoir with the frame's part of its main data behind it.
Filled(md, own, begin, next) ==
  Stored(md, begin) \o SubSeq(own, 1, FrameUsed(md, own, begin, next))

\* What III_decode is given.
MainData(md, own, begin, next) ==
  LET first == Len(Stored(md, begin)) - begin
  IN  SubSeq(Filled(md, own, begin, next), first + 1, first + MdLen(Len(own), begin, next))

\* Mutant: what was kept of earlier frames is kept whole.
KeptBefore_All(filled, begin, md_len, room) == filled

\* The end of the reservoir that the next frame needs besides this one.
KeptBefore(filled, begin, md_len, room) ==
  LET extra == Least(begin - md_len, room)
  IN  IF md_len >= begin THEN << >>
      ELSE IF extra >= Len(filled) THEN filled ELSE LastOf(filled, extra)

\* Mutant: a frame that another one needs whole replaces the reservoir.
Kept_Own(md, own, begin, next) ==
  LET wanted == NextBegin(Len(own), begin, next)
      free   == Len(own) - FrameUsed(md, own, begin, next)
  IN  LastOf(own, Least(free, wanted))

\* The reservoir left for the next frame.
Kept(md, own, begin, next) ==
  LET wanted == NextBegin(Len(own), begin, next)
      free   == Len(own) - FrameUsed(md, own, begin, next)
  IN  IF free >= wanted
      THEN LastOf(own, wanted)
      ELSE KeptBefore(Filled(md, own, begin, next), begin,
                      MdLen(Len(own), begin, next), wanted - free)
           \o LastOf(own, free)
=============================================================================
