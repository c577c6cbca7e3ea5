---------------------------- MODULE HttpResponse ----------------------------
(***************************************************************************)
(* http-protocol.c: http_read_response, which receives a reply sector by   *)
(* sector into http->buff, takes the chunked framing off the body and      *)
(* hands the body to event_body in blocks.                                 *)
(*                                                                         *)
(* A reply is a sequence of symbols.  A symbol has the character the code  *)
(* looks at (ch) and, for a byte of the body, its index in the body (idx;  *)
(* 0 for framing and header, Stale for what is left of an earlier use of   *)
(* the buffer).  The code sees ch only: a body may hold line ends and      *)
(* digits.  The header is `head` symbols; what the code finds in it is     *)
(* given by the fields status and chunked.                                 *)
(***************************************************************************)
EXTENDS Integers, Sequences, FiniteSets, SequencesExt

CONSTANTS BuffSize,       \* sizeof(http->buff)
          Replies         \* records [status, chunked, head, wire]

\* An index no byte of a body has.
Stale == -1

\* The value of a character as a digit of a chunk size (http_isdigit, http_ctn).
Digits == [c \in {"0", "1", "2", "3"} |->
             CASE c = "0" -> 0 [] c = "1" -> 1 [] c = "2" -> 2 [] c = "3" -> 3]
Chars == {"x", "CR", "LF"} \cup DOMAIN Digits

\* What the peer sends (RFC 2616, 3.6.1).  Where the body of reply r is after
\* the n-th symbol: in a size line, with the size read so far; in the bytes of
\* a chunk, with how many are left; at the line end behind them; or over.  A
\* body that is not chunked is all bytes.
Start(r) == [in |-> IF r.chunked THEN "CHUNK_SIZE" ELSE "BODY", size |-> 0]

After(part, ch) ==
  CASE part.in = "CHUNK_SIZE" /\ ch \in DOMAIN Digits ->
         [in |-> "CHUNK_SIZE", size |-> part.size * 16 + Digits[ch]]
    [] part.in = "CHUNK_SIZE" /\ ch = "LF" ->
         [in |-> IF part.size = 0 THEN "OVER" ELSE "BODY", size |-> part.size]
    [] part.in = "BODY" ->
         [in |-> IF part.size = 1 THEN "TERMINATE_CHUNK" ELSE "BODY", size |-> part.size - 1]
    [] part.in = "TERMINATE_CHUNK" /\ ch = "LF" -> [in |-> "CHUNK_SIZE", size |-> 0]
    [] OTHER -> part

Parts(r) ==
  LET part[n \in 0..Len(r.wire)] ==
        IF n <= r.head \/ ~ r.chunked THEN Start(r) ELSE After(part[n - 1], r.wire[n].ch)
  IN  part

\* How many bytes of the body are among the first n symbols of the reply.
BodyCount(r, n) == Cardinality({i \in 1..n : r.wire[i].idx > 0})

\* The bytes of the body, and no other symbols, are numbered from 1, and a
\* size line is a number (no chunk extensions, which the code refuses).
Framed(r) ==
  LET part == Parts(r) IN
  \A n \in 1..Len(r.wire) :
    /\ r.wire[n].idx = IF n > r.head /\ part[n - 1].in = "BODY" THEN BodyCount(r, n - 1) + 1
                                                               ELSE 0
    /\ n > r.head /\ part[n - 1].in = "CHUNK_SIZE" => r.wire[n].ch # "x"

ASSUME ReplyAssumption ==
  /\ BuffSize \in Nat \ {0}
  /\ \A r \in Replies :
       /\ r.status \notin {"0", "-WERR_HTTP_HEADER"}     \* a number from 100
       /\ r.chunked \in BOOLEAN
       /\ r.head \in Nat \ {0}
       /\ r.wire \in Seq([ch : Chars, idx : Nat])
       /\ Framed(r)

VARIABLES
  reply, taken,           \* the reply, and how much of it recv has returned
  pc, buff, pos,          \* step, buffer, and fill of the first sector
  smcode, p, at, block_length, write_pos,
  chunked_size, stream_eof,
  rc,                     \* the value returned, or "none"
  delivered               \* history: indices of the bytes given to event_body

scan == <<smcode, p, at, block_length, chunked_size>>
vars == <<reply, taken, pc, buff, pos, scan, write_pos, stream_eof, rc, delivered>>

\* The buffer after recv has put n symbols behind the first k.
Received(k, n) ==
  [i \in 1..BuffSize |-> IF i \in (k + 1)..(k + n) THEN reply.wire[taken + i - k] ELSE buff[i]]

\* What recv may return: any part of what is left, up to the room given.
RecvSizes(room) == {n \in 1..room : taken + n <= Len(reply.wire)}

----------------------------------------------------------------------------
(* The first sector and the header.                                        *)

FirstRecv == \E n \in RecvSizes(BuffSize - pos) :
  /\ pc = "first"
  /\ buff' = Received(pos, n)
  /\ pos' = pos + n /\ taken' = taken + n
  /\ UNCHANGED <<reply, pc, scan, write_pos, stream_eof, rc, delivered>>

\* the buffer is full, or recv returns 0 or an error
FirstEnd ==
  /\ pc = "first"
  /\ pos = BuffSize \/ taken = Len(reply.wire)
  /\ pc' = "head"
  /\ UNCHANGED <<reply, taken, buff, pos, scan, write_pos, stream_eof, rc, delivered>>

HeadComplete == pos >= reply.head

\* No reply, a header cut off, or a status that is not a success.
HeadRefused ==
  /\ pc = "head" /\ pc' = "done"
  /\ \/ pos = 0 /\ rc' = "-WERR_TCP_RECV"
     \/ pos > 0 /\ ~ HeadComplete /\ rc' = "-WERR_HTTP_HEADER"
     \/ pos > 0 /\ reply.status # "ok" /\ rc' = reply.status
  /\ UNCHANGED <<reply, taken, buff, pos, scan, write_pos, stream_eof, delivered>>

\* Mutant: only what was received is taken for the body.
BodyLength_Received(head) == pos - head

\* len = sizeof(http->buff) - (body - http->buff): the rest of the buffer,
\* whether it was received or not
BodyLength(head) == BuffSize - head

\* memmove of the body to the front, and the start of the scan.  With a header
\* cut off by the end of the reply the end of a header may still be found
\* behind it, in the request the buffer held before.
HeadAccepted == \E head \in 1..BuffSize :
  /\ pc = "head" /\ pos > 0 /\ reply.status = "ok"
  /\ IF HeadComplete THEN head = reply.head ELSE head > pos
  /\ buff' = [i \in 1..BuffSize |->
                IF i <= BuffSize - head THEN buff[i + head] ELSE buff[i]]
  /\ write_pos' = BodyLength(head)
  /\ smcode' = IF reply.chunked THEN "CHUNK_SIZE" ELSE "BODY"
  /\ chunked_size' = 0 /\ block_length' = 0 /\ p' = 1 /\ at' = 1
  /\ pc' = "scan"
  /\ UNCHANGED <<reply, taken, pos, stream_eof, rc, delivered>>

----------------------------------------------------------------------------
(* The scan of a sector.                                                   *)

Scanning(code) == pc = "scan" /\ p <= write_pos /\ smcode = code
Ch == buff[p].ch
rest == <<reply, taken, buff, pos, write_pos, stream_eof>>

SkipReturn ==
  /\ pc = "scan" /\ p <= write_pos /\ smcode # "BODY" /\ Ch = "CR"
  /\ p' = p + 1
  /\ UNCHANGED <<rest, pc, smcode, at, block_length, chunked_size, rc, delivered>>

SizeDigit ==
  /\ Scanning("CHUNK_SIZE") /\ Ch \in DOMAIN Digits
  /\ chunked_size' = chunked_size * 16 + Digits[Ch]
  /\ p' = p + 1
  /\ UNCHANGED <<rest, pc, smcode, at, block_length, rc, delivered>>

SizeEnd ==
  /\ Scanning("CHUNK_SIZE") /\ Ch = "LF" /\ chunked_size # 0
  /\ p' = p + 1 /\ at' = p + 1 /\ block_length' = 0
  /\ smcode' = "BODY"
  /\ UNCHANGED <<rest, pc, chunked_size, rc, delivered>>

\* anything else in a size line, the end of the last chunk's "0" included
SizeRefused ==
  /\ Scanning("CHUNK_SIZE") /\ Ch # "CR" /\ Ch \notin DOMAIN Digits
  /\ ~ (Ch = "LF" /\ chunked_size # 0)
  /\ rc' = "-WERR_HTTP_HEADER" /\ pc' = "done"
  /\ UNCHANGED <<rest, scan, delivered>>

\* Mutant: the size of the finished chunk is not cleared.
ChunkEnd_KeepSize ==
  /\ Scanning("TERMINATE_CHUNK") /\ Ch # "CR"
  /\ p' = p + 1
  /\ smcode' = IF Ch = "LF" THEN "CHUNK_SIZE" ELSE smcode
  /\ UNCHANGED <<rest, pc, at, block_length, chunked_size, rc, delivered>>

\* the line end after a chunk's body
ChunkEnd ==
  /\ Scanning("TERMINATE_CHUNK") /\ Ch # "CR"
  /\ p' = p + 1
  /\ IF Ch = "LF" THEN smcode' = "CHUNK_SIZE" /\ chunked_size' = 0
                  ELSE UNCHANGED <<smcode, chunked_size>>
  /\ UNCHANGED <<rest, pc, at, block_length, rc, delivered>>

\* The byte does not end a block: the sector and the chunk go on.
BodyByte ==
  /\ Scanning("BODY")
  /\ p # write_pos /\ ~ (reply.chunked /\ block_length + 1 = chunked_size)
  /\ block_length' = block_length + 1 /\ p' = p + 1
  /\ UNCHANGED <<rest, pc, smcode, at, chunked_size, rc, delivered>>

Block == [i \in 1..(block_length + 1) |-> buff[at + i - 1].idx]

\* The byte ends a block: event_body gets it, and may refuse it.
BodyBlock == \E refused \in BOOLEAN :
  /\ Scanning("BODY")
  /\ p = write_pos \/ (reply.chunked /\ block_length + 1 = chunked_size)
  /\ delivered' = delivered \o Block
  /\ block_length' = block_length + 1
  /\ IF refused
     THEN /\ rc' = "refused" /\ pc' = "done"
          /\ UNCHANGED <<p, smcode, chunked_size>>
     ELSE /\ p' = p + 1
          /\ IF reply.chunked /\ block_length' = chunked_size
             THEN smcode' = "TERMINATE_CHUNK" /\ UNCHANGED chunked_size
             ELSE /\ chunked_size' = IF reply.chunked THEN chunked_size - block_length'
                                                      ELSE chunked_size
                  /\ UNCHANGED smcode
          /\ UNCHANGED <<pc, rc>>
  /\ UNCHANGED <<rest, at>>

NextSector ==
  /\ pc = "scan" /\ p > write_pos /\ ~ stream_eof
  /\ write_pos' = 0 /\ block_length' = 0 /\ at' = 1
  /\ pc' = "fill"
  /\ UNCHANGED <<reply, taken, buff, pos, smcode, p, chunked_size, stream_eof, rc, delivered>>

ReadEnd ==
  /\ pc = "scan" /\ p > write_pos /\ stream_eof
  /\ rc' = "0" /\ pc' = "done"
  /\ UNCHANGED <<rest, scan, delivered>>

----------------------------------------------------------------------------
(* The next sectors.                                                       *)

FillRecv == \E n \in RecvSizes(BuffSize - write_pos) :
  /\ pc = "fill"
  /\ buff' = Received(write_pos, n)
  /\ write_pos' = write_pos + n /\ taken' = taken + n
  /\ UNCHANGED <<reply, pc, pos, scan, stream_eof, rc, delivered>>

\* Mutant: the end of the stream ends the call, the last sector unread.
FillEnd_Drop ==
  /\ pc = "fill"
  /\ IF write_pos = BuffSize
     THEN p' = 1 /\ pc' = "scan" /\ UNCHANGED <<stream_eof, rc>>
     ELSE /\ taken = Len(reply.wire) /\ stream_eof' = TRUE
          /\ rc' = "0" /\ pc' = "done" /\ UNCHANGED p
  /\ UNCHANGED <<reply, taken, buff, pos, smcode, at, block_length, chunked_size,
                 write_pos, delivered>>

\* Mutant: the end of the stream is not remembered.
FillEnd_NoEof ==
  /\ pc = "fill"
  /\ write_pos = BuffSize \/ taken = Len(reply.wire)
  /\ p' = 1 /\ pc' = "scan"
  /\ UNCHANGED <<reply, taken, buff, pos, smcode, at, block_length, chunked_size,
                 write_pos, stream_eof, rc, delivered>>

FillEnd ==
  /\ pc = "fill"
  /\ \/ write_pos = BuffSize /\ UNCHANGED stream_eof
     \/ write_pos < BuffSize /\ taken = Len(reply.wire) /\ stream_eof' = TRUE
  /\ p' = 1 /\ pc' = "scan"
  /\ UNCHANGED <<reply, taken, buff, pos, smcode, at, block_length, chunked_size,
                 write_pos, rc, delivered>>

----------------------------------------------------------------------------
Init ==
  /\ reply \in Replies /\ taken = 0
  /\ pc = "first" /\ pos = 0 /\ write_pos = 0
  /\ buff = [i \in 1..BuffSize |-> [ch |-> "x", idx |-> Stale]]
  /\ smcode = "BODY" /\ p = 1 /\ at = 1 /\ block_length = 0 /\ chunked_size = 0
  /\ stream_eof = FALSE /\ rc = "none" /\ delivered = << >>

Recv == FirstRecv \/ FirstEnd \/ FillRecv \/ FillEnd
HeadStep == HeadRefused \/ HeadAccepted
Scan == \/ SkipReturn \/ SizeDigit \/ SizeEnd \/ SizeRefused \/ ChunkEnd \/ BodyByte
        \/ BodyBlock \/ NextSector \/ ReadEnd

Next == Recv \/ HeadStep \/ Scan

Spec == Init /\ [][Next]_vars

\* The peer sends its reply or closes, and the task is scheduled.
FairSpec == Spec /\ WF_vars(Next)

----------------------------------------------------------------------------
\* The reply fills the first sector: nothing of the buffer is stale.
Filled == Len(reply.wire) >= BuffSize

\* Wherever the sectors, the chunks and the recv calls are cut, event_body
\* gets the bytes of the body in order, each once, and no framing.
BodyInOrder ==
  Filled => \A i \in 1..Len(delivered) : delivered[i] = i

\* A call that returns 0 or refuses a size line has handed over every byte
\* of the body that was sent (a connection that ends early included); one
\* that event_body stopped has handed over no more than it received.
BodyComplete ==
  Filled /\ reply.head <= BuffSize /\ pc = "done" =>
    /\ rc \in {"0", "-WERR_HTTP_HEADER"} => Len(delivered) = BodyCount(reply, Len(reply.wire))
    /\ Len(delivered) <= BodyCount(reply, taken)

\* A plain reply that ends inside the first sector is padded: event_body is
\* always given the rest of the buffer, whatever was received of it.
ShortReplyPadded ==
  /\ pc = "done" /\ rc = "0" /\ ~ reply.chunked
  /\ ~ Filled /\ pos >= reply.head
  => Len(delivered) = BuffSize - reply.head

\* http_read_response returns, once the peer has sent its reply or closed.
ReadReturns == <>(pc = "done")

\* The end of a chunked reply: a chunk of size 0 and an empty line.
LastChunk == [i \in 1..5 |-> [ch |-> <<"0", "CR", "LF", "CR", "LF">>[i], idx |-> 0]]

\* "Return 0 if succeeded" (http-protocol.c:217): a successful reply whose
\* chunks and last chunk are all there is a success.
CompleteReplySucceeds ==
  /\ pc = "done" /\ Filled /\ reply.head <= BuffSize
  /\ reply.status = "ok" /\ reply.chunked /\ IsSuffix(LastChunk, reply.wire)
  => rc \in {"0", "refused"}
=============================================================================
